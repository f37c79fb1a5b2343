-------------------------- MODULE LiveSessionProofs --------------------------
(***************************************************************************)
(* What holds of every live session: EventsAreKept, and the bill of a      *)
(* turn, for any views, limits and frames.                                 *)
(***************************************************************************)
EXTENDS LiveSession, TLAPS

Bills == INSTANCE FoldLemmas WITH Op <- Billed

-----------------------------------------------------------------------------
(* The inductive invariant: the queue is the last of what was accepted,    *)
(* what precedes it is dealt among the readers, and those who wait read.   *)
Shown(c) == c.events \o c.rejected

ViewShape(c) ==
  /\ DOMAIN c = DOMAIN View
  /\ Bills!ASeq(c.events) /\ Bills!ASeq(c.rejected)
  /\ c.rejected # <<>> => c.failure # Null
  /\ c.reading # "none" => c.failure = Null

RawShape(w) ==
  /\ DOMAIN w = {"reading", "events", "ended"}
  /\ Bills!ASeq(w.events)
  /\ w.reading \in BOOLEAN /\ w.ended \in BOOLEAN

Shapes ==
  /\ accepted \in Nat /\ closed \in BOOLEAN
  /\ Bills!ASeq(queue) /\ Bills!ASeq(waiters)
  /\ \A i \in DOMAIN waiters : waiters[i] \in Reader
  /\ view = [v \in Views |-> view[v]]
  /\ \A v \in Views : ViewShape(view[v])
  /\ RawShape(raw)

Busy(r) == IF r = "raw" THEN raw.reading ELSE view[r].reading # "none"

Waiting ==
  /\ \A i, j \in DOMAIN waiters : waiters[i] = waiters[j] => i = j
  /\ \A r \in Reader : (\E i \in DOMAIN waiters : waiters[i] = r) => Busy(r)
  /\ waiters # <<>> => queue = <<>>
  /\ closed => waiters = <<>> /\ closing # "pending"

Ended == \A r \in Reader : Over(r) => closed /\ queue = <<>>

(* The numbers 1..m, each with one of R, in order. *)
Dealt(s, R, m) ==
  /\ \A r \in R : Bills!ASeq(s[r]) /\ Increasing(s[r]) /\ Nums(s[r]) \subseteq 1..m
  /\ \A n \in 1..m : \E r \in R : n \in Nums(s[r])
  /\ \A q, r \in R : q # r => Nums(s[q]) \cap Nums(s[r]) = {}

Read == accepted - Len(queue)
AllSeen == [r \in Reader |-> Seen(r)]

Kept ==
  /\ Read \in Nat
  /\ \A i \in DOMAIN queue : queue[i].n = Read + i
  /\ Dealt(AllSeen, Reader, Read)

LiveInv == Shapes /\ Waiting /\ Ended /\ Kept

(* The events somebody has, or will be given. *)
Held == Range(queue) \cup UNION {Range(Seen(r)) : r \in Reader}

Keeps == LiveInv' /\ Held' = Held

-----------------------------------------------------------------------------
(* What two sequences hold, one after the other. *)
LEMMA HeldByBoth ==
  ASSUME NEW s, NEW t, Bills!ASeq(s), Bills!ASeq(t)
  PROVE  Range(s \o t) = Range(s) \cup Range(t)
<1> DEFINE st == s \o t
<1>1. /\ Len(s) \in Nat /\ DOMAIN s = 1..Len(s) /\ Len(t) \in Nat /\ DOMAIN t = 1..Len(t)
      /\ DOMAIN st = 1..(Len(s) + Len(t))
      /\ \A i \in 1..(Len(s) + Len(t)) : st[i] = IF i <= Len(s) THEN s[i] ELSE t[i - Len(s)]
  BY Bills!Concatenated, Bills!SeqLen
<1> HIDE DEF st
<1>2. ASSUME NEW i \in DOMAIN st PROVE st[i] \in Range(s) \cup Range(t)
  <2>1. CASE i <= Len(s)
    BY <1>1, <2>1 DEF Range
  <2>2. CASE ~(i <= Len(s))
    <3>1. i - Len(s) \in DOMAIN t /\ st[i] = t[i - Len(s)]
      BY <1>1, <2>2
    <3> QED BY <3>1 DEF Range
  <2> QED BY <2>1, <2>2
<1>3. ASSUME NEW i \in DOMAIN s PROVE s[i] \in Range(st)
  <2>1. i \in DOMAIN st /\ st[i] = s[i]
    BY <1>1
  <2> QED BY <2>1 DEF Range
<1>4. ASSUME NEW i \in DOMAIN t PROVE t[i] \in Range(st)
  <2>1. Len(s) + i \in DOMAIN st /\ st[Len(s) + i] = t[i]
    BY <1>1
  <2> QED BY <2>1 DEF Range
<1>5. Range(st) = Range(s) \cup Range(t)
  BY <1>2, <1>3, <1>4 DEF Range
<1> QED BY <1>5 DEF st

(* And with one more. *)
LEMMA HeldByMore ==
  ASSUME NEW s, Bills!ASeq(s), NEW e
  PROVE  Range(Append(s, e)) = Range(s) \cup {e}
<1> DEFINE one == <<e>>
<1>1. Bills!ASeq(one) /\ Append(s, e) = s \o one
  <2>1. <<e>> \in Seq({e})
    OBVIOUS
  <2> QED BY <2>1, Bills!SeqOfSet, Bills!OneAdded
<1>2. Range(one) = {e}
  BY DEF Range
<1> HIDE DEF one
<1> QED BY <1>1, <1>2, HeldByBoth

(* One more event adds its number. *)
LEMMA NumsAppended ==
  ASSUME NEW s, Bills!ASeq(s), NEW e
  PROVE  Nums(Append(s, e)) = Nums(s) \cup {e.n}
<1> DEFINE t == Append(s, e)
<1>1. /\ Bills!ASeq(t) /\ Len(t) = Len(s) + 1 /\ t[Len(s) + 1] = e
      /\ \A i \in 1..Len(s) : t[i] = s[i]
  BY Bills!Appended
<1>2. Len(s) \in Nat /\ DOMAIN s = 1..Len(s) /\ DOMAIN t = 1..(Len(s) + 1)
  BY <1>1, Bills!SeqLen
<1> HIDE DEF t
<1>3. \A i \in 1..(Len(s) + 1) : i \in 1..Len(s) \/ i = Len(s) + 1
  BY <1>2
<1>4. 1..Len(s) \subseteq 1..(Len(s) + 1) /\ Len(s) + 1 \in 1..(Len(s) + 1)
  BY <1>2
<1>5. Nums(t) = Nums(s) \cup {e.n}
  BY <1>1, <1>2, <1>3, <1>4, Zenon DEF Nums
<1> QED BY <1>5 DEF t

(* Events stay in order when a later one is appended. *)
LEMMA IncreasingAppended ==
  ASSUME NEW s, Bills!ASeq(s), NEW e, NEW m \in Nat,
         Increasing(s), Nums(s) \subseteq 1..m, e.n \in Nat, e.n > m
  PROVE  Increasing(Append(s, e))
<1> DEFINE t == Append(s, e)
<1>1. /\ Bills!ASeq(t) /\ Len(t) = Len(s) + 1 /\ t[Len(s) + 1] = e
      /\ \A i \in 1..Len(s) : t[i] = s[i]
  BY Bills!Appended
<1>2. Len(s) \in Nat /\ DOMAIN s = 1..Len(s) /\ DOMAIN t = 1..(Len(s) + 1)
  BY <1>1, Bills!SeqLen
<1> HIDE DEF t
<1>3. \A i \in 1..Len(s) : s[i].n \in 1..m
  BY <1>2 DEF Nums
<1>4. ASSUME NEW i \in DOMAIN t, NEW j \in DOMAIN t, i < j PROVE t[i].n < t[j].n
  <2>1. i \in 1..Len(s) /\ (j \in 1..Len(s) \/ j = Len(s) + 1)
    BY <1>2, <1>4
  <2>2. CASE j \in 1..Len(s)
    BY <1>1, <1>2, <1>4, <2>1, <2>2 DEF Increasing
  <2>3. CASE j = Len(s) + 1
    <3>1. t[i].n \in 1..m /\ t[j].n = e.n
      BY <1>1, <1>3, <2>1, <2>3
    <3> QED BY <3>1
  <2> QED BY <2>1, <2>2, <2>3
<1> QED BY <1>4 DEF Increasing, t

(* The next numbers are dealt, to one reader each. *)
Dealing(s, t, R, m, k, D, e) ==
  /\ m \in Nat /\ k \in Nat /\ D \in SUBSET R
  /\ Dealt(s, R, m)
  /\ \A r \in R \ D : t[r] = s[r]
  /\ \A r \in D : t[r] = Append(s[r], e[r]) /\ e[r].n \in (m + 1)..(m + k)
  /\ \A n \in (m + 1)..(m + k) : \E r \in D : e[r].n = n
  /\ \A q, r \in D : e[q].n = e[r].n => q = r

(* The next numbers are dealt, to one reader each. *)
LEMMA Deal ==
  ASSUME NEW s, NEW t, NEW R, NEW m, NEW k, NEW D, NEW e, Dealing(s, t, R, m, k, D, e)
  PROVE  Dealt(t, R, m + k)
<1> /\ m \in Nat /\ k \in Nat /\ D \in SUBSET R
    /\ Dealt(s, R, m)
    /\ \A r \in R \ D : t[r] = s[r]
    /\ \A r \in D : t[r] = Append(s[r], e[r]) /\ e[r].n \in (m + 1)..(m + k)
    /\ \A n \in (m + 1)..(m + k) : \E r \in D : e[r].n = n
    /\ \A q, r \in D : e[q].n = e[r].n => q = r
  BY DEF Dealing
<1>1. ASSUME NEW r \in R \ D PROVE t[r] = s[r] /\ Nums(t[r]) = Nums(s[r])
  OBVIOUS
<1>2. ASSUME NEW r \in D PROVE Nums(t[r]) = Nums(s[r]) \cup {e[r].n}
  <2>1. Bills!ASeq(s[r]) /\ t[r] = Append(s[r], e[r])
    BY DEF Dealt
  <2>2. Nums(Append(s[r], e[r])) = Nums(s[r]) \cup {e[r].n}
    BY <2>1, NumsAppended
  <2> QED BY <2>1, <2>2
<1>3. ASSUME NEW r \in R
      PROVE  Bills!ASeq(t[r]) /\ Increasing(t[r]) /\ Nums(t[r]) \subseteq 1..(m + k)
  <2>1. Bills!ASeq(s[r]) /\ Increasing(s[r]) /\ Nums(s[r]) \subseteq 1..m
    BY DEF Dealt
  <2>2. 1..m \subseteq 1..(m + k) /\ (m + 1)..(m + k) \subseteq 1..(m + k)
    OBVIOUS
  <2>3. CASE r \in D
    <3>1. e[r].n \in Nat /\ e[r].n > m /\ e[r].n \in 1..(m + k)
      BY <2>3
    <3>2. t[r] = Append(s[r], e[r])
      BY <2>3
    <3>3. Bills!ASeq(Append(s[r], e[r]))
      BY <2>1, Bills!Appended
    <3>4. Increasing(Append(s[r], e[r]))
      BY <2>1, <3>1, IncreasingAppended
    <3>5. Nums(t[r]) \subseteq 1..(m + k)
      <4>1. Nums(t[r]) = Nums(s[r]) \cup {e[r].n}
        BY <1>2, <2>3
      <4>2. Nums(s[r]) \subseteq 1..(m + k)
        BY <2>1, <2>2
      <4> QED BY <3>1, <4>1, <4>2, Zenon
    <3> QED BY <3>2, <3>3, <3>4, <3>5
  <2>4. CASE r \notin D
    BY <1>1, <2>1, <2>2, <2>4
  <2> QED BY <2>3, <2>4
<1>4. ASSUME NEW n \in 1..(m + k) PROVE \E r \in R : n \in Nums(t[r])
  <2>1. CASE n \in 1..m
    <3>1. PICK r \in R : n \in Nums(s[r])
      BY <2>1 DEF Dealt
    <3>2. n \in Nums(t[r])
      BY <1>1, <1>2, <3>1, Zenon
    <3> QED BY <3>2
  <2>2. CASE n \in (m + 1)..(m + k)
    <3>1. PICK r \in D : e[r].n = n
      BY <2>2
    <3>2. r \in R /\ n \in Nums(t[r])
      BY <1>2, <3>1
    <3> QED BY <3>2
  <2>3. n \in 1..m \/ n \in (m + 1)..(m + k)
    OBVIOUS
  <2> QED BY <2>1, <2>2, <2>3
<1>5. ASSUME NEW q \in R, NEW r \in R, q # r PROVE Nums(t[q]) \cap Nums(t[r]) = {}
  <2>1. Nums(s[q]) \cap Nums(s[r]) = {} /\ Nums(s[q]) \subseteq 1..m /\ Nums(s[r]) \subseteq 1..m
    BY <1>5 DEF Dealt
  <2>2. \A p \in D : e[p].n \notin 1..m
    OBVIOUS
  <2>3. q \in D /\ r \in D => e[q].n # e[r].n
    BY <1>5
  <2>4. \A p \in R : Nums(t[p]) = IF p \in D THEN Nums(s[p]) \cup {e[p].n} ELSE Nums(s[p])
    BY <1>1, <1>2
  <2>5. CASE q \in D /\ r \in D
    <3>1. Nums(t[q]) = Nums(s[q]) \cup {e[q].n} /\ Nums(t[r]) = Nums(s[r]) \cup {e[r].n}
      BY <2>4, <2>5
    <3>2. e[q].n \notin Nums(s[r]) /\ e[r].n \notin Nums(s[q]) /\ e[q].n # e[r].n
      BY <2>1, <2>2, <2>3, <2>5
    <3> QED BY <2>1, <3>1, <3>2
  <2>6. CASE q \in D /\ r \notin D
    <3>1. Nums(t[q]) = Nums(s[q]) \cup {e[q].n} /\ Nums(t[r]) = Nums(s[r])
      BY <2>4, <2>6
    <3>2. e[q].n \notin Nums(s[r])
      BY <2>1, <2>2, <2>6
    <3> QED BY <2>1, <3>1, <3>2
  <2>7. CASE q \notin D /\ r \in D
    <3>1. Nums(t[q]) = Nums(s[q]) /\ Nums(t[r]) = Nums(s[r]) \cup {e[r].n}
      BY <2>4, <2>7
    <3>2. e[r].n \notin Nums(s[q])
      BY <2>1, <2>2, <2>7
    <3> QED BY <2>1, <3>1, <3>2
  <2>8. CASE q \notin D /\ r \notin D
    BY <2>1, <2>4, <2>8
  <2> QED BY <2>5, <2>6, <2>7, <2>8
<1> QED BY <1>3, <1>4, <1>5 DEF Dealt

-----------------------------------------------------------------------------
(* A view has the fields of a new one. *)
LEMMA Fields == DOMAIN View = {"events", "done", "reading", "failure", "rejected", "result", "sealed"}
BY DEF View

(* A view that is given an event shows it last, kept or rejected. *)
LEMMA CollectedShape ==
  ASSUME NEW c, NEW e, ViewShape(c), c.failure = Null
  PROVE  /\ ViewShape(Collected(c, e))
         /\ Shown(Collected(c, e)) = Append(Shown(c), e)
         /\ Collected(c, e).reading = "none"
         /\ Collected(c, e).failure # "session"
<1> DEFINE d == Collected(c, e)
<1>1. c.rejected = <<>> /\ Bills!ASeq(c.events) /\ DOMAIN c = DOMAIN View
  BY DEF ViewShape
<1>2. Shown(c) = c.events
  BY <1>1, Bills!NothingAdded DEF Shown
<1>3. Bills!ASeq(Append(c.events, e)) /\ Bills!ASeq(<<>>)
  BY <1>1, Bills!Appended, Bills!EmptyIsASeq
<1>4. CASE Fits(c, e)
  <2>1. /\ DOMAIN d = DOMAIN c /\ d.reading = "none" /\ d.events = Append(c.events, e)
        /\ d.rejected = c.rejected /\ d.failure = c.failure
    BY <1>1, <1>4, Fields DEF Collected
  <2> HIDE DEF d
  <2>2. Shown(d) = Append(Shown(c), e)
    BY <1>1, <1>2, <1>3, <2>1, Bills!NothingAdded DEF Shown
  <2>3. ViewShape(d) /\ d.failure # "session"
    BY <1>1, <1>3, <2>1, FailuresAssumption DEF ViewShape
  <2> QED BY <2>1, <2>2, <2>3 DEF d
<1>5. CASE ~Fits(c, e)
  <2>1. /\ DOMAIN d = DOMAIN c /\ d.reading = "none" /\ d.events = c.events
        /\ d.rejected = <<e>> /\ d.failure = "max_bytes"
    BY <1>1, <1>5, Fields DEF Collected
  <2> HIDE DEF d
  <2>2. Shown(d) = Append(Shown(c), e)
    BY <1>1, <1>2, <2>1, Bills!OneAdded DEF Shown
  <2>3. Bills!ASeq(<<e>>)
    <3>1. <<e>> \in Seq({e})
      OBVIOUS
    <3> QED BY <3>1, Bills!SeqOfSet
  <2>4. ViewShape(d) /\ d.failure # "session"
    BY <1>1, <2>1, <2>3, FailuresAssumption DEF ViewShape
  <2> QED BY <2>1, <2>2, <2>4 DEF d
<1> QED BY <1>4, <1>5

(* The end of the session takes nothing from a view. *)
LEMMA StoppedShape ==
  ASSUME NEW c, ViewShape(c)
  PROVE  /\ ViewShape(Stopped(c)) /\ Shown(Stopped(c)) = Shown(c)
         /\ Stopped(c).reading = "none"
<1> DEFINE d == Stopped(c)
<1>1. /\ DOMAIN d = DOMAIN c /\ d.reading = "none" /\ d.events = c.events
      /\ d.rejected = c.rejected /\ d.failure = "session"
  BY Fields DEF ViewShape, Stopped
<1> HIDE DEF d
<1>2. ViewShape(d) /\ Shown(d) = Shown(c)
  BY <1>1, FailuresAssumption DEF ViewShape, Shown
<1> QED BY <1>1, <1>2 DEF d

(* Nor does its result. *)
LEMMA SettledShape ==
  ASSUME NEW c, ViewShape(c)
  PROVE  /\ ViewShape(Settle(c)) /\ Shown(Settle(c)) = Shown(c)
         /\ Settle(c).reading = c.reading /\ Settle(c).failure = c.failure
<1> DEFINE d == Settle(c)
<1>1. /\ DOMAIN d = DOMAIN c /\ d.reading = c.reading /\ d.events = c.events
      /\ d.rejected = c.rejected /\ d.failure = c.failure
  BY Fields DEF ViewShape, Settle
<1> HIDE DEF d
<1>2. ViewShape(d) /\ Shown(d) = Shown(c)
  BY <1>1 DEF ViewShape, Shown
<1> QED BY <1>1, <1>2 DEF d

(* The session's own reader keeps what it is given. *)
LEMMA TakenRawShape ==
  ASSUME RawShape(raw), NEW e
  PROVE  /\ RawShape(TakenRaw(e)) /\ TakenRaw(e).events = Append(raw.events, e)
         /\ ~TakenRaw(e).reading /\ TakenRaw(e).ended = raw.ended
<1> DEFINE d == TakenRaw(e)
<1>1. /\ DOMAIN d = DOMAIN raw /\ d.reading = FALSE /\ d.events = Append(raw.events, e)
      /\ d.ended = raw.ended
  BY DEF RawShape, TakenRaw
<1> HIDE DEF d
<1>2. Bills!ASeq(Append(raw.events, e))
  BY Bills!Appended DEF RawShape
<1>3. RawShape(d)
  BY <1>1, <1>2 DEF RawShape
<1> QED BY <1>1, <1>3 DEF d

(* And keeps it when it is told of the end. *)
LEMMA EndedRawShape ==
  ASSUME RawShape(raw)
  PROVE  /\ RawShape(EndedRaw) /\ EndedRaw.events = raw.events
         /\ ~EndedRaw.reading /\ EndedRaw.ended
<1> DEFINE d == EndedRaw
<1>1. /\ DOMAIN d = DOMAIN raw /\ d.reading = FALSE /\ d.events = raw.events /\ d.ended = TRUE
  BY DEF RawShape, EndedRaw
<1> HIDE DEF d
<1>2. RawShape(d)
  BY <1>1 DEF RawShape
<1> QED BY <1>1, <1>2 DEF d

-----------------------------------------------------------------------------
(* Give deals the events to those who wait, in their turn, and queues the  *)
(* rest.                                                                   *)
Turn(r) == CHOOSE i \in DOMAIN waiters : waiters[i] = r
Gets(r, count) == r \in Range(waiters) /\ Turn(r) <= count

(* A reader waits in one place only. *)
LEMMA TurnIs ==
  ASSUME LiveInv, NEW i \in DOMAIN waiters
  PROVE  Turn(waiters[i]) = i
<1>1. Turn(waiters[i]) \in DOMAIN waiters /\ waiters[Turn(waiters[i])] = waiters[i]
  BY DEF Turn
<1> QED BY <1>1 DEF LiveInv, Waiting

(* Give, with the readers' turns named. *)
LEMMA GiveIs ==
  ASSUME NEW events, NEW ends, Give(events, ends)
  PROVE  /\ view' = [v \in Views |->
                       IF Gets(v, Len(events)) THEN Collected(view[v], events[Turn(v)])
                       ELSE IF v \in Range(waiters) /\ ends THEN Stopped(view[v]) ELSE view[v]]
         /\ raw' = IF Gets("raw", Len(events)) THEN TakenRaw(events[Turn("raw")])
                   ELSE IF "raw" \in Range(waiters) /\ ends THEN EndedRaw ELSE raw
         /\ waiters' = IF ends THEN <<>> ELSE SubSeq(waiters, Len(events) + 1, Len(waiters))
         /\ queue' = queue \o SubSeq(events, Len(waiters) + 1, Len(events))
<1>1. \A r : r \in Range(waiters) <=> \E i \in DOMAIN waiters : waiters[i] = r
  BY DEF Range
<1> QED BY <1>1, Zenon DEF Give, Gets, Turn

(* A view, when events are given: it shows its event, stops waiting, or is *)
(* told of the end.                                                        *)
LEMMA GivenView ==
  ASSUME LiveInv, NEW STATE events, NEW STATE ends, Give(events, ends), NEW v \in Views
  PROVE  /\ ViewShape(view'[v])
         /\ Shown(view'[v]) = IF Gets(v, Len(events)) THEN Append(Shown(view[v]), events[Turn(v)])
                              ELSE Shown(view[v])
         /\ view'[v].reading # "none" <=> /\ view[v].reading # "none" /\ ~Gets(v, Len(events))
                                          /\ ~(v \in Range(waiters) /\ ends)
         /\ view'[v].failure = "session" =>
              \/ view[v].failure = "session"
              \/ v \in Range(waiters) /\ ~Gets(v, Len(events)) /\ ends
<1>1. view'[v] = IF Gets(v, Len(events)) THEN Collected(view[v], events[Turn(v)])
                 ELSE IF v \in Range(waiters) /\ ends THEN Stopped(view[v]) ELSE view[v]
  BY GiveIs
<1>2. ViewShape(view[v]) /\ v # "raw"
  BY ReadersAssumption DEF LiveInv, Shapes
<1>3. CASE Gets(v, Len(events))
  <2>1. PICK i \in DOMAIN waiters : waiters[i] = v
    BY <1>3 DEF Gets, Range
  <2>2. view[v].failure = Null
    BY <1>2, <2>1 DEF LiveInv, Waiting, Busy, ViewShape, Reader
  <2>3. view'[v] = Collected(view[v], events[Turn(v)])
    BY <1>1, <1>3
  <2> QED BY <1>2, <1>3, <2>2, <2>3, CollectedShape
<1>4. CASE ~Gets(v, Len(events)) /\ v \in Range(waiters) /\ ends
  <2>1. view'[v] = Stopped(view[v])
    BY <1>1, <1>4
  <2> QED BY <1>2, <1>4, <2>1, StoppedShape
<1>5. CASE ~Gets(v, Len(events)) /\ ~(v \in Range(waiters) /\ ends)
  BY <1>1, <1>2, <1>5
<1> QED BY <1>3, <1>4, <1>5

(* The session's reader, when events are given. *)
LEMMA GivenRaw ==
  ASSUME LiveInv, NEW STATE events, NEW STATE ends, Give(events, ends)
  PROVE  /\ RawShape(raw')
         /\ raw'.events = IF Gets("raw", Len(events)) THEN Append(raw.events, events[Turn("raw")])
                          ELSE raw.events
         /\ raw'.reading <=> /\ raw.reading /\ ~Gets("raw", Len(events))
                             /\ ~("raw" \in Range(waiters) /\ ends)
         /\ raw'.ended =>
              raw.ended \/ ("raw" \in Range(waiters) /\ ~Gets("raw", Len(events)) /\ ends)
<1>1. raw' = IF Gets("raw", Len(events)) THEN TakenRaw(events[Turn("raw")])
             ELSE IF "raw" \in Range(waiters) /\ ends THEN EndedRaw ELSE raw
  BY GiveIs
<1>2. RawShape(raw)
  BY DEF LiveInv, Shapes
<1>3. CASE Gets("raw", Len(events))
  <2>1. raw' = TakenRaw(events[Turn("raw")])
    BY <1>1, <1>3
  <2> QED BY <1>2, <1>3, <2>1, TakenRawShape
<1>4. CASE ~Gets("raw", Len(events)) /\ "raw" \in Range(waiters) /\ ends
  <2>1. raw' = EndedRaw
    BY <1>1, <1>4
  <2> QED BY <1>2, <1>4, <2>1, EndedRawShape
<1>5. CASE ~Gets("raw", Len(events)) /\ ~("raw" \in Range(waiters) /\ ends)
  BY <1>1, <1>2, <1>5
<1> QED BY <1>3, <1>4, <1>5

(* The same of any reader. *)
LEMMA GivenReader ==
  ASSUME LiveInv, NEW STATE events, NEW STATE ends, Give(events, ends), NEW r \in Reader
  PROVE  /\ Seen(r)' = IF Gets(r, Len(events)) THEN Append(Seen(r), events[Turn(r)]) ELSE Seen(r)
         /\ Busy(r)' <=> /\ Busy(r) /\ ~Gets(r, Len(events))
                         /\ ~(r \in Range(waiters) /\ ends)
         /\ Over(r)' => Over(r) \/ (r \in Range(waiters) /\ ~Gets(r, Len(events)) /\ ends)
<1>1. CASE r = "raw"
  BY <1>1, GivenRaw DEF Seen, Busy, Over
<1>2. CASE r # "raw"
  <2>1. r \in Views
    BY <1>2 DEF Reader
  <2>2. Seen(r) = Shown(view[r]) /\ Seen(r)' = Shown(view'[r])
    BY <1>2 DEF Seen, Shown
  <2>3. /\ Busy(r) <=> view[r].reading # "none"
        /\ Busy(r)' <=> view'[r].reading # "none"
        /\ Over(r) <=> view[r].failure = "session"
        /\ Over(r)' <=> view'[r].failure = "session"
    BY <1>2 DEF Busy, Over
  <2> QED BY <2>1, <2>2, <2>3, GivenView
<1> QED BY <1>1, <1>2

(* The events that are given go to those who wait, in turn, and the rest   *)
(* is queued behind what is; if the session ends, nobody waits any more.   *)
LEMMA GiveKeeps ==
  ASSUME LiveInv, ~closed, NEW STATE events, NEW STATE ends, ends \in BOOLEAN,
         Bills!ASeq(events), \A i \in DOMAIN events : events[i].n = accepted + i,
         Give(events, ends), accepted' = accepted + Len(events),
         closed' = ends, ends => closing' # "pending"
  PROVE  LiveInv'
<1> DEFINE E == Len(events)
           W == Len(waiters)
           k == IF E < W THEN E ELSE W
           rest == SubSeq(events, W + 1, E)
<1>1. /\ E \in Nat /\ DOMAIN events = 1..E /\ W \in Nat /\ DOMAIN waiters = 1..W
      /\ Len(queue) \in Nat /\ DOMAIN queue = 1..Len(queue) /\ Read \in Nat /\ accepted \in Nat
  BY Bills!SeqLen DEF LiveInv, Shapes, Kept
<1>2. /\ Bills!ASeq(rest) /\ Len(rest) = IF W + 1 <= E THEN E - W ELSE 0
      /\ \A i \in 1..(E - W) : rest[i] = events[W + i]
  <2>1. W + 1 \in Nat \ {0}
    BY <1>1
  <2>2. /\ Bills!ASeq(rest)
        /\ Len(rest) = IF W + 1 <= E THEN E - (W + 1) + 1 ELSE 0
        /\ \A i \in 1..(E - (W + 1) + 1) : rest[i] = events[(W + 1) + i - 1]
    BY <1>1, <2>1, Bills!Sliced
  <2>3. E - (W + 1) + 1 = E - W
    BY <1>1
  <2>4. \A i \in 1..(E - W) : (W + 1) + i - 1 = W + i
    BY <1>1
  <2> HIDE DEF rest, E, W
  <2> QED BY <2>2, <2>3, <2>4
<1>3. /\ queue' = queue \o rest
      /\ waiters' = IF ends THEN <<>> ELSE SubSeq(waiters, E + 1, W)
      /\ view' = [v \in Views |-> view'[v]]
  BY GiveIs
<1> HIDE DEF E, W, rest
<1>4. k \in Nat /\ (W # 0 => queue = <<>>) /\ k <= E /\ k <= W
  <2>1. W # 0 => waiters # <<>>
    BY Bills!EmptyIsASeq DEF W
  <2> QED BY <1>1, <2>1 DEF LiveInv, Waiting
<1>5. queue = <<>> => Len(queue) = 0 /\ Read = accepted
  BY <1>1, Bills!EmptyIsASeq DEF Read
<1>6. /\ Bills!ASeq(queue') /\ Len(queue') = Len(queue) + Len(rest)
      /\ \A i \in 1..(Len(queue) + Len(rest)) :
           queue'[i] = IF i <= Len(queue) THEN queue[i] ELSE rest[i - Len(queue)]
  BY <1>2, <1>3, Bills!Concatenated DEF LiveInv, Shapes
<1>7. Read' = Read + k /\ accepted = Read + Len(queue)
  <2>1. Read' = (accepted + E) - (Len(queue) + Len(rest))
    BY <1>6 DEF Read, E
  <2>2. accepted = Read + Len(queue)
    BY <1>1 DEF Read
  <2>3. Len(rest) = E - k
    BY <1>1, <1>2
  <2>4. k \in Nat
    BY <1>4
  <2> HIDE DEF k
  <2> QED BY <1>1, <2>1, <2>2, <2>3, <2>4
<1>8. \A i \in DOMAIN queue' : queue'[i].n = Read' + i
  <2> SUFFICES ASSUME NEW i \in DOMAIN queue' PROVE queue'[i].n = Read' + i
    OBVIOUS
  <2>1. DOMAIN queue' = 1..(Len(queue) + Len(rest))
    BY <1>6, Bills!SeqLen
  <2>2. CASE W = 0 /\ i <= Len(queue)
    <3>1. queue'[i] = queue[i] /\ i \in DOMAIN queue /\ k = 0
      BY <1>1, <1>6, <2>1, <2>2
    <3> QED BY <1>1, <1>7, <3>1 DEF LiveInv, Kept
  <2>3. CASE W = 0 /\ i > Len(queue)
    <3>1. /\ Len(rest) = E /\ i - Len(queue) \in 1..E /\ k = 0
          /\ queue'[i] = rest[i - Len(queue)]
      BY <1>1, <1>2, <1>6, <2>1, <2>3
    <3>2. queue'[i] = events[i - Len(queue)]
      BY <1>1, <1>2, <2>3, <3>1
    <3>3. queue'[i].n = accepted + (i - Len(queue))
      BY <1>1, <3>1, <3>2
    <3> HIDE DEF k
    <3> QED BY <1>1, <1>7, <2>1, <3>1, <3>3
  <2>4. CASE W # 0
    <3>1. Len(queue) = 0 /\ Len(rest) # 0 /\ Read = accepted
      BY <1>1, <1>2, <1>4, <1>5, <2>1, <2>4
    <3>2. Len(rest) = E - W /\ W < E /\ k = W /\ i \in 1..(E - W)
      BY <1>1, <1>2, <2>1, <3>1
    <3>3. queue'[i] = events[W + i] /\ W + i \in DOMAIN events
      BY <1>1, <1>2, <1>6, <2>1, <3>1, <3>2
    <3>4. queue'[i].n = accepted + (W + i)
      BY <3>3
    <3> QED BY <1>1, <1>7, <3>1, <3>2, <3>4
  <2> QED BY <1>1, <2>1, <2>2, <2>3, <2>4
<1>9. Dealt(AllSeen', Reader, Read')
  <2> DEFINE D == {waiters[i] : i \in 1..k}
             e == [r \in D |-> events[Turn(r)]]
  <2>1. \A i \in 1..k : i \in DOMAIN waiters /\ i \in DOMAIN events /\ Turn(waiters[i]) = i
    BY <1>1, <1>4, TurnIs
  <2>2. D \in SUBSET Reader
    BY <2>1 DEF LiveInv, Shapes
  <2>3. ASSUME NEW r \in Reader PROVE Gets(r, E) <=> r \in D
    <3>1. ASSUME r \in D PROVE Gets(r, E)
      <4>1. PICK i \in 1..k : r = waiters[i]
        BY <3>1
      <4> QED BY <1>1, <1>4, <2>1, <4>1 DEF Gets, Range
    <3>2. ASSUME Gets(r, E) PROVE r \in D
      <4>1. PICK i \in DOMAIN waiters : waiters[i] = r
        BY <3>2 DEF Gets, Range
      <4>2. Turn(r) = i /\ i <= E /\ i \in 1..W
        BY <1>1, <3>2, <4>1, TurnIs DEF Gets
      <4>3. i \in 1..k
        BY <1>1, <4>2
      <4> QED BY <4>1, <4>3
    <3> QED BY <3>1, <3>2
  <2>4. ASSUME NEW r \in Reader
        PROVE  AllSeen'[r] = IF r \in D THEN Append(AllSeen[r], e[r]) ELSE AllSeen[r]
    <3>1. AllSeen'[r] = Seen(r)' /\ AllSeen[r] = Seen(r)
      BY DEF AllSeen
    <3>2. Seen(r)' = IF Gets(r, E) THEN Append(Seen(r), events[Turn(r)]) ELSE Seen(r)
      BY GivenReader DEF E
    <3>3. r \in D => e[r] = events[Turn(r)]
      OBVIOUS
    <3> HIDE DEF D, e
    <3> QED BY <2>3, <3>1, <3>2, <3>3
  <2>5. ASSUME NEW i \in 1..k PROVE waiters[i] \in D /\ e[waiters[i]].n = Read + i
    <3>1. e[waiters[i]] = events[i]
      BY <2>1
    <3>2. events[i].n = accepted + i
      BY <2>1
    <3>3. W # 0
      BY <1>1, <1>4
    <3> QED BY <1>4, <1>5, <3>1, <3>2, <3>3
  <2>6. \A r \in D : \E i \in 1..k : r = waiters[i]
    OBVIOUS
  <2> HIDE DEF D, e, k
  <2>7. \A r \in D : e[r].n \in (Read + 1)..(Read + k)
    BY <1>1, <1>4, <2>5, <2>6
  <2>8. ASSUME NEW n \in (Read + 1)..(Read + k) PROVE \E r \in D : e[r].n = n
    <3>1. n - Read \in 1..k /\ Read + (n - Read) = n
      BY <1>1, <1>4
    <3> QED BY <2>5, <3>1
  <2>9. ASSUME NEW q \in D, NEW r \in D, e[q].n = e[r].n PROVE q = r
    <3>1. PICK i \in 1..k : q = waiters[i]
      BY <2>6
    <3>2. PICK j \in 1..k : r = waiters[j]
      BY <2>6
    <3>3. i = j
      BY <1>1, <1>4, <2>5, <2>9, <3>1, <3>2
    <3> QED BY <3>1, <3>2, <3>3
  <2>10. Dealt(AllSeen, Reader, Read)
    BY DEF LiveInv, Kept
  <2>11. Dealt(AllSeen', Reader, Read + k)
    <3>1. \A r \in Reader \ D : AllSeen'[r] = AllSeen[r]
      BY <2>4
    <3>2. \A r \in D : AllSeen'[r] = Append(AllSeen[r], e[r]) /\ e[r].n \in (Read + 1)..(Read + k)
      BY <2>2, <2>4, <2>7
    <3>3. PICK t : t = AllSeen'
      OBVIOUS
    <3>4. \A r \in Reader \ D : t[r] = AllSeen[r]
      BY <3>1, <3>3
    <3>5. \A r \in D : t[r] = Append(AllSeen[r], e[r]) /\ e[r].n \in (Read + 1)..(Read + k)
      BY <3>2, <3>3
    <3>6. \A n \in (Read + 1)..(Read + k) : \E r \in D : e[r].n = n
      BY <2>8
    <3>7. \A q, r \in D : e[q].n = e[r].n => q = r
      BY <2>9
    <3>8. k \in Nat /\ Read \in Nat
      BY <1>1, <1>4
    <3>9. Dealing(AllSeen, t, Reader, Read, k, D, e)
      BY <2>2, <2>10, <3>4, <3>5, <3>6, <3>7, <3>8 DEF Dealing
    <3>10. Dealt(t, Reader, Read + k)
      BY <3>9, Deal
    <3> QED BY <3>3, <3>10
  <2> QED BY <1>7, <2>11
<1>10. Waiting'
  <2> DEFINE left == SubSeq(waiters, E + 1, W)
  <2>1. /\ Bills!ASeq(left) /\ Len(left) = IF E + 1 <= W THEN W - E ELSE 0
        /\ \A i \in 1..(W - E) : left[i] = waiters[E + i]
    <3>1. E + 1 \in Nat \ {0} /\ Bills!ASeq(waiters)
      BY <1>1 DEF LiveInv, Shapes
    <3>2. /\ Bills!ASeq(left)
          /\ Len(left) = IF E + 1 <= W THEN W - (E + 1) + 1 ELSE 0
          /\ \A i \in 1..(W - (E + 1) + 1) : left[i] = waiters[(E + 1) + i - 1]
      BY <1>1, <3>1, Bills!Sliced DEF W
    <3>3. W - (E + 1) + 1 = W - E
      BY <1>1
    <3>4. \A i \in 1..(W - E) : (E + 1) + i - 1 = E + i
      BY <1>1
    <3> HIDE DEF left
    <3> QED BY <3>2, <3>3, <3>4
  <2> HIDE DEF left
  <2>2. CASE ends
    <3>1. waiters' = <<>> /\ closing' # "pending" /\ DOMAIN waiters' = {}
      BY <1>3, <2>2
    <3> QED BY <3>1 DEF Waiting
  <2>3. CASE ~ends
    <3>1. waiters' = left /\ ~closed'
      BY <1>3, <2>3 DEF left
    <3>2. \A i \in DOMAIN waiters' : i \in 1..(W - E) /\ E + i \in DOMAIN waiters /\ waiters'[i] = waiters[E + i]
      BY <1>1, <2>1, <3>1, Bills!SeqLen
    <3>3. ASSUME NEW i \in DOMAIN waiters', NEW j \in DOMAIN waiters', waiters'[i] = waiters'[j]
          PROVE  i = j
      <4>1. E + i = E + j
        BY <3>2, <3>3 DEF LiveInv, Waiting
      <4> QED BY <1>1, <3>2, <4>1
    <3>4. ASSUME NEW r \in Reader, NEW i \in DOMAIN waiters', waiters'[i] = r PROVE Busy(r)'
      <4>1. E + i \in DOMAIN waiters /\ waiters[E + i] = r /\ i \in Nat \ {0}
        BY <1>1, <3>2, <3>4
      <4>2. Turn(r) = E + i /\ Busy(r)
        BY <4>1, TurnIs DEF LiveInv, Waiting
      <4>3. ~Gets(r, E)
        BY <1>1, <4>1, <4>2 DEF Gets
      <4> QED BY <2>3, <4>2, <4>3, GivenReader DEF E
    <3>5. waiters' # <<>> => queue' = <<>>
      <4> SUFFICES ASSUME waiters' # <<>> PROVE queue' = <<>>
        OBVIOUS
      <4>1. Len(left) # 0
        BY <2>1, <3>1, Bills!NoLength
      <4>2. W # 0 /\ Len(rest) = 0
        BY <1>1, <1>2, <2>1, <4>1
      <4>3. queue = <<>> /\ rest = <<>>
        BY <1>2, <1>4, <4>2, Bills!NoLength
      <4> QED BY <1>3, <4>3
    <3> QED BY <3>1, <3>3, <3>4, <3>5 DEF Waiting
  <2> QED BY <2>2, <2>3
<1>11. Shapes'
  <2>1. \A v \in Views : ViewShape(view'[v])
    BY GivenView
  <2>2. RawShape(raw')
    BY GivenRaw
  <2>3. Bills!ASeq(waiters') /\ \A i \in DOMAIN waiters' : waiters'[i] \in Reader
    <3>1. CASE ends
      BY <1>3, <3>1, Bills!EmptyIsASeq
    <3>2. CASE ~ends
      <4>1. E + 1 \in Nat \ {0} /\ Bills!ASeq(waiters) /\ waiters' = SubSeq(waiters, E + 1, W)
        <5>1. Bills!ASeq(waiters)
          BY DEF LiveInv, Shapes
        <5>2. waiters' = SubSeq(waiters, E + 1, W)
          BY <1>3, <3>2
        <5>3. E + 1 \in Nat \ {0}
          BY <1>1
        <5> QED BY <5>1, <5>2, <5>3
      <4>2. /\ Bills!ASeq(waiters')
            /\ Len(waiters') = IF E + 1 <= W THEN W - (E + 1) + 1 ELSE 0
            /\ \A i \in 1..(W - (E + 1) + 1) : waiters'[i] = waiters[(E + 1) + i - 1]
        BY <1>1, <4>1, Bills!Sliced DEF W
      <4>3. \A i \in DOMAIN waiters' : i \in 1..(W - (E + 1) + 1) /\ (E + 1) + i - 1 \in DOMAIN waiters
        BY <1>1, <4>2, Bills!SeqLen
      <4> QED BY <4>2, <4>3 DEF LiveInv, Shapes
    <3> QED BY <3>1, <3>2
  <2>4. accepted' \in Nat /\ closed' \in BOOLEAN
    BY <1>1 DEF E
  <2> QED BY <1>3, <1>6, <2>1, <2>2, <2>3, <2>4 DEF Shapes
<1>12. Ended'
  <2> SUFFICES ASSUME NEW r \in Reader, Over(r)' PROVE closed' /\ queue' = <<>>
    BY DEF Ended
  <2>1. ~Over(r)
    BY DEF LiveInv, Ended
  <2>2. r \in Range(waiters) /\ ~Gets(r, E) /\ ends
    BY <2>1, GivenReader DEF E
  <2>3. PICK i \in DOMAIN waiters : waiters[i] = r
    BY <2>2 DEF Range
  <2>4. E < W /\ W # 0
    BY <1>1, <2>2, <2>3, TurnIs DEF Gets
  <2>5. Len(rest) = 0 /\ queue = <<>>
    BY <1>1, <1>2, <1>4, <2>4
  <2>6. rest = <<>>
    BY <1>2, <2>5, Bills!NoLength
  <2> QED BY <1>3, <2>2, <2>5, <2>6
<1>13. Kept'
  <2>1. Read' \in Nat
    BY <1>1, <1>4, <1>7
  <2> QED BY <1>8, <1>9, <2>1 DEF Kept
<1> QED BY <1>10, <1>11, <1>12, <1>13 DEF LiveInv

(* Nobody loses an event, and each of those given is held.                 *)
LEMMA GiveHolds ==
  ASSUME LiveInv, NEW STATE events, NEW STATE ends, Bills!ASeq(events), Give(events, ends)
  PROVE  Held' = Held \cup Range(events)
<1> DEFINE E == Len(events)
           W == Len(waiters)
           rest == SubSeq(events, W + 1, E)
<1>1. /\ E \in Nat /\ DOMAIN events = 1..E /\ W \in Nat /\ DOMAIN waiters = 1..W
      /\ Bills!ASeq(queue)
  BY Bills!SeqLen DEF LiveInv, Shapes
<1>2. /\ Bills!ASeq(rest) /\ Len(rest) = IF W + 1 <= E THEN E - W ELSE 0
      /\ \A i \in 1..(E - W) : rest[i] = events[W + i]
  <2>1. W + 1 \in Nat \ {0}
    BY <1>1
  <2>2. /\ Bills!ASeq(rest)
        /\ Len(rest) = IF W + 1 <= E THEN E - (W + 1) + 1 ELSE 0
        /\ \A i \in 1..(E - (W + 1) + 1) : rest[i] = events[(W + 1) + i - 1]
    BY <1>1, <2>1, Bills!Sliced
  <2>3. E - (W + 1) + 1 = E - W
    BY <1>1
  <2>4. \A i \in 1..(E - W) : (W + 1) + i - 1 = W + i
    BY <1>1
  <2> HIDE DEF rest, E, W
  <2> QED BY <2>2, <2>3, <2>4
<1>3. Range(queue') = Range(queue) \cup Range(rest)
  <2>1. queue' = queue \o rest
    BY GiveIs
  <2> HIDE DEF rest
  <2> QED BY <1>1, <1>2, <2>1, HeldByBoth
<1>4. \A r \in Reader :
        Seen(r)' = IF Gets(r, E) THEN Append(Seen(r), events[Turn(r)]) ELSE Seen(r)
  BY GivenReader DEF E
<1>5. \A r \in Reader : Bills!ASeq(Seen(r))
  BY DEF LiveInv, Kept, Dealt, AllSeen
<1> HIDE DEF E, W
<1>6. \A r \in Reader :
        Range(Seen(r)') = Range(Seen(r)) \cup (IF Gets(r, E) THEN {events[Turn(r)]} ELSE {})
  BY <1>4, <1>5, HeldByMore
<1>7. \A i \in DOMAIN rest : rest[i] \in Range(events)
  <2> SUFFICES ASSUME NEW i \in DOMAIN rest PROVE rest[i] \in Range(events)
    OBVIOUS
  <2>1. DOMAIN rest = 1..Len(rest)
    BY <1>2, Bills!SeqLen
  <2> HIDE DEF rest
  <2>2. i \in 1..(E - W) /\ W + i \in DOMAIN events
    BY <1>1, <1>2, <2>1
  <2> QED BY <1>2, <2>2 DEF Range
<1>8. \A r \in Reader : Gets(r, E) => events[Turn(r)] \in Range(events)
  <2> SUFFICES ASSUME NEW r \in Reader, Gets(r, E) PROVE Turn(r) \in DOMAIN events
    BY DEF Range
  <2>1. PICK i \in DOMAIN waiters : waiters[i] = r
    BY DEF Gets, Range
  <2>2. Turn(r) = i /\ i <= E
    BY <2>1, TurnIs DEF Gets
  <2> QED BY <1>1, <2>1, <2>2
<1>9. ASSUME NEW i \in DOMAIN events
      PROVE  events[i] \in Range(rest) \/ \E r \in Reader : Gets(r, E) /\ Turn(r) = i
  <2>1. CASE i <= W
    <3>1. i \in DOMAIN waiters /\ waiters[i] \in Reader
      BY <1>1, <2>1 DEF LiveInv, Shapes
    <3>2. Turn(waiters[i]) = i /\ i <= E
      BY <1>1, <3>1, TurnIs
    <3>3. Gets(waiters[i], E)
      BY <3>1, <3>2 DEF Gets, Range
    <3> QED BY <3>1, <3>2, <3>3
  <2>2. CASE i > W
    <3>1. DOMAIN rest = 1..Len(rest)
      BY <1>2, Bills!SeqLen
    <3> HIDE DEF rest
    <3>2. i - W \in DOMAIN rest /\ i - W \in 1..(E - W) /\ W + (i - W) = i
      BY <1>1, <1>2, <2>2, <3>1
    <3> QED BY <1>2, <3>2 DEF Range
  <2> QED BY <1>1, <2>1, <2>2
<1> HIDE DEF rest
<1>10. Held' = Range(queue') \cup UNION {Range(Seen(r)') : r \in Reader}
  BY DEF Held
<1>11. ASSUME NEW x \in Held' PROVE x \in Held \cup Range(events)
  <2>1. CASE x \in Range(queue')
    BY <1>3, <1>7, <2>1 DEF Held, Range
  <2>2. CASE x \notin Range(queue')
    <3>1. PICK r \in Reader : x \in Range(Seen(r)')
      BY <1>10, <1>11, <2>2
    <3>2. x \in Range(Seen(r)) \/ (Gets(r, E) /\ x = events[Turn(r)])
      BY <1>6, <3>1
    <3> QED BY <1>8, <3>2 DEF Held
  <2> QED BY <2>1, <2>2
<1>12. ASSUME NEW x \in Held PROVE x \in Held'
  BY <1>3, <1>6, <1>10, <1>12 DEF Held
<1>13. ASSUME NEW i \in DOMAIN events PROVE events[i] \in Held'
  <2>1. CASE events[i] \in Range(rest)
    BY <1>3, <1>10, <2>1
  <2>2. ASSUME NEW r \in Reader, Gets(r, E), Turn(r) = i PROVE events[i] \in Held'
    BY <1>6, <1>10, <2>2
  <2> QED BY <1>9, <2>1, <2>2
<1> QED BY <1>11, <1>12, <1>13 DEF Range

(* What one callback says, and the end of the session. *)
LEMMA ProceedKeeps ==
  ASSUME LiveInv, ~closed, NEW STATE events, NEW STATE ends, NEW error, ends \in BOOLEAN,
         Bills!ASeq(events), \A i \in DOMAIN events : events[i].n = accepted + i,
         Proceed(events, ends, error), accepted' = accepted + Len(events)
  PROVE  LiveInv' /\ Held' = Held \cup Range(events)
<1>1. Give(events, ends) /\ closed' = ends
  BY DEF Proceed
<1>2. closing' = IF ends /\ closing = "pending" THEN IF error THEN "rejected" ELSE "resolved"
                 ELSE closing
  BY DEF Proceed
<1>3. ends => closing' # "pending"
  BY <1>2
<1> QED BY <1>1, <1>3, GiveKeeps, GiveHolds

(* A step that no reader notices. *)
LEMMA QuietKeeps ==
  ASSUME LiveInv, UNCHANGED <<closed, queue, waiters, readers, accepted>>,
         closed => closing' = closing \/ closing' # "pending"
  PROVE  Keeps
<1> UNCHANGED <<closed, queue, waiters, view, raw, accepted>>
  BY DEF readers
<1>1. Shapes'
  BY DEF LiveInv, Shapes, ViewShape, RawShape
<1>2. Waiting'
  BY DEF LiveInv, Waiting, Busy
<1>3. Ended'
  BY DEF LiveInv, Ended, Over
<1>4. Read' = Read /\ AllSeen' = AllSeen
  BY DEF Read, AllSeen, Seen
<1>5. Kept'
  BY <1>4 DEF LiveInv, Kept
<1>6. Held' = Held
  BY DEF Held, Seen
<1> QED BY <1>1, <1>2, <1>3, <1>5, <1>6 DEF LiveInv, Keeps

(* The end of the session; a second one changes nothing. *)
LEMMA FinishKeeps ==
  ASSUME LiveInv, NEW error, Finish(error), accepted' = accepted
  PROVE  Keeps
<1>1. CASE closed
  BY <1>1, QuietKeeps DEF Finish, Proceed, session
<1>2. CASE ~closed
  <2>1. /\ Bills!ASeq(<<>>) /\ DOMAIN <<>> = {} /\ accepted' = accepted + Len(<<>>)
    BY Bills!EmptyIsASeq DEF LiveInv, Shapes
  <2>2. Proceed(<<>>, TRUE, error)
    BY DEF Finish
  <2>3. \A i \in DOMAIN <<>> : <<>>[i].n = accepted + i
    BY <2>1
  <2> DEFINE none == <<>>
             over == TRUE
  <2>4. /\ over \in BOOLEAN /\ Bills!ASeq(none) /\ accepted' = accepted + Len(none)
        /\ \A i \in DOMAIN none : none[i].n = accepted + i
        /\ Proceed(none, over, error) /\ Range(none) = {}
    BY <2>1, <2>2, <2>3 DEF Range
  <2> HIDE DEF none, over
  <2> QED BY <1>2, <2>4, ProceedKeeps DEF Keeps
<1> QED BY <1>1, <1>2

(* A failure is an end. *)
LEMMA FailKeeps ==
  ASSUME LiveInv, Fail, accepted' = accepted
  PROVE  Keeps
BY FinishKeeps DEF Fail

-----------------------------------------------------------------------------
(* A step of one reader. *)
ReadersShape ==
  /\ view = [v \in Views |-> view[v]]
  /\ \A v \in Views : ViewShape(view[v])
  /\ RawShape(raw)

Others(r) ==
  \A q \in Reader \ {r} :
    Seen(q)' = Seen(q) /\ (Busy(q)' <=> Busy(q)) /\ (Over(q)' <=> Over(q))

(* A step of one view leaves the other readers alone. *)
LEMMA OneView ==
  ASSUME LiveInv, NEW v \in Views, NEW STATE d, ViewShape(d),
         view' = [view EXCEPT ![v] = d], raw' = raw
  PROVE  /\ ReadersShape' /\ Others(v) /\ v \in Reader
         /\ Seen(v)' = Shown(d)
         /\ Busy(v)' <=> d.reading # "none"
         /\ Over(v)' <=> d.failure = "session"
<1>1. view = [w \in Views |-> view[w]] /\ \A w \in Views : ViewShape(view[w]) /\ w # "raw"
  BY ReadersAssumption DEF LiveInv, Shapes
<1>2. /\ view' = [w \in Views |-> view'[w]] /\ view'[v] = d
      /\ \A w \in Views \ {v} : view'[w] = view[w]
  BY <1>1
<1>3. ReadersShape'
  BY <1>1, <1>2 DEF LiveInv, Shapes, ReadersShape, RawShape
<1>4. Others(v)
  BY <1>2 DEF Others, Reader, Seen, Busy, Over
<1>5. Seen(v)' = Shown(view'[v])
  BY <1>1 DEF Seen, Shown
<1>6. (Busy(v)' <=> view'[v].reading # "none") /\ (Over(v)' <=> view'[v].failure = "session")
  BY <1>1 DEF Busy, Over
<1> QED BY <1>2, <1>3, <1>4, <1>5, <1>6 DEF Reader

(* So does a step of the session's reader. *)
LEMMA OneRaw ==
  ASSUME LiveInv, RawShape(raw)', view' = view
  PROVE  ReadersShape' /\ Others("raw") /\ "raw" \in Reader
<1>1. ReadersShape'
  BY DEF LiveInv, Shapes, ReadersShape, ViewShape
<1>2. Others("raw")
  BY DEF Others, Seen, Busy, Over
<1> QED BY <1>1, <1>2 DEF Reader

(* A reader takes the first of the queue. *)
LEMMA HeadKeeps ==
  ASSUME LiveInv, NEW r \in Reader, ReadersShape', Others(r), queue # <<>>,
         Seen(r)' = Append(Seen(r), Head(queue)), ~Over(r)',
         queue' = Tail(queue), UNCHANGED <<waiters, closed, closing, accepted>>
  PROVE  Keeps
<1>1. /\ waiters = <<>> /\ Bills!ASeq(queue) /\ accepted \in Nat /\ Read \in Nat
      /\ \A i \in DOMAIN queue : queue[i].n = Read + i
  BY DEF LiveInv, Shapes, Waiting, Kept
<1>2. /\ Bills!ASeq(queue') /\ Len(queue') = Len(queue) - 1 /\ Len(queue) \in Nat \ {0}
      /\ Head(queue) = queue[1] /\ DOMAIN queue = 1..Len(queue)
      /\ DOMAIN queue' = 1..(Len(queue) - 1)
      /\ \A i \in 1..Len(queue') : queue'[i] = queue[i + 1]
  <2>1. /\ Bills!ASeq(Tail(queue)) /\ Len(Tail(queue)) = Len(queue) - 1
        /\ Len(queue) \in Nat \ {0} /\ Head(queue) = queue[1]
        /\ \A i \in 1..Len(Tail(queue)) : Tail(queue)[i] = queue[i + 1]
    BY <1>1, Bills!Rest
  <2> QED BY <1>1, <2>1, Bills!SeqLen
<1>3. Read' = Read + 1 /\ Head(queue).n = Read + 1
  <2>1. Read' = accepted - (Len(queue) - 1) /\ Read = accepted - Len(queue)
    BY <1>2 DEF Read
  <2>2. 1 \in DOMAIN queue
    BY <1>2
  <2>3. Head(queue).n = Read + 1
    BY <1>1, <1>2, <2>2
  <2> QED BY <1>1, <1>2, <2>1, <2>3
<1>4. \A i \in DOMAIN queue' : queue'[i].n = Read' + i
  <2> SUFFICES ASSUME NEW i \in DOMAIN queue' PROVE queue'[i].n = Read' + i
    OBVIOUS
  <2>1. i \in 1..Len(queue') /\ i + 1 \in DOMAIN queue
    BY <1>2
  <2>2. queue'[i].n = Read + (i + 1)
    BY <1>1, <1>2, <2>1
  <2> QED BY <1>1, <1>2, <1>3, <2>1, <2>2
<1>5. Dealt(AllSeen', Reader, Read')
  <2> DEFINE e == [q \in {r} |-> Head(queue)]
  <2>1. PICK t : t = AllSeen'
    OBVIOUS
  <2>2. \A q \in Reader : t[q] = Seen(q)' /\ AllSeen[q] = Seen(q)
    BY <2>1 DEF AllSeen
  <2>3. \A q \in Reader \ {r} : t[q] = AllSeen[q]
    BY <2>2 DEF Others
  <2>4. e[r].n = Read + 1 /\ t[r] = Append(AllSeen[r], e[r])
    BY <1>3, <2>2
  <2> HIDE DEF e
  <2>5. \A n \in (Read + 1)..(Read + 1) : n = Read + 1
    BY <1>1
  <2>6. Read + 1 \in (Read + 1)..(Read + 1) /\ Read \in Nat /\ 1 \in Nat
    BY <1>1
  <2>7. Dealt(AllSeen, Reader, Read)
    BY DEF LiveInv, Kept
  <2>8. Dealing(AllSeen, t, Reader, Read, 1, {r}, e)
    BY <2>3, <2>4, <2>5, <2>6, <2>7, Zenon DEF Dealing
  <2>9. Dealt(t, Reader, Read + 1)
    BY <2>8, Deal
  <2> QED BY <1>3, <2>1, <2>9
<1>6. Kept'
  BY <1>1, <1>3, <1>4, <1>5 DEF Kept
<1>7. Shapes'
  BY <1>1, <1>2 DEF LiveInv, Shapes, ReadersShape
<1>8. Waiting'
  BY <1>1 DEF LiveInv, Waiting
<1>9. Ended'
  <2>1. \A q \in Reader : ~Over(q)
    BY DEF LiveInv, Ended
  <2> QED BY <2>1 DEF Ended, Others
<1>10. Held' = Held
  <2>1. Range(queue) = {Head(queue)} \cup Range(queue')
    <3>1. \A i \in DOMAIN queue : i = 1 \/ (i - 1 \in DOMAIN queue' /\ queue'[i - 1] = queue[i])
      BY <1>2
    <3>2. \A i \in DOMAIN queue' : i + 1 \in DOMAIN queue /\ queue'[i] = queue[i + 1]
      BY <1>2
    <3>3. 1 \in DOMAIN queue
      BY <1>2
    <3>4. \A i \in DOMAIN queue : queue[i] \in {Head(queue)} \cup Range(queue')
      BY <1>2, <3>1 DEF Range
    <3>5. Head(queue) \in Range(queue) /\ \A i \in DOMAIN queue' : queue'[i] \in Range(queue)
      BY <1>2, <3>2, <3>3 DEF Range
    <3> QED BY <3>4, <3>5 DEF Range
  <2>2. Range(Seen(r)') = Range(Seen(r)) \cup {Head(queue)}
    <3>1. Bills!ASeq(Seen(r))
      BY DEF LiveInv, Kept, Dealt, AllSeen
    <3> QED BY <3>1, HeldByMore
  <2>3. \A q \in Reader \ {r} : Seen(q)' = Seen(q)
    BY DEF Others
  <2>4. Held' = Range(queue') \cup UNION {Range(Seen(q)') : q \in Reader}
    BY DEF Held
  <2> QED BY <2>1, <2>2, <2>3, <2>4 DEF Held
<1> QED BY <1>6, <1>7, <1>8, <1>9, <1>10 DEF LiveInv, Keeps

(* A reader takes nothing. *)
LEMMA NothingKeeps ==
  ASSUME LiveInv, NEW r \in Reader, ReadersShape', Others(r), Seen(r)' = Seen(r),
         Over(r)' => Over(r) \/ (closed /\ queue = <<>>),
         UNCHANGED <<queue, closed, closing, accepted>>, Waiting',
         Bills!ASeq(waiters)', \A i \in DOMAIN waiters' : waiters'[i] \in Reader
  PROVE  Keeps
<1>1. Read' = Read
  BY DEF Read
<1>2. AllSeen' = AllSeen
  <2>1. \A q \in Reader : Seen(q)' = Seen(q)
    BY DEF Others
  <2> QED BY <2>1 DEF AllSeen
<1>3. Kept'
  BY <1>1, <1>2 DEF LiveInv, Kept
<1>4. Shapes'
  BY DEF LiveInv, Shapes, ReadersShape
<1>5. Ended'
  <2> SUFFICES ASSUME NEW q \in Reader, Over(q)' PROVE closed' /\ queue' = <<>>
    BY DEF Ended
  <2>1. CASE q = r
    BY <2>1 DEF LiveInv, Ended
  <2>2. CASE q # r
    BY <2>2 DEF LiveInv, Ended, Others
  <2> QED BY <2>1, <2>2
<1>6. Held' = Held
  <2>1. \A q \in Reader : Seen(q)' = Seen(q)
    BY DEF Others
  <2> QED BY <2>1 DEF Held
<1> QED BY <1>3, <1>4, <1>5, <1>6 DEF LiveInv, Keeps

(* Those who waited still do. *)
LEMMA StillWaiting ==
  ASSUME LiveInv, NEW r \in Reader, Others(r), Busy(r) => Busy(r)',
         UNCHANGED <<queue, waiters, closed, closing>>
  PROVE  Waiting' /\ Bills!ASeq(waiters)' /\ \A i \in DOMAIN waiters' : waiters'[i] \in Reader
<1>1. \A q \in Reader : Busy(q) => Busy(q)'
  BY DEF Others
<1> QED BY <1>1 DEF LiveInv, Waiting, Shapes

(* A reader joins those who wait, of a session that is open and has        *)
(* nothing for it.                                                         *)
LEMMA NowWaiting ==
  ASSUME LiveInv, NEW r \in Reader, Others(r), ~Busy(r), Busy(r)', queue = <<>>, ~closed,
         UNCHANGED <<queue, closed>>, waiters' = Append(waiters, r)
  PROVE  Waiting' /\ Bills!ASeq(waiters)' /\ \A i \in DOMAIN waiters' : waiters'[i] \in Reader
<1> DEFINE W == Len(waiters)
<1>1. /\ Bills!ASeq(waiters') /\ W \in Nat /\ DOMAIN waiters = 1..W /\ DOMAIN waiters' = 1..(W + 1)
      /\ \A i \in 1..W : waiters'[i] = waiters[i]
      /\ waiters'[W + 1] = r
  <2>1. Bills!ASeq(waiters)
    BY DEF LiveInv, Shapes
  <2>2. /\ Bills!ASeq(Append(waiters, r)) /\ Len(Append(waiters, r)) = W + 1
        /\ \A i \in 1..W : Append(waiters, r)[i] = waiters[i]
        /\ Append(waiters, r)[W + 1] = r
    BY <2>1, Bills!Appended
  <2> QED BY <2>1, <2>2, Bills!SeqLen
<1> HIDE DEF W
<1>2. \A i \in 1..W : waiters[i] # r /\ waiters[i] \in Reader
  BY <1>1 DEF LiveInv, Waiting, Shapes
<1>3. \A i \in DOMAIN waiters' : i \in 1..W \/ i = W + 1
  BY <1>1
<1>4. ASSUME NEW i \in DOMAIN waiters', NEW j \in DOMAIN waiters', waiters'[i] = waiters'[j]
      PROVE  i = j
  BY <1>1, <1>2, <1>3, <1>4 DEF LiveInv, Waiting
<1>5. \A i \in DOMAIN waiters' : waiters'[i] \in Reader
  BY <1>1, <1>2, <1>3
<1>6. ASSUME NEW q \in Reader, NEW i \in DOMAIN waiters', waiters'[i] = q PROVE Busy(q)'
  <2>1. CASE q = r
    BY <2>1
  <2>2. CASE q # r
    <3>1. i \in DOMAIN waiters /\ waiters[i] = q
      BY <1>1, <1>3, <1>6, <2>2
    <3> QED BY <2>2, <3>1 DEF LiveInv, Waiting, Others
  <2> QED BY <2>1, <2>2
<1>7. Waiting'
  BY <1>4, <1>6 DEF Waiting
<1> QED BY <1>1, <1>5, <1>7

-----------------------------------------------------------------------------
(* recv() keeps the invariant. *)
LEMMA ReadRawKeeps ==
  ASSUME LiveInv, ReadRaw
  PROVE  Keeps
<1>1. /\ view' = view /\ ~raw.reading /\ ~raw.ended /\ RawShape(raw) /\ "raw" \in Reader
      /\ UNCHANGED <<closed, closing, accepted>>
  BY DEF ReadRaw, LiveInv, Shapes, Reader, server
<1>2. /\ Seen("raw") = raw.events /\ Seen("raw")' = raw'.events
      /\ Busy("raw") = raw.reading /\ Busy("raw")' = raw'.reading
      /\ Over("raw") = raw.ended /\ Over("raw")' = raw'.ended
  BY DEF Seen, Busy, Over
<1>3. CASE queue # <<>> /\ raw' = TakenRaw(Head(queue)) /\ queue' = Tail(queue) /\ UNCHANGED waiters
  <2>1. RawShape(raw') /\ raw'.events = Append(raw.events, Head(queue)) /\ ~raw'.ended
    BY <1>1, <1>3, TakenRawShape
  <2>2. ReadersShape' /\ Others("raw")
    BY <1>1, <2>1, OneRaw
  <2> QED BY <1>1, <1>2, <1>3, <2>1, <2>2, HeadKeeps
<1>4. CASE queue = <<>> /\ closed /\ raw' = EndedRaw /\ UNCHANGED <<queue, waiters>>
  <2>1. RawShape(raw') /\ raw'.events = raw.events
    BY <1>1, <1>4, EndedRawShape
  <2>2. ReadersShape' /\ Others("raw")
    BY <1>1, <2>1, OneRaw
  <2>3. Waiting' /\ Bills!ASeq(waiters)' /\ \A i \in DOMAIN waiters' : waiters'[i] \in Reader
    BY <1>1, <1>2, <1>4, <2>2, StillWaiting
  <2> QED BY <1>1, <1>2, <1>4, <2>1, <2>2, <2>3, NothingKeeps
<1>5. CASE /\ queue = <<>> /\ ~closed /\ raw' = [raw EXCEPT !.reading = TRUE]
           /\ waiters' = Append(waiters, "raw") /\ UNCHANGED queue
  <2>1. /\ DOMAIN raw' = DOMAIN raw /\ raw'.events = raw.events /\ raw'.reading = TRUE
        /\ raw'.ended = raw.ended
    BY <1>1, <1>5 DEF RawShape
  <2>2. RawShape(raw')
    BY <1>1, <2>1 DEF RawShape
  <2>3. ReadersShape' /\ Others("raw")
    BY <1>1, <2>2, OneRaw
  <2>4. Waiting' /\ Bills!ASeq(waiters)' /\ \A i \in DOMAIN waiters' : waiters'[i] \in Reader
    BY <1>1, <1>2, <1>5, <2>1, <2>3, NowWaiting
  <2> QED BY <1>1, <1>2, <1>5, <2>1, <2>3, <2>4, NothingKeeps
<1> QED BY <1>3, <1>4, <1>5 DEF ReadRaw

(* What a view's step starts from is the view, but for its result. *)
Like(c, v) ==
  /\ ViewShape(c) /\ Shown(c) = Shown(view[v])
  /\ c.reading = view[v].reading /\ c.failure = view[v].failure

(* So does TurnView.next, whichever of its ends it comes to. *)
LEMMA TakeKeeps ==
  ASSUME LiveInv, NEW v \in Views, NEW STATE c, Like(c, v), Ready(c),
         NEW who, who # "none", Take(v, c, who), Reads
  PROVE  Keeps
<1>1. /\ raw' = raw /\ v \in Reader /\ ViewShape(c) /\ c.failure = Null /\ c.reading = "none"
      /\ UNCHANGED <<closed, closing, accepted>>
  BY DEF Take, Reads, Reader, Like, Ready, server
<1>2. /\ Seen(v) = Shown(c) /\ ~Busy(v) /\ ~Over(v)
  <2>1. v # "raw"
    BY ReadersAssumption
  <2> QED BY <1>1, <2>1, FailuresAssumption DEF Seen, Busy, Over, Shown, Like
<1>3. CASE Full(c)
  <2> DEFINE d == [c EXCEPT !.done = TRUE, !.failure = "max_events"]
  <2>1. view' = [view EXCEPT ![v] = d] /\ UNCHANGED <<queue, waiters>>
    BY <1>3 DEF Take
  <2>2. /\ DOMAIN d = DOMAIN c /\ d.events = c.events /\ d.rejected = c.rejected
        /\ d.reading = "none" /\ d.failure = "max_events"
    BY <1>1, Fields DEF ViewShape
  <2> HIDE DEF d
  <2>3. ViewShape(d) /\ Shown(d) = Shown(c) /\ d.failure # "session"
    BY <1>1, <2>2, FailuresAssumption DEF ViewShape, Shown
  <2>4. ReadersShape' /\ Others(v) /\ Seen(v)' = Shown(d) /\ (Over(v)' <=> d.failure = "session")
    BY <1>1, <2>1, <2>3, OneView
  <2>5. Waiting' /\ Bills!ASeq(waiters)' /\ \A i \in DOMAIN waiters' : waiters'[i] \in Reader
    BY <1>1, <1>2, <2>1, <2>4, StillWaiting
  <2> QED BY <1>1, <1>2, <2>1, <2>3, <2>4, <2>5, NothingKeeps
<1>4. CASE ~Full(c) /\ queue # <<>> /\ view' = [view EXCEPT ![v] = Collected(c, Head(queue))]
           /\ queue' = Tail(queue) /\ UNCHANGED waiters
  <2> DEFINE d == Collected(c, Head(queue))
  <2>1. ViewShape(d) /\ Shown(d) = Append(Shown(c), Head(queue)) /\ d.failure # "session"
    BY <1>1, CollectedShape
  <2>2. view' = [view EXCEPT ![v] = d]
    BY <1>4
  <2> HIDE DEF d
  <2>3. ReadersShape' /\ Others(v) /\ Seen(v)' = Shown(d) /\ (Over(v)' <=> d.failure = "session")
    BY <1>1, <2>1, <2>2, OneView
  <2> QED BY <1>1, <1>2, <1>4, <2>1, <2>3, HeadKeeps
<1>5. CASE ~Full(c) /\ queue = <<>> /\ closed /\ view' = [view EXCEPT ![v] = Stopped(c)]
           /\ UNCHANGED <<queue, waiters>>
  <2> DEFINE d == Stopped(c)
  <2>1. ViewShape(d) /\ Shown(d) = Shown(c)
    BY <1>1, StoppedShape
  <2>2. view' = [view EXCEPT ![v] = d]
    BY <1>5
  <2> HIDE DEF d
  <2>3. ReadersShape' /\ Others(v) /\ Seen(v)' = Shown(d)
    BY <1>1, <2>1, <2>2, OneView
  <2>4. Waiting' /\ Bills!ASeq(waiters)' /\ \A i \in DOMAIN waiters' : waiters'[i] \in Reader
    BY <1>1, <1>2, <1>5, <2>3, StillWaiting
  <2> QED BY <1>1, <1>2, <1>5, <2>1, <2>3, <2>4, NothingKeeps
<1>6. CASE ~Full(c) /\ queue = <<>> /\ ~closed /\ view' = [view EXCEPT ![v] = [c EXCEPT !.reading = who]]
           /\ waiters' = Append(waiters, v) /\ UNCHANGED queue
  <2> DEFINE d == [c EXCEPT !.reading = who]
  <2>1. view' = [view EXCEPT ![v] = d]
    BY <1>6
  <2>2. /\ DOMAIN d = DOMAIN c /\ d.events = c.events /\ d.rejected = c.rejected
        /\ d.reading = who /\ d.failure = c.failure
    BY <1>1, Fields DEF ViewShape
  <2> HIDE DEF d
  <2>3. ViewShape(d) /\ Shown(d) = Shown(c) /\ d.failure # "session"
    BY <1>1, <2>2, FailuresAssumption DEF ViewShape, Shown
  <2>4. /\ ReadersShape' /\ Others(v) /\ Seen(v)' = Shown(d) /\ (Over(v)' <=> d.failure = "session")
        /\ Busy(v)' <=> d.reading # "none"
    BY <1>1, <2>1, <2>3, OneView
  <2>5. Waiting' /\ Bills!ASeq(waiters)' /\ \A i \in DOMAIN waiters' : waiters'[i] \in Reader
    BY <1>1, <1>2, <1>6, <2>2, <2>4, NowWaiting
  <2> QED BY <1>1, <1>2, <1>6, <2>3, <2>4, <2>5, NothingKeeps
<1> QED BY <1>3, <1>4, <1>5, <1>6 DEF Take

(* A view that takes nothing. *)
LEMMA MarkKeeps ==
  ASSUME LiveInv, NEW v \in Views, NEW STATE d, Like(d, v), view' = [view EXCEPT ![v] = d],
         UNCHANGED <<raw, queue, waiters, closed, closing, accepted>>
  PROVE  Keeps
<1>1. ViewShape(d) /\ Shown(d) = Seen(v) /\ (Busy(v) <=> d.reading # "none")
      /\ (Over(v) <=> d.failure = "session")
  <2>1. v # "raw"
    BY ReadersAssumption
  <2> QED BY <2>1 DEF Like, Seen, Shown, Busy, Over
<1>2. /\ ReadersShape' /\ Others(v) /\ v \in Reader /\ Seen(v)' = Shown(d)
      /\ (Busy(v)' <=> d.reading # "none") /\ (Over(v)' <=> d.failure = "session")
  <2>1. raw' = raw /\ ViewShape(d) /\ view' = [view EXCEPT ![v] = d]
    BY <1>1
  <2> QED BY <2>1, OneView
<1>3. Waiting' /\ Bills!ASeq(waiters)' /\ \A i \in DOMAIN waiters' : waiters'[i] \in Reader
  BY <1>1, <1>2, StillWaiting
<1> QED BY <1>1, <1>2, <1>3, NothingKeeps

(* A step of result(): it settles, is refused, or takes an event. *)
LEMMA ResultStepKeeps ==
  ASSUME LiveInv, NEW v \in Views, NEW STATE c, Like(c, v), ResultStep(v, c), Reads
  PROVE  Keeps
<1>1. UNCHANGED <<closed, closing, accepted>> /\ ViewShape(c) /\ ViewShape(view[v])
  BY DEF Reads, server, Like, LiveInv, Shapes
<1>2. CASE view' = [view EXCEPT ![v] = Settle(c)] /\ UNCHANGED <<queue, waiters, raw>>
  <2> DEFINE d == Settle(c)
  <2>1. Like(d, v)
    BY <1>1, SettledShape DEF Like
  <2>2. view' = [view EXCEPT ![v] = d]
    BY <1>2
  <2> HIDE DEF d
  <2> QED BY <1>1, <1>2, <2>1, <2>2, MarkKeeps
<1>3. CASE view' = [view EXCEPT ![v].result = "threw"] /\ UNCHANGED <<queue, waiters, raw>>
  <2> DEFINE b == view[v]
             d == [b EXCEPT !.result = "threw"]
  <2>1. view' = [view EXCEPT ![v] = d]
    BY <1>3
  <2>2. /\ DOMAIN d = DOMAIN b /\ d.events = b.events /\ d.rejected = b.rejected
        /\ d.reading = b.reading /\ d.failure = b.failure
    BY <1>1, Fields DEF ViewShape
  <2> HIDE DEF d
  <2>3. Like(d, v)
    BY <1>1, <2>2 DEF Like, ViewShape, Shown
  <2> QED BY <1>1, <1>3, <2>1, <2>3, MarkKeeps
<1>4. CASE Ready(c) /\ Take(v, c, "result")
  BY <1>4, TakeKeeps
<1> QED BY <1>2, <1>3, <1>4 DEF ResultStep

(* Every step of a view. *)
LEMMA ReadingKeeps ==
  ASSUME LiveInv, NEW v \in Views,
         Iterate(v) \/ Result(v) \/ ResultGoesOn(v) \/ CloseView(v)
  PROVE  Keeps
<1> DEFINE b == view[v]
<1>1. ViewShape(b) /\ Like(b, v)
  BY DEF LiveInv, Shapes, Like
<1>2. ASSUME Iterate(v) PROVE Keeps
  BY <1>1, <1>2, TakeKeeps DEF Iterate
<1>3. ASSUME Result(v) PROVE Keeps
  <2> DEFINE c == [b EXCEPT !.result = "looping"]
  <2>1. ResultStep(v, c) /\ Reads
    BY <1>3 DEF Result
  <2>2. /\ DOMAIN c = DOMAIN b /\ c.events = b.events /\ c.rejected = b.rejected
        /\ c.reading = b.reading /\ c.failure = b.failure
    BY <1>1, Fields DEF ViewShape
  <2> HIDE DEF c
  <2>3. Like(c, v)
    BY <1>1, <2>2 DEF Like, ViewShape, Shown
  <2> QED BY <2>1, <2>3, ResultStepKeeps
<1>4. ASSUME ResultGoesOn(v) PROVE Keeps
  BY <1>1, <1>4, ResultStepKeeps DEF ResultGoesOn
<1>5. ASSUME CloseView(v) PROVE Keeps
  <2> DEFINE d == [b EXCEPT !.done = TRUE]
  <2>1. view' = [view EXCEPT ![v] = d] /\ UNCHANGED <<raw, queue, waiters, closed, closing, accepted>>
    BY <1>5 DEF CloseView, session, server
  <2>2. /\ DOMAIN d = DOMAIN b /\ d.events = b.events /\ d.rejected = b.rejected
        /\ d.reading = b.reading /\ d.failure = b.failure
    BY <1>1, Fields DEF ViewShape
  <2> HIDE DEF d
  <2>3. Like(d, v)
    BY <1>1, <2>2 DEF Like, ViewShape, Shown
  <2> QED BY <2>1, <2>3, MarkKeeps
<1> QED BY <1>2, <1>3, <1>4, <1>5

-----------------------------------------------------------------------------
(* One event is a sequence of events. *)
LEMMA OneIsASeq ==
  ASSUME NEW e
  PROVE  Bills!ASeq(<<e>>)
<1>1. <<e>> \in Seq({e})
  OBVIOUS
<1> QED BY <1>1, Bills!SeqOfSet

(* One event or none. *)
LEMMA UnlessIsASeq ==
  ASSUME NEW condition, NEW e
  PROVE  Bills!ASeq(Unless(condition, e))
BY OneIsASeq, Bills!EmptyIsASeq DEF Unless

(* What a frame of OpenAI's says is a sequence of events. *)
LEMMA OpenAIDecodes ==
  ASSUME NEW f
  PROVE  Bills!ASeq(DecodeOpenAI(f))
<1>1. Bills!ASeq(ResponseDone(f))
  <2> DEFINE bill == BillOfResponse(f)
             aside == Unless(bill = Null, Billing("usage", bill))
  <2>1. Bills!ASeq(aside) /\ Bills!ASeq(Append(aside, Event("interrupted")))
    BY UnlessIsASeq, Bills!Appended
  <2>2. Bills!ASeq(<<Billing("turn_end", IF bill = Null THEN Unreported ELSE bill)>>)
    BY OneIsASeq
  <2>3. ResponseDone(f) \in {Append(aside, Event("interrupted")), aside,
                            <<Billing("turn_end", IF bill = Null THEN Unreported ELSE bill)>>}
    <3> DEFINE a == Append(aside, Event("interrupted"))
               b == <<Billing("turn_end", IF bill = Null THEN Unreported ELSE bill)>>
    <3>1. ResponseDone(f) = CASE f.status = "cancelled" -> a
                              [] f.status # "cancelled" /\ f.called -> aside
                              [] OTHER -> b
      BY DEF ResponseDone
    <3> HIDE DEF a, b, aside
    <3> QED BY <3>1 DEF a, b
  <2> HIDE DEF bill, aside
  <2> QED BY <2>1, <2>2, <2>3
<1>2. /\ \A c \in BOOLEAN : \A e : Bills!ASeq(Unless(c, e))
      /\ Bills!ASeq(<<Event("interrupted")>>) /\ Bills!ASeq(<<>>)
  BY UnlessIsASeq, OneIsASeq, Bills!EmptyIsASeq
<1> QED BY <1>1, <1>2, UnlessIsASeq DEF DecodeOpenAI

(* What a frame of Gemini's says, of its parts and by itself. *)
LEMMA GeminiDecodes ==
  ASSUME NEW f, f.type = "toolCall" => f.calls \in Nat,
         f.type = "content" => f.parts \in Seq(Range(f.parts))
  PROVE  Bills!ASeq(DecodeGemini(f))
<1>1. ASSUME f.type = "toolCall" PROVE Bills!ASeq([i \in 1..f.calls |-> Event("tool_call")])
  <2>1. f.calls \in Nat
    BY <1>1
  <2> QED BY <2>1, Bills!Tabled
<1>2. ASSUME f.type = "content" PROVE Bills!ASeq(ServerContent(f))
  <2> DEFINE of == [i \in DOMAIN f.parts |-> PartEvents(f.parts[i])]
             a == FlattenSeq(of)
             b == Unless(f.transcript = Null, Carrying("text", f.transcript))
             c == Unless(f.usage = Null \/ f.complete, Billing("usage", LiveUsage(f)))
             d == Unless(~f.interrupted, Event("interrupted"))
             e == Unless(~f.complete, Billing("turn_end", LiveUsage(f)))
  <2>1. Bills!ASeq(f.parts)
    BY <1>2, Bills!SeqOfSet
  <2>2. Bills!ASeq(of) /\ DOMAIN of = DOMAIN f.parts
    <3>1. DOMAIN f.parts = 1..Len(f.parts) /\ Len(f.parts) \in Nat
      BY <2>1, Bills!SeqLen
    <3> QED BY <3>1, Bills!Tabled
  <2>3. ASSUME NEW i \in DOMAIN of PROVE Bills!ASeq(of[i])
    <3>1. of[i] = PartEvents(f.parts[i])
      BY <2>2, <2>3
    <3> HIDE DEF of
    <3> QED BY <3>1, OneIsASeq, Bills!EmptyIsASeq DEF PartEvents
  <2> HIDE DEF of
  <2>4. Bills!ASeq(a)
    <3>1. Bills!ASeq(Bills!FlattenSeq(of))
      BY <2>2, <2>3, Bills!Flattened
    <3>2. FlattenSeq(of) = Bills!FlattenSeq(of)
      BY Zenon DEF FlattenSeq, Bills!FlattenSeq
    <3> QED BY <3>1, <3>2
  <2>5. Bills!ASeq(b) /\ Bills!ASeq(c) /\ Bills!ASeq(d) /\ Bills!ASeq(e)
    BY UnlessIsASeq
  <2>6. ServerContent(f) = a \o b \o c \o d \o e
    BY DEF ServerContent, of
  <2> HIDE DEF a, b, c, d, e
  <2>7. Bills!ASeq(a \o b \o c \o d \o e)
    BY <2>4, <2>5, Bills!Concatenated
  <2> QED BY <2>6, <2>7
<1>3. Bills!ASeq(<<Event("error")>>) /\ Bills!ASeq(<<>>)
  BY OneIsASeq, Bills!EmptyIsASeq
<1> QED BY <1>1, <1>2, <1>3 DEF DecodeGemini

(* What any frame says. *)
LEMMA FrameDecodes ==
  ASSUME NEW d \in Dialects, NEW f \in ServerFrames[d] \cup EndFrames[d]
  PROVE  Bills!ASeq(Decode(d, f))
<1>1. CASE d = "openai"
  BY <1>1, OpenAIDecodes DEF Decode
<1>2. CASE d # "openai"
  <2>1. /\ f.type = "toolCall" => f.calls \in Nat
        /\ f.type = "content" => f.parts \in Seq(Range(f.parts))
    BY <1>2, FramesAssumption
  <2> QED BY <1>2, <2>1, GeminiDecodes DEF Decode
<1> QED BY <1>1, <1>2

(* The events up to one that is refused, numbered from the last accepted. *)
Refused(events) == {i \in DOMAIN events : ~ValidServerEvent(events[i])}
Good(events) == IF Refused(events) = {} THEN events ELSE SubSeq(events, 1, Min(Refused(events)) - 1)

(* The events before the first that is refused. *)
LEMMA GoodIsASeq ==
  ASSUME NEW events, Bills!ASeq(events)
  PROVE  Bills!ASeq(Good(events))
<1>1. Len(events) \in Nat /\ DOMAIN events = 1..Len(events)
  BY Bills!SeqLen
<1>2. CASE Refused(events) = {}
  BY <1>2 DEF Good
<1>3. CASE Refused(events) # {}
  <2> DEFINE m == Min(Refused(events)) - 1
  <2>1. Refused(events) \in SUBSET (1..Len(events))
    BY <1>1 DEF Refused
  <2>2. Bills!Min(Refused(events)) \in Refused(events)
    BY <1>1, <1>3, <2>1, Bills!MinInside
  <2>3. Min(Refused(events)) \in Refused(events)
    BY <2>2, Zenon DEF Min, Bills!Min
  <2>4. m \in Nat /\ m <= Len(events) /\ 1 \in Nat \ {0}
    BY <1>1, <2>1, <2>3
  <2>5. Good(events) = SubSeq(events, 1, m)
    BY <1>3 DEF Good
  <2> HIDE DEF m
  <2> QED BY <2>4, <2>5, Bills!Sliced
<1> QED BY <1>2, <1>3

(* They are numbered from the last that was accepted. *)
LEMMA NumberedIs ==
  ASSUME NEW events, Bills!ASeq(events)
  PROVE  /\ Bills!ASeq(Numbered(events)) /\ Len(Numbered(events)) = Len(events)
         /\ \A i \in DOMAIN Numbered(events) : Numbered(events)[i].n = accepted + i
<1>1. Len(events) \in Nat /\ DOMAIN events = 1..Len(events)
  BY Bills!SeqLen
<1> DEFINE N(i) == [n |-> accepted + i, frame |-> Len(heard) + 1, type |-> events[i].type,
                    content |-> events[i].content, usage |-> events[i].usage]
<1>2. Numbered(events) = [i \in 1..Len(events) |-> N(i)]
  BY <1>1 DEF Numbered
<1>3. ASSUME NEW i \in 1..Len(events) PROVE N(i).n = accepted + i
  OBVIOUS
<1> HIDE DEF N
<1>4. Bills!ASeq(Numbered(events)) /\ Len(Numbered(events)) = Len(events)
  BY <1>1, <1>2, Bills!Tabled
<1> QED BY <1>2, <1>3, <1>4

(* A frame keeps the invariant: what it says is decoded, cut at what is    *)
(* refused, and pushed.                                                    *)
LEMMA MessageKeeps ==
  ASSUME LiveInv, dialect \in Dialects, NEW f \in ServerFrames[dialect] \cup EndFrames[dialect],
         Message(f)
  PROVE  LiveInv' /\ Held' = Held \cup Range(Numbered(Good(Decode(dialect, f))))
<1> DEFINE events == Decode(dialect, f)
           good == Good(events)
           given == Numbered(good)
           ends == \/ Refused(events) # {}
                   \/ /\ opening = "connecting"
                      /\ (IF dialect = "openai" THEN "waiting" ELSE LiveSetupStatus(f)) = "refused"
<1>1. /\ ~closed /\ Proceed(given, ends, TRUE) /\ accepted' = accepted + Len(good)
  BY Zenon DEF Message, Good, Refused
<1>2. Bills!ASeq(good)
  BY FrameDecodes, GoodIsASeq
<1>3. ends \in BOOLEAN
  OBVIOUS
<1> HIDE DEF events, good, ends
<1>4. Bills!ASeq(given) /\ Len(given) = Len(good) /\ \A i \in DOMAIN given : given[i].n = accepted + i
  BY <1>2, NumberedIs
<1> HIDE DEF given
<1>5. accepted' = accepted + Len(given)
  BY <1>1, <1>4
<1>6. LiveInv' /\ Held' = Held \cup Range(given)
  BY <1>1, <1>3, <1>4, <1>5, ProceedKeeps
<1> QED BY <1>6 DEF given, good, events

-----------------------------------------------------------------------------
(* The bills among some events: one, where something was spent.            *)
BillsAmong(s, U) ==
  /\ \A i \in DOMAIN s : IsBill(s[i]) => U = {s[i].usage} /\ s[i].usage \in Counters
  /\ \A i, j \in DOMAIN s : IsBill(s[i]) /\ IsBill(s[j]) => i = j

BillsAre(s, U) == BillsAmong(s, U) /\ (U # {} => \E i \in DOMAIN s : IsBill(s[i]))

(* Events of which none is a bill. *)
LEMMA NoBill ==
  ASSUME NEW s, \A i \in DOMAIN s : ~IsBill(s[i])
  PROVE  BillsAre(s, {})
BY DEF BillsAre, BillsAmong

(* One event. *)
LEMMA OneEvent ==
  ASSUME NEW e
  PROVE  /\ ~IsBill(e) => BillsAre(<<e>>, {})
         /\ IsBill(e) /\ e.usage \in Counters => BillsAre(<<e>>, {e.usage})
<1> DEFINE s == <<e>>
<1>1. DOMAIN s = {1} /\ s[1] = e
  OBVIOUS
<1> HIDE DEF s
<1>2. ~IsBill(e) => BillsAre(s, {})
  BY <1>1 DEF BillsAre, BillsAmong
<1>3. IsBill(e) /\ e.usage \in Counters => BillsAre(s, {e.usage})
  BY <1>1 DEF BillsAre, BillsAmong
<1> QED BY <1>2, <1>3 DEF s

(* None. *)
LEMMA NoEvent == BillsAre(<<>>, {})
BY NoBill

(* Some events after others: only some of them bill. *)
LEMMA BillsOfBoth ==
  ASSUME NEW s, NEW t, NEW U, NEW V, Bills!ASeq(s), Bills!ASeq(t),
         BillsAre(s, U), BillsAre(t, V), U = {} \/ V = {}
  PROVE  BillsAre(s \o t, U \cup V)
<1> DEFINE st == s \o t
<1>1. /\ Len(s) \in Nat /\ DOMAIN s = 1..Len(s) /\ Len(t) \in Nat /\ DOMAIN t = 1..Len(t)
      /\ DOMAIN st = 1..(Len(s) + Len(t))
      /\ \A i \in 1..(Len(s) + Len(t)) : st[i] = IF i <= Len(s) THEN s[i] ELSE t[i - Len(s)]
  BY Bills!Concatenated, Bills!SeqLen
<1> HIDE DEF st
<1>2. ASSUME NEW i \in DOMAIN st
      PROVE  \/ i \in DOMAIN s /\ st[i] = s[i]
             \/ i - Len(s) \in DOMAIN t /\ st[i] = t[i - Len(s)]
  BY <1>1
<1>3. /\ \A i \in DOMAIN s : i \in DOMAIN st /\ st[i] = s[i]
      /\ \A i \in DOMAIN t : Len(s) + i \in DOMAIN st /\ st[Len(s) + i] = t[i]
  BY <1>1
<1>4. CASE U = {}
  <2>1. \A i \in DOMAIN s : ~IsBill(s[i])
    BY <1>4 DEF BillsAre, BillsAmong
  <2>2. \A i \in DOMAIN st : IsBill(st[i]) =>
          i - Len(s) \in DOMAIN t /\ st[i] = t[i - Len(s)] /\ IsBill(t[i - Len(s)])
    BY <1>2, <2>1
  <2>3. ASSUME NEW i \in DOMAIN st, NEW j \in DOMAIN st, IsBill(st[i]), IsBill(st[j])
        PROVE  i = j
    <3>1. i - Len(s) = j - Len(s)
      BY <2>2, <2>3 DEF BillsAre, BillsAmong
    <3> QED BY <1>1, <3>1
  <2>4. \A i \in DOMAIN st : IsBill(st[i]) => V = {st[i].usage} /\ st[i].usage \in Counters
    BY <2>2 DEF BillsAre, BillsAmong
  <2>5. V # {} => \E i \in DOMAIN st : IsBill(st[i])
    BY <1>3 DEF BillsAre
  <2>6. BillsAre(st, V)
    BY <2>3, <2>4, <2>5 DEF BillsAre, BillsAmong
  <2>7. U \cup V = V
    BY <1>4
  <2> QED BY <2>6, <2>7 DEF st
<1>5. CASE V = {}
  <2>1. \A i \in DOMAIN t : ~IsBill(t[i])
    BY <1>5 DEF BillsAre, BillsAmong
  <2>2. \A i \in DOMAIN st : IsBill(st[i]) => i \in DOMAIN s /\ st[i] = s[i] /\ IsBill(s[i])
    BY <1>2, <2>1
  <2>3. ASSUME NEW i \in DOMAIN st, NEW j \in DOMAIN st, IsBill(st[i]), IsBill(st[j])
        PROVE  i = j
    BY <2>2, <2>3 DEF BillsAre, BillsAmong
  <2>4. \A i \in DOMAIN st : IsBill(st[i]) => U = {st[i].usage} /\ st[i].usage \in Counters
    BY <2>2 DEF BillsAre, BillsAmong
  <2>5. U # {} => \E i \in DOMAIN st : IsBill(st[i])
    BY <1>3 DEF BillsAre
  <2>6. BillsAre(st, U)
    BY <2>3, <2>4, <2>5 DEF BillsAre, BillsAmong
  <2>7. U \cup V = U
    BY <1>5
  <2> QED BY <2>6, <2>7 DEF st
<1> QED BY <1>4, <1>5

-----------------------------------------------------------------------------
(* What a provider counts is counters: a part larger than its whole, or a  *)
(* total that does not add up, is withheld, and a total is made.           *)
LEMMA TotalledIs ==
  ASSUME NEW u \in Counters
  PROVE  /\ WithTotal(u) \in Counters
         /\ \A c \in {"input", "output", "reasoning"} : WithTotal(u)[c] = u[c]
<1>1. CASE u.total = Null /\ Null \notin {u.input, u.output}
  <2>1. u.input + u.output \in Count
    BY <1>1 DEF Counters, Count
  <2>2. WithTotal(u) = [u EXCEPT !.total = u.input + u.output]
    BY <1>1 DEF WithTotal
  <2> QED BY <2>1, <2>2 DEF Counters
<1>2. CASE ~(u.total = Null /\ Null \notin {u.input, u.output})
  BY <1>2 DEF WithTotal
<1> QED BY <1>1, <1>2

LEMMA SettledIs ==
  ASSUME NEW u \in Counters
  PROVE  SettleUsage(u) \in Counters
<1> DEFINE in == IF InputConsistent(u) THEN u.input ELSE Null
           out == IF OutputConsistent(u) THEN u.output ELSE Null
           parts == [u EXCEPT !.input = in, !.output = out]
           bare == [parts EXCEPT !.input = Null, !.output = Null]
           kept == IF TotalConsistent(parts) THEN parts ELSE bare
<1>1. in \in Count /\ out \in Count /\ Null \in Count
  BY DEF Counters, Count
<1>2. SettleUsage(u) = WithTotal(kept)
  BY DEF SettleUsage
<1> HIDE DEF in, out
<1>3. parts \in Counters
  BY <1>1 DEF Counters
<1> HIDE DEF parts
<1>4. bare \in Counters
  BY <1>1, <1>3 DEF Counters
<1> HIDE DEF bare
<1>5. kept \in Counters
  BY <1>3, <1>4
<1> HIDE DEF kept
<1> QED BY <1>2, <1>5, TotalledIs

LEMMA UnreportedIs == Unreported \in Counters
BY DEF Unreported, Counters, Count

LEMMA MetadataAre ==
  ASSUME NEW w \in Metadata
  PROVE  GeminiUsage(w) \in Counters
<1> DEFINE input == Or0(w.prompt) + Or0(w.toolUse)
           output == Or0(w.answer) + Or0(w.thoughts)
           u == [Unreported EXCEPT !.input = input, !.output = output,
                   !.total = w.total, !.cacheRead = Or0(w.cached), !.reasoning = Or0(w.thoughts),
                   !.inputAudio = w.inputAudio, !.outputAudio = w.outputAudio]
<1>1. GeminiUsage(w) = SettleUsage(u)
  BY DEF GeminiUsage
<1>2. /\ w.prompt \in Count /\ w.toolUse \in Count /\ w.answer \in Count
      /\ w.thoughts \in Count /\ w.total \in Count /\ w.cached \in Count
      /\ w.inputAudio \in Count /\ w.outputAudio \in Count
  BY DEF Metadata
<1>3. \A c \in Count : Or0(c) \in Nat
  BY DEF Count, Or0
<1>4. /\ Or0(w.prompt) \in Nat /\ Or0(w.toolUse) \in Nat /\ Or0(w.answer) \in Nat
      /\ Or0(w.thoughts) \in Nat /\ Or0(w.cached) \in Nat
  BY <1>2, <1>3
<1>5. input \in Count /\ output \in Count /\ Or0(w.cached) \in Count /\ Or0(w.thoughts) \in Count
      /\ Null \in Count
  BY <1>4 DEF Count
<1> HIDE DEF input, output
<1>6. u \in Counters
  BY <1>2, <1>5 DEF Unreported, Counters
<1> HIDE DEF u
<1> QED BY <1>1, <1>6, SettledIs

-----------------------------------------------------------------------------
(* OpenAI bills with response.done. *)
LEMMA OpenAIBills ==
  ASSUME NEW f, f.type = "done" => f.usage \in Counters \cup {Null}
  PROVE  BillsAre(DecodeOpenAI(f), Spent("openai", f))
<1>1. /\ \A x : ~IsBill(Carrying("text", x)) /\ ~IsBill(Carrying("audio", x))
      /\ ~IsBill(Event("tool_call_delta")) /\ ~IsBill(Event("tool_call"))
      /\ ~IsBill(Event("interrupted")) /\ ~IsBill(Event("error"))
      /\ \A u : /\ IsBill(Billing("usage", u)) /\ Billing("usage", u).usage = u
                /\ IsBill(Billing("turn_end", u)) /\ Billing("turn_end", u).usage = u
  BY DEF IsBill, Carrying, Billing, Event
<1>2. ASSUME f.type # "done" PROVE BillsAre(DecodeOpenAI(f), {})
  <2>1. \A c \in BOOLEAN : \A e : ~IsBill(e) => BillsAre(Unless(c, e), {})
    BY OneEvent, NoEvent DEF Unless
  <2> HIDE DEF BillsAre
  <2>2. /\ BillsAre(Unless(f.delta = Null, Carrying("text", f.delta)), {})
        /\ BillsAre(Unless(f.delta = Null, Carrying("audio", f.delta)), {})
        /\ BillsAre(Unless(f.delta = Null, Event("tool_call_delta")), {})
        /\ BillsAre(Unless(~f.call, Event("tool_call")), {})
        /\ BillsAre(Unless(f.code = "response_cancel_not_active", Event("error")), {})
        /\ BillsAre(<<Event("interrupted")>>, {}) /\ BillsAre(<<>>, {})
    BY <1>1, OneEvent, NoEvent DEF Unless
  <2> QED BY <1>2, <2>2 DEF DecodeOpenAI
<1>3. ASSUME f.type = "done" PROVE BillsAre(ResponseDone(f), Spent("openai", f))
  <2> DEFINE bill == BillOfResponse(f)
             aside == Unless(bill = Null, Billing("usage", bill))
             both == Append(aside, Event("interrupted"))
             ended == <<Billing("turn_end", IF bill = Null THEN Unreported ELSE bill)>>
  <2>1. /\ f.usage = Null => bill = Null
        /\ f.usage # Null => bill = UsageFromResponses(f.usage) /\ bill \in Counters /\ bill # Null
    <3>1. f.usage # Null => bill = UsageFromResponses(f.usage) /\ bill \in Counters
      BY <1>3, SettledIs DEF BillOfResponse, UsageFromResponses
    <3> HIDE DEF bill
    <3>2. bill \in Counters => bill # Null
      BY UsageAssumption
    <3>3. f.usage = Null => bill = Null
      BY DEF BillOfResponse, bill
    <3> QED BY <3>1, <3>2, <3>3
  <2> DEFINE U == IF f.usage # Null THEN {bill} ELSE {}
  <2>2. BillsAre(aside, U)
    <3>1. CASE f.usage = Null
      BY <2>1, <3>1, NoEvent DEF Unless
    <3>2. CASE f.usage # Null
      <4>1. aside = <<Billing("usage", bill)>> /\ U = {bill}
        BY <2>1, <3>2 DEF Unless
      <4> HIDE DEF bill, aside, U
      <4> QED BY <1>1, <2>1, <3>2, <4>1, OneEvent
    <3> QED BY <3>1, <3>2
  <2>3. BillsAre(both, U)
    <3> DEFINE one == <<Event("interrupted")>>
    <3>1. Bills!ASeq(aside) /\ Bills!ASeq(one) /\ BillsAre(one, {})
      BY <1>1, OneIsASeq, UnlessIsASeq, OneEvent
    <3>2. both = aside \o one
      BY <3>1, Bills!OneAdded
    <3> HIDE DEF aside, both, one, U, bill
    <3>3. BillsAre(aside \o one, U \cup {})
      BY <2>2, <3>1, BillsOfBoth
    <3>4. U \cup {} = U
      OBVIOUS
    <3> QED BY <3>2, <3>3, <3>4
  <2>4. BillsAre(ended, IF f.usage # Null THEN {bill} ELSE {Unreported})
    <3> DEFINE u == IF bill = Null THEN Unreported ELSE bill
    <3>1. u \in Counters /\ u = IF f.usage # Null THEN bill ELSE Unreported
      BY <2>1, UnreportedIs
    <3>2. ended = <<Billing("turn_end", u)>>
      OBVIOUS
    <3> HIDE DEF bill, ended, u
    <3>3. BillsAre(ended, {u})
      BY <1>1, <3>1, <3>2, OneEvent
    <3> QED BY <3>1, <3>3
  <2>5. ResponseDone(f) = CASE f.status = "cancelled" -> both
                            [] f.status # "cancelled" /\ f.called -> aside
                            [] OTHER -> ended
    BY DEF ResponseDone
  <2>6. Spent("openai", f) = IF f.usage # Null THEN {bill}
                             ELSE IF f.status = "cancelled" \/ f.called THEN {} ELSE {Unreported}
    BY <1>3, <2>1 DEF Spent
  <2>7. U = IF f.usage # Null THEN {bill} ELSE {}
    OBVIOUS
  <2> HIDE DEF bill, aside, both, ended, U
  <2>8. CASE f.status = "cancelled"
    <3>1. ResponseDone(f) = both /\ Spent("openai", f) = U
      BY <2>5, <2>6, <2>7, <2>8
    <3> QED BY <2>3, <3>1
  <2>9. CASE f.status # "cancelled" /\ f.called
    <3>1. ResponseDone(f) = aside /\ Spent("openai", f) = U
      BY <2>5, <2>6, <2>7, <2>9
    <3> QED BY <2>2, <3>1
  <2>10. CASE ~(f.status = "cancelled") /\ ~(f.status # "cancelled" /\ f.called)
    <3>1. ResponseDone(f) = ended
      BY <2>5, <2>10
    <3>2. Spent("openai", f) = IF f.usage # Null THEN {bill} ELSE {Unreported}
      BY <2>6, <2>10
    <3> QED BY <2>4, <3>1, <3>2
  <2> QED BY <2>8, <2>9, <2>10
<1>4. f.type = "done" => DecodeOpenAI(f) = ResponseDone(f)
  BY DEF DecodeOpenAI
<1>5. f.type # "done" => Spent("openai", f) = {}
  BY DEF Spent
<1> QED BY <1>2, <1>3, <1>4, <1>5

(* Gemini bills with the content of a turn, or with its end. *)
LEMMA GeminiBills ==
  ASSUME NEW d, d # "openai", NEW f, f.type = "toolCall" => f.calls \in Nat,
         f.type = "content" => f.parts \in Seq(Range(f.parts)) /\ f.usage \in Metadata \cup {Null}
  PROVE  BillsAre(DecodeGemini(f), Spent(d, f))
<1>1. /\ \A x : ~IsBill(Carrying("text", x)) /\ ~IsBill(Carrying("audio", x))
      /\ ~IsBill(Event("tool_call")) /\ ~IsBill(Event("interrupted")) /\ ~IsBill(Event("error"))
      /\ \A u : /\ IsBill(Billing("usage", u)) /\ Billing("usage", u).usage = u
                /\ IsBill(Billing("turn_end", u)) /\ Billing("turn_end", u).usage = u
  BY DEF IsBill, Carrying, Billing, Event
<1>2. ASSUME f.type # "content" PROVE BillsAre(DecodeGemini(f), {})
  <2>1. BillsAre([i \in 1..f.calls |-> Event("tool_call")], {})
    BY <1>1, NoBill
  <2>2. BillsAre(<<Event("error")>>, {}) /\ BillsAre(<<>>, {})
    BY <1>1, OneEvent, NoEvent
  <2> QED BY <1>2, <2>1, <2>2 DEF DecodeGemini
<1>3. ASSUME f.type = "content" PROVE BillsAre(ServerContent(f), Spent(d, f))
  <2> DEFINE of == [i \in DOMAIN f.parts |-> PartEvents(f.parts[i])]
             a == FlattenSeq(of)
             b == Unless(f.transcript = Null, Carrying("text", f.transcript))
             c == Unless(f.usage = Null \/ f.complete, Billing("usage", LiveUsage(f)))
             i == Unless(~f.interrupted, Event("interrupted"))
             e == Unless(~f.complete, Billing("turn_end", LiveUsage(f)))
             u == LiveUsage(f)
             C == IF f.usage = Null \/ f.complete THEN {} ELSE {u}
             E == IF f.complete THEN {u} ELSE {}
  <2>1. u = IF f.usage = Null THEN Unreported ELSE GeminiUsage(f.usage)
    BY DEF LiveUsage
  <2>2. u \in Counters
    BY <1>3, MetadataAre, UnreportedIs DEF LiveUsage
  <2>3. BillsAre(a, {}) /\ Bills!ASeq(a)
    <3>1. Bills!ASeq(of) /\ DOMAIN of = DOMAIN f.parts
      <4>1. Bills!ASeq(f.parts)
        BY <1>3, Bills!SeqOfSet
      <4>2. DOMAIN f.parts = 1..Len(f.parts) /\ Len(f.parts) \in Nat
        BY <4>1, Bills!SeqLen
      <4> QED BY <4>2, Bills!Tabled
    <3>2. ASSUME NEW k \in DOMAIN of
          PROVE  Bills!ASeq(of[k]) /\ \A j \in DOMAIN of[k] : ~IsBill(of[k][j])
      <4>1. of[k] = PartEvents(f.parts[k])
        BY <3>1, <3>2
      <4> HIDE DEF of
      <4>2. \/ of[k] = <<>> \/ of[k] = <<Event("tool_call")>>
            \/ \E x : of[k] = <<Carrying("text", x)>> \/ of[k] = <<Carrying("audio", x)>>
        BY <4>1 DEF PartEvents
      <4>3. of[k] = <<>> \/ \E x : of[k] = <<x>> /\ ~IsBill(x)
        BY <1>1, <4>2
      <4>4. CASE of[k] = <<>>
        BY <4>4, Bills!EmptyIsASeq
      <4>5. ASSUME NEW x, of[k] = <<x>>, ~IsBill(x)
            PROVE  Bills!ASeq(of[k]) /\ \A j \in DOMAIN of[k] : ~IsBill(of[k][j])
        BY <4>5, OneIsASeq
      <4> QED BY <4>3, <4>4, <4>5
    <3> HIDE DEF of
    <3>3. /\ Bills!ASeq(Bills!FlattenSeq(of))
          /\ \A k \in DOMAIN Bills!FlattenSeq(of) :
               \E m \in DOMAIN of : \E j \in DOMAIN of[m] : Bills!FlattenSeq(of)[k] = of[m][j]
      BY <3>1, <3>2, Bills!Flattened
    <3>4. a = Bills!FlattenSeq(of)
      BY Zenon DEF FlattenSeq, Bills!FlattenSeq
    <3> HIDE DEF a
    <3>5. \A k \in DOMAIN a : ~IsBill(a[k])
      BY <3>2, <3>3, <3>4
    <3> QED BY <3>3, <3>4, <3>5, NoBill
  <2>4. BillsAre(b, {}) /\ BillsAre(i, {})
    BY <1>1, OneEvent, NoEvent DEF Unless
  <2>5. BillsAre(c, C)
    <3>1. CASE f.usage = Null \/ f.complete
      BY <3>1, NoEvent DEF Unless
    <3>2. CASE ~(f.usage = Null \/ f.complete)
      <4>1. c = <<Billing("usage", u)>> /\ C = {u}
        BY <3>2 DEF Unless
      <4> HIDE DEF u, c, C
      <4> QED BY <1>1, <2>2, <4>1, OneEvent
    <3> QED BY <3>1, <3>2
  <2>6. BillsAre(e, E)
    <3>1. CASE ~f.complete
      BY <3>1, NoEvent DEF Unless
    <3>2. CASE f.complete
      <4>1. e = <<Billing("turn_end", u)>> /\ E = {u}
        BY <3>2 DEF Unless
      <4> HIDE DEF u, e, E
      <4> QED BY <1>1, <2>2, <4>1, OneEvent
    <3> QED BY <3>1, <3>2
  <2>7. Bills!ASeq(b) /\ Bills!ASeq(c) /\ Bills!ASeq(i) /\ Bills!ASeq(e)
    BY UnlessIsASeq
  <2>8. ServerContent(f) = a \o b \o c \o i \o e
    BY DEF ServerContent, of
  <2>9. Spent(d, f) = C \cup E /\ (C = {} \/ E = {})
    <3>1. Spent(d, f) = IF f.usage # Null THEN {GeminiUsage(f.usage)}
                        ELSE IF f.complete THEN {Unreported} ELSE {}
      BY <1>3 DEF Spent
    <3> HIDE DEF u
    <3> QED BY <2>1, <3>1
  <2> HIDE DEF a, b, c, i, e, u, C, E
  <2>10. BillsAre(a \o b, {}) /\ Bills!ASeq(a \o b)
    <3>1. BillsAre(a \o b, {} \cup {})
      BY <2>3, <2>4, <2>7, BillsOfBoth
    <3>2. {} \cup {} = {}
      OBVIOUS
    <3> QED BY <2>3, <2>7, <3>1, <3>2, Bills!Concatenated
  <2>11. BillsAre(a \o b \o c, C) /\ Bills!ASeq(a \o b \o c)
    <3>1. BillsAre(a \o b \o c, {} \cup C)
      BY <2>5, <2>7, <2>10, BillsOfBoth
    <3>2. {} \cup C = C
      OBVIOUS
    <3> QED BY <2>7, <2>10, <3>1, <3>2, Bills!Concatenated
  <2>12. BillsAre(a \o b \o c \o i, C) /\ Bills!ASeq(a \o b \o c \o i)
    <3>1. BillsAre(a \o b \o c \o i, C \cup {})
      BY <2>4, <2>7, <2>11, BillsOfBoth
    <3>2. C \cup {} = C
      OBVIOUS
    <3> QED BY <2>7, <2>11, <3>1, <3>2, Bills!Concatenated
  <2>13. BillsAre(a \o b \o c \o i \o e, C \cup E)
    BY <2>6, <2>7, <2>9, <2>12, BillsOfBoth
  <2> QED BY <2>8, <2>9, <2>13
<1>4. f.type = "content" => DecodeGemini(f) = ServerContent(f)
  BY DEF DecodeGemini
<1>5. f.type # "content" => Spent(d, f) = {}
  BY DEF Spent
<1> QED BY <1>2, <1>3, <1>4, <1>5

(* Any frame bills what it spent, once. *)
LEMMA FrameBills ==
  ASSUME NEW d \in Dialects, NEW f \in ServerFrames[d] \cup EndFrames[d]
  PROVE  BillsAre(Decode(d, f), Spent(d, f))
<1>1. CASE d = "openai"
  <2>1. f.type = "done" => f.usage \in Counters \cup {Null}
    BY <1>1, UsageAssumption
  <2> QED BY <1>1, <2>1, OpenAIBills DEF Decode
<1>2. CASE d # "openai"
  <2>1. /\ f.type = "toolCall" => f.calls \in Nat
        /\ f.type = "content" => f.parts \in Seq(Range(f.parts))
    BY <1>2, FramesAssumption
  <2>2. f.type = "content" => f.usage \in Metadata \cup {Null}
    BY <1>2, UsageAssumption
  <2> QED BY <1>2, <2>1, <2>2, GeminiBills DEF Decode
<1> QED BY <1>1, <1>2

-----------------------------------------------------------------------------
(* What the frames spent is with those who hold their events: a bill of    *)
(* each frame that spent and was not cut, and no two.                      *)
HeldOnce == \A e, g \in Held : IsBill(e) /\ IsBill(g) /\ e.frame = g.frame => e.n = g.n

HeldBills ==
  \A e \in Held :
    /\ e.frame \in DOMAIN heard
    /\ IsBill(e) => Spent(dialect, heard[e.frame]) = {e.usage} /\ e.usage \in Counters

SpentIsHeld ==
  \A k \in DOMAIN heard : ~Cut(dialect, heard[k]) /\ Spent(dialect, heard[k]) # {} =>
    \E e \in Held : IsBill(e) /\ e.frame = k

BillsAreHeld == Bills!ASeq(heard) /\ HeldOnce /\ HeldBills /\ SpentIsHeld

(* The events before the first that is refused are those of the frame.     *)
LEMMA GoodEvents ==
  ASSUME NEW events, Bills!ASeq(events)
  PROVE  /\ \A i \in DOMAIN Good(events) : i \in DOMAIN events /\ Good(events)[i] = events[i]
         /\ Refused(events) = {} => Good(events) = events
<1>1. Len(events) \in Nat /\ DOMAIN events = 1..Len(events)
  BY Bills!SeqLen
<1>2. CASE Refused(events) = {}
  BY <1>2 DEF Good
<1>3. CASE Refused(events) # {}
  <2> DEFINE m == Min(Refused(events)) - 1
             good == Good(events)
  <2>1. Refused(events) \in SUBSET (1..Len(events))
    BY <1>1 DEF Refused
  <2>2. Bills!Min(Refused(events)) \in Refused(events)
    BY <1>1, <1>3, <2>1, Bills!MinInside
  <2>3. Min(Refused(events)) \in Refused(events)
    BY <2>2, Zenon DEF Min, Bills!Min
  <2>4. m \in Nat /\ m <= Len(events) /\ 1 \in Nat \ {0}
    BY <1>1, <2>1, <2>3
  <2>5. good = SubSeq(events, 1, m)
    BY <1>3 DEF Good
  <2> HIDE DEF m
  <2>6. /\ Bills!ASeq(good) /\ Len(good) = IF 1 <= m THEN m - 1 + 1 ELSE 0
        /\ \A i \in 1..(m - 1 + 1) : good[i] = events[1 + i - 1]
    BY <2>4, <2>5, Bills!Sliced
  <2> HIDE DEF good
  <2>7. ASSUME NEW i \in DOMAIN good PROVE i \in DOMAIN events /\ good[i] = events[i]
    <3>1. i \in 1..Len(good)
      BY <2>6, Bills!SeqLen
    <3>2. i \in 1..(m - 1 + 1) /\ 1 + i - 1 = i
      BY <2>4, <2>6, <3>1
    <3>3. i \in DOMAIN events
      BY <1>1, <2>4, <3>2
    <3> QED BY <2>6, <3>2, <3>3
  <2> QED BY <1>3, <2>7 DEF good
<1> QED BY <1>2, <1>3

(* Their bills are among the frame's. *)
LEMMA GoodBills ==
  ASSUME NEW events, Bills!ASeq(events), NEW U, BillsAre(events, U)
  PROVE  BillsAmong(Good(events), U)
<1> DEFINE good == Good(events)
<1>1. \A i \in DOMAIN good : i \in DOMAIN events /\ good[i] = events[i]
  BY GoodEvents
<1> HIDE DEF good
<1>2. BillsAmong(good, U)
  BY <1>1 DEF BillsAre, BillsAmong
<1> QED BY <1>2 DEF good

(* Numbered, an event says what it said, and of which frame it is. *)
LEMMA NumberedSays ==
  ASSUME NEW events
  PROVE  /\ DOMAIN Numbered(events) = DOMAIN events
         /\ \A i \in DOMAIN events :
              /\ Numbered(events)[i].n = accepted + i
              /\ Numbered(events)[i].frame = Len(heard) + 1
              /\ Numbered(events)[i].type = events[i].type
              /\ Numbered(events)[i].usage = events[i].usage
BY DEF Numbered

(* A frame's bill is held with its other events; those before keep theirs. *)
LEMMA MessageBills ==
  ASSUME LiveInv, BillsAreHeld, dialect \in Dialects,
         NEW f \in ServerFrames[dialect] \cup EndFrames[dialect], Message(f)
  PROVE  BillsAreHeld'
<1> DEFINE events == Decode(dialect, f)
           good == Good(events)
           given == Numbered(good)
           U == Spent(dialect, f)
           k == Len(heard)
<1>1. heard' = Append(heard, f) /\ dialect' = dialect /\ Held' = Held \cup Range(given)
  BY MessageKeeps DEF Message
<1>2. Bills!ASeq(events) /\ BillsAre(events, U)
  BY FrameDecodes, FrameBills
<1>3. BillsAmong(good, U)
  <2> HIDE DEF events, U
  <2> QED BY <1>2, GoodBills
<1>4. \A i \in DOMAIN good : i \in DOMAIN events /\ good[i] = events[i]
  <2> HIDE DEF events
  <2> QED BY <1>2, GoodEvents
<1>5. ~Cut(dialect, f) => good = events
  <2>1. ~Cut(dialect, f) => Refused(events) = {}
    BY DEF Cut, Refused
  <2> HIDE DEF events
  <2> QED BY <1>2, <2>1, GoodEvents
<1>6. /\ DOMAIN given = DOMAIN good
      /\ \A i \in DOMAIN good :
           /\ given[i].n = accepted + i /\ given[i].frame = k + 1
           /\ given[i].type = good[i].type /\ given[i].usage = good[i].usage
  <2> HIDE DEF good
  <2> QED BY NumberedSays
<1>7. /\ k \in Nat /\ DOMAIN heard = 1..k /\ DOMAIN heard' = 1..(k + 1) /\ Bills!ASeq(heard')
      /\ heard'[k + 1] = f /\ \A j \in 1..k : heard'[j] = heard[j]
  <2>1. Bills!ASeq(heard)
    BY DEF BillsAreHeld
  <2>2. /\ Bills!ASeq(Append(heard, f)) /\ Len(Append(heard, f)) = k + 1
        /\ Append(heard, f)[k + 1] = f /\ \A j \in 1..k : Append(heard, f)[j] = heard[j]
    BY <2>1, Bills!Appended
  <2>3. k \in Nat /\ DOMAIN heard = 1..k
    BY <2>1, Bills!SeqLen
  <2>4. DOMAIN Append(heard, f) = 1..(k + 1)
    BY <2>2, Bills!SeqLen
  <2> QED BY <1>1, <2>2, <2>3, <2>4
<1> HIDE DEF events, good, given, U, k
<1>8. \A i \in DOMAIN given : IsBill(given[i]) <=> IsBill(good[i])
  BY <1>6 DEF IsBill
<1>9. \A e \in Held : e.frame \in 1..k
  BY <1>7 DEF BillsAreHeld, HeldBills
<1>10. ASSUME NEW e \in Held' PROVE e \in Held \/ \E i \in DOMAIN given : e = given[i]
  BY <1>1, <1>10 DEF Range
<1>11. HeldOnce'
  <2> SUFFICES ASSUME NEW e \in Held', NEW g \in Held', IsBill(e), IsBill(g), e.frame = g.frame
               PROVE  e.n = g.n
    BY DEF HeldOnce
  <2>1. CASE e \in Held /\ g \in Held
    BY <2>1 DEF BillsAreHeld, HeldOnce
  <2>2. ASSUME NEW i \in DOMAIN given, NEW x \in Held, x.frame = given[i].frame PROVE FALSE
    <3>1. given[i].frame = k + 1 /\ x.frame \in 1..k
      BY <1>6, <1>9
    <3> QED BY <1>7, <2>2, <3>1
  <2>3. ASSUME NEW i \in DOMAIN given, NEW j \in DOMAIN given, e = given[i], g = given[j]
        PROVE  e.n = g.n
    <3>1. IsBill(good[i]) /\ IsBill(good[j]) /\ i \in DOMAIN good /\ j \in DOMAIN good
      BY <1>6, <1>8, <2>3
    <3>2. i = j
      BY <1>3, <3>1 DEF BillsAmong
    <3> QED BY <2>3, <3>2
  <2> QED BY <1>10, <2>1, <2>2, <2>3
<1>12. HeldBills'
  <2> SUFFICES ASSUME NEW e \in Held'
               PROVE  /\ e.frame \in DOMAIN heard'
                      /\ IsBill(e) => Spent(dialect, heard'[e.frame]) = {e.usage} /\ e.usage \in Counters
    BY <1>1 DEF HeldBills
  <2>1. CASE e \in Held
    <3>1. e.frame \in 1..k /\ heard'[e.frame] = heard[e.frame] /\ 1..k \subseteq 1..(k + 1)
      BY <1>7, <1>9, <2>1
    <3> QED BY <1>7, <2>1, <3>1 DEF BillsAreHeld, HeldBills
  <2>2. ASSUME NEW i \in DOMAIN given, e = given[i]
        PROVE  /\ e.frame \in DOMAIN heard'
               /\ IsBill(e) => Spent(dialect, heard'[e.frame]) = {e.usage} /\ e.usage \in Counters
    <3>1. e.frame = k + 1 /\ heard'[k + 1] = f /\ k + 1 \in DOMAIN heard' /\ e.usage = good[i].usage
      BY <1>6, <1>7, <2>2
    <3>2. IsBill(e) => U = {good[i].usage} /\ good[i].usage \in Counters
      BY <1>3, <1>6, <1>8, <2>2 DEF BillsAmong
    <3> QED BY <3>1, <3>2 DEF U
  <2> QED BY <1>10, <2>1, <2>2
<1>13. SpentIsHeld'
  <2> SUFFICES ASSUME NEW j \in DOMAIN heard', ~Cut(dialect, heard'[j]), Spent(dialect, heard'[j]) # {}
               PROVE  \E e \in Held' : IsBill(e) /\ e.frame = j
    BY <1>1 DEF SpentIsHeld
  <2>1. CASE j \in 1..k
    <3>1. heard'[j] = heard[j] /\ j \in DOMAIN heard
      BY <1>7, <2>1
    <3>2. \E e \in Held : IsBill(e) /\ e.frame = j
      BY <3>1 DEF BillsAreHeld, SpentIsHeld
    <3> QED BY <1>1, <3>2
  <2>2. CASE j = k + 1
    <3>1. ~Cut(dialect, f) /\ U # {}
      BY <1>7, <2>2 DEF U
    <3>2. good = events
      BY <1>5, <3>1
    <3>3. PICK i \in DOMAIN events : IsBill(events[i])
      BY <1>2, <3>1 DEF BillsAre
    <3>4. given[i] \in Held' /\ IsBill(given[i]) /\ given[i].frame = k + 1
      BY <1>1, <1>6, <1>8, <3>2, <3>3 DEF Range
    <3> QED BY <2>2, <3>4
  <2> QED BY <1>7, <2>1, <2>2
<1> QED BY <1>7, <1>11, <1>12, <1>13 DEF BillsAreHeld

(* A step of anybody else. *)
LEMMA QuietBills ==
  ASSUME BillsAreHeld, Held' = Held, UNCHANGED <<heard, dialect>>
  PROVE  BillsAreHeld'
<1>1. UNCHANGED <<heard, dialect, Held>>
  OBVIOUS
<1> QED BY <1>1 DEF BillsAreHeld, HeldOnce, HeldBills, SpentIsHeld

-----------------------------------------------------------------------------
(* Nothing was accepted, and nobody has anything. *)
LEMMA Initially ==
  ASSUME Init
  PROVE  LiveInv
<1>1. /\ Bills!ASeq(<<>>) /\ Len(<<>>) = 0 /\ DOMAIN <<>> = {} /\ <<>> \o <<>> = <<>>
  <2>1. Bills!ASeq(<<>>) /\ Len(<<>>) = 0
    BY Bills!EmptyIsASeq
  <2> QED BY <2>1, Bills!NothingAdded
<1>2. /\ View.events = <<>> /\ View.rejected = <<>> /\ View.failure = Null /\ View.reading = "none"
  BY DEF View
<1>3. \A v \in Views : view[v] = View
  BY DEF Init
<1>4. ViewShape(View)
  BY <1>1, <1>2 DEF ViewShape
<1>5. Shapes
  BY <1>1, <1>3, <1>4 DEF Init, Shapes, RawShape
<1>6. Waiting
  BY <1>1 DEF Init, Waiting
<1>7. ASSUME NEW r \in Reader PROVE Seen(r) = <<>> /\ ~Over(r)
  <2>1. CASE r = "raw"
    BY <2>1 DEF Init, Seen, Over
  <2>2. CASE r # "raw"
    BY <1>1, <1>2, <1>3, <2>2, FailuresAssumption DEF Reader, Seen, Over
  <2> QED BY <2>1, <2>2
<1>8. Ended
  BY <1>7 DEF Ended
<1>9. Kept
  <2>1. Read = 0 /\ queue = <<>>
    <3>1. queue = <<>> /\ accepted = 0
      BY DEF Init
    <3>2. Len(queue) = 0
      BY <1>1, <3>1
    <3>3. \A a, n : a = 0 /\ n = 0 => a - n = 0
      OBVIOUS
    <3>4. Read = 0
      BY <3>1, <3>2, <3>3, Zenon DEF Read
    <3> QED BY <3>1, <3>4
  <2>2. \A r \in Reader : AllSeen[r] = <<>>
    BY <1>7 DEF AllSeen
  <2>3. Nums(<<>>) = {} /\ Increasing(<<>>) /\ 1..0 = {}
    BY <1>1 DEF Nums, Increasing
  <2>4. Dealt(AllSeen, Reader, 0)
    BY <1>1, <2>2, <2>3 DEF Dealt
  <2> QED BY <1>1, <2>1, <2>4 DEF Kept
<1> QED BY <1>5, <1>6, <1>8, <1>9 DEF LiveInv

(* A session speaks one dialect. *)
LEMMA DialectStays ==
  ASSUME dialect \in Dialects, [Next]_vars
  PROVE  dialect' \in Dialects
BY DEF Next, Opening, Socket, Reading, Caller, Connect, NoConnection, SocketOpens, OpenTimeout,
       OpenAnswers, ServerSpeaks, ServerEnds, SocketCloses, SocketErrs, Message, Iterate, Result,
       ResultGoesOn, CloseView, Reads, Abort, Close, ReadRaw, Send, CloseTimeout, vars

(* LiveSession.open. *)
LEMMA OpeningKeeps ==
  ASSUME LiveInv, Opening
  PROVE  Keeps
<1>1. ASSUME Connect \/ NoConnection PROVE Keeps
  BY <1>1, QuietKeeps DEF Connect, NoConnection, session, readers, server
<1>2. ASSUME SocketOpens PROVE Keeps
  <2>1. accepted' = accepted
    BY <1>2 DEF SocketOpens, server
  <2>2. CASE UNCHANGED <<session, readers>>
    BY <2>1, <2>2, QuietKeeps DEF session, readers
  <2>3. CASE OpenFails
    BY <2>1, <2>3, FailKeeps DEF OpenFails
  <2> QED BY <1>2, <2>2, <2>3 DEF SocketOpens
<1>3. ASSUME OpenTimeout PROVE Keeps
  <2>1. accepted' = accepted
    BY <1>3 DEF OpenTimeout, server
  <2>2. CASE UNCHANGED <<session, readers>>
    BY <2>1, <2>2, QuietKeeps DEF session, readers
  <2>3. CASE OpenFails
    BY <2>1, <2>3, FailKeeps DEF OpenFails
  <2> QED BY <1>3, <2>2, <2>3 DEF OpenTimeout
<1>4. ASSUME OpenAnswers PROVE Keeps
  <2>1. accepted' = accepted
    BY <1>4 DEF OpenAnswers, server
  <2>2. CASE UNCHANGED <<session, readers>>
    BY <2>1, <2>2, QuietKeeps DEF session, readers
  <2>3. CASE OpenFails
    BY <2>1, <2>3, FailKeeps DEF OpenFails
  <2> QED BY <1>4, <2>2, <2>3 DEF OpenAnswers
<1> QED BY <1>1, <1>2, <1>3, <1>4 DEF Opening

(* The socket's callbacks. *)
LEMMA SocketKeeps ==
  ASSUME LiveInv, dialect \in Dialects, Socket
  PROVE  LiveInv'
<1>1. ASSUME ServerSpeaks \/ ServerEnds PROVE LiveInv'
  <2>1. PICK f \in ServerFrames[dialect] \cup EndFrames[dialect] : Message(f)
    BY <1>1 DEF ServerSpeaks, ServerEnds
  <2> QED BY <2>1, MessageKeeps
<1>2. ASSUME SocketCloses PROVE LiveInv'
  <2>1. PICK abnormal \in BOOLEAN : Finish(abnormal)
    BY <1>2 DEF SocketCloses
  <2>2. accepted' = accepted
    BY <1>2 DEF SocketCloses, server
  <2> QED BY <2>1, <2>2, FinishKeeps DEF Keeps
<1>3. ASSUME SocketErrs PROVE LiveInv'
  <2>1. accepted' = accepted /\ Fail
    BY <1>3 DEF SocketErrs, OpenFails, server
  <2> QED BY <2>1, FailKeeps DEF Keeps
<1> QED BY <1>1, <1>2, <1>3 DEF Socket

(* The caller, and the deadline of close(). *)
LEMMA CallerKeeps ==
  ASSUME LiveInv, Caller \/ CloseTimeout
  PROVE  Keeps
<1>1. ASSUME Abort PROVE Keeps
  <2>1. accepted' = accepted
    BY <1>1 DEF Abort, server
  <2>2. CASE UNCHANGED <<session, readers>>
    BY <2>1, <2>2, QuietKeeps DEF session, readers
  <2>3. CASE Fail
    BY <2>1, <2>3, FailKeeps
  <2> QED BY <1>1, <2>2, <2>3 DEF Abort, OpenFails
<1>2. ASSUME Close PROVE Keeps
  <2>1. accepted' = accepted
    BY <1>2 DEF Close, server
  <2>2. CASE closed /\ closing' = "resolved" /\ UNCHANGED <<closed, queue, waiters, readers>>
    BY <2>1, <2>2, QuietKeeps
  <2>3. CASE ~closed /\ closing' = "pending" /\ UNCHANGED <<closed, queue, waiters, readers>>
    BY <2>1, <2>3, QuietKeeps
  <2>4. CASE ~closed /\ Give(<<>>, TRUE) /\ closing' = "rejected" /\ closed' = TRUE
    <3> DEFINE none == <<>>
               over == TRUE
    <3>1. /\ over \in BOOLEAN /\ Bills!ASeq(none) /\ accepted' = accepted + Len(none)
          /\ \A i \in DOMAIN none : none[i].n = accepted + i
          /\ Range(none) = {} /\ Give(none, over) /\ closed' = over /\ closing' # "pending"
      <4>1. accepted \in Nat /\ Bills!ASeq(<<>>) /\ Len(<<>>) = 0 /\ DOMAIN <<>> = {}
        BY Bills!EmptyIsASeq DEF LiveInv, Shapes
      <4>2. accepted' = accepted + Len(none)
        BY <2>1, <4>1
      <4>3. /\ Bills!ASeq(none) /\ Range(none) = {}
            /\ \A i \in DOMAIN none : none[i].n = accepted + i
        BY <4>1 DEF Range
      <4> QED BY <2>4, <4>2, <4>3
    <3> HIDE DEF none, over
    <3> QED BY <2>4, <3>1, GiveKeeps, GiveHolds DEF Keeps
  <2> QED BY <1>2, <2>2, <2>3, <2>4 DEF Close
<1>3. ASSUME ReadRaw PROVE Keeps
  BY <1>3, ReadRawKeeps
<1>4. ASSUME NEW e \in ClientEvents, Send(e) PROVE Keeps
  <2>1. accepted' = accepted
    BY <1>4 DEF Send
  <2>2. CASE UNCHANGED <<session, readers>>
    BY <2>1, <2>2, QuietKeeps DEF session, readers
  <2>3. CASE Fail
    BY <2>1, <2>3, FailKeeps
  <2> QED BY <1>4, <2>2, <2>3 DEF Send
<1>5. ASSUME CloseTimeout PROVE Keeps
  <2>1. accepted' = accepted /\ Finish(TRUE)
    BY <1>5 DEF CloseTimeout, server
  <2> QED BY <2>1, FinishKeeps
<1> QED BY <1>1, <1>2, <1>3, <1>4, <1>5 DEF Caller

(* Every step. *)
LEMMA LiveStep ==
  ASSUME LiveInv, dialect \in Dialects, [Next]_vars
  PROVE  LiveInv'
<1>1. CASE UNCHANGED vars
  BY <1>1, QuietKeeps DEF Keeps, vars, session, readers, server
<1>2. CASE Opening
  BY <1>2, OpeningKeeps DEF Keeps
<1>3. CASE Socket
  BY <1>3, SocketKeeps
<1>4. CASE Reading
  BY <1>4, ReadingKeeps DEF Reading, Keeps
<1>5. CASE Caller \/ CloseTimeout
  BY <1>5, CallerKeeps DEF Keeps
<1> QED BY <1>1, <1>2, <1>3, <1>4, <1>5 DEF Next

(* Only a frame is heard. *)
LEMMA HeardStays ==
  ASSUME Opening \/ SocketCloses \/ SocketErrs \/ Reading \/ Caller \/ CloseTimeout \/ UNCHANGED vars
  PROVE  UNCHANGED <<heard, dialect>>
BY DEF Opening, Reading, Caller, Connect, NoConnection, SocketOpens, OpenTimeout,
       OpenAnswers, SocketCloses, SocketErrs, Iterate, Result,
       ResultGoesOn, CloseView, Reads, Abort, Close, ReadRaw, Send, CloseTimeout, vars, server

(* Every step keeps the bills. *)
LEMMA BillsStep ==
  ASSUME LiveInv, BillsAreHeld, dialect \in Dialects, [Next]_vars
  PROVE  BillsAreHeld'
<1>1. CASE ServerSpeaks \/ ServerEnds
  <2>1. PICK f \in ServerFrames[dialect] \cup EndFrames[dialect] : Message(f)
    BY <1>1 DEF ServerSpeaks, ServerEnds
  <2> QED BY <2>1, MessageBills
<1>2. CASE UNCHANGED vars
  <2>1. Keeps
    BY <1>2, QuietKeeps DEF vars, session, readers, server
  <2> QED BY <1>2, <2>1, HeardStays, QuietBills DEF Keeps
<1>3. CASE SocketCloses \/ SocketErrs
  <2>1. Keeps
    <3>1. accepted' = accepted
      BY <1>3 DEF SocketCloses, SocketErrs, server
    <3>2. CASE SocketCloses
      <4>1. PICK abnormal \in BOOLEAN : Finish(abnormal)
        BY <3>2 DEF SocketCloses
      <4> QED BY <3>1, <4>1, FinishKeeps
    <3>3. CASE SocketErrs
      <4>1. Fail
        BY <3>3 DEF SocketErrs, OpenFails
      <4> QED BY <3>1, <4>1, FailKeeps
    <3> QED BY <1>3, <3>2, <3>3
  <2> QED BY <1>3, <2>1, HeardStays, QuietBills DEF Keeps
<1>4. CASE Opening
  BY <1>4, OpeningKeeps, HeardStays, QuietBills DEF Keeps
<1>5. CASE Reading
  <2>1. Keeps
    BY <1>5, ReadingKeeps DEF Reading
  <2> QED BY <1>5, <2>1, HeardStays, QuietBills DEF Keeps
<1>6. CASE Caller \/ CloseTimeout
  BY <1>6, CallerKeeps, HeardStays, QuietBills DEF Keeps
<1> QED BY <1>1, <1>2, <1>3, <1>4, <1>5, <1>6 DEF Next, Socket

(* And nothing was spent before anything was heard. *)
LEMMA NoBillsYet ==
  ASSUME Init
  PROVE  BillsAreHeld
<1>1. queue = <<>> /\ heard = <<>> /\ DOMAIN <<>> = {}
  BY DEF Init
<1>2. ASSUME NEW r \in Reader PROVE Seen(r) = <<>>
  <2>1. CASE r = "raw"
    BY <2>1 DEF Init, Seen
  <2>2. CASE r # "raw"
    <3>1. view[r].events = <<>> /\ view[r].rejected = <<>>
      BY <2>2 DEF Init, View, Reader
    <3>2. <<>> \o <<>> = <<>>
      BY Bills!EmptyIsASeq, Bills!NothingAdded
    <3> QED BY <2>2, <3>1, <3>2 DEF Seen
  <2> QED BY <2>1, <2>2
<1>3. Held = {}
  BY <1>1, <1>2 DEF Held, Range
<1> QED BY <1>1, <1>3, Bills!EmptyIsASeq DEF BillsAreHeld, HeldOnce, HeldBills, SpentIsHeld

(* In every session, however many views read it: the queue is the end of   *)
(* what was accepted, what precedes it is dealt among the readers in       *)
(* order, and who waits reads.                                             *)
THEOREM LiveInvHolds == Spec => []LiveInv
<1> DEFINE I == LiveInv /\ dialect \in Dialects
<1>1. Init => I
  BY Initially DEF Init
<1>2. I /\ [Next]_vars => I'
  BY LiveStep, DialectStays
<1>3. I => LiveInv
  OBVIOUS
<1> QED BY <1>1, <1>2, <1>3, PTL DEF Spec

(* From that, no event is lost, duplicated or out of order. *)
LEMMA LiveInvKeepsEvents ==
  ASSUME LiveInv
  PROVE  EventsAreKept
<1>1. /\ Read \in Nat /\ accepted \in Nat /\ Len(queue) \in Nat /\ DOMAIN queue = 1..Len(queue)
      /\ \A i \in DOMAIN queue : queue[i].n = Read + i
      /\ Dealt(AllSeen, Reader, Read)
  BY Bills!SeqLen DEF LiveInv, Shapes, Kept
<1>2. accepted = Read + Len(queue)
  BY <1>1 DEF Read
<1>3. \A r \in Reader : AllSeen[r] = Seen(r)
  BY DEF AllSeen
<1>4. \A n : n \in Nums(queue) <=> n \in (Read + 1)..accepted
  <2>1. ASSUME NEW n \in Nums(queue) PROVE n \in (Read + 1)..accepted
    <3>1. PICK i \in DOMAIN queue : n = queue[i].n
      BY DEF Nums
    <3>2. n = Read + i
      BY <1>1, <3>1
    <3> QED BY <1>1, <1>2, <3>2
  <2>2. ASSUME NEW n \in (Read + 1)..accepted PROVE n \in Nums(queue)
    <3>1. n - Read \in DOMAIN queue /\ Read + (n - Read) = n
      BY <1>1, <1>2
    <3>2. queue[n - Read].n = n
      BY <1>1, <3>1
    <3> QED BY <3>1, <3>2 DEF Nums
  <2> QED BY <2>1, <2>2
<1>5. Increasing(queue)
  BY <1>1 DEF Increasing
<1>6. ASSUME NEW r \in Reader
      PROVE  /\ Increasing(Seen(r)) /\ Nums(Seen(r)) \cap Nums(queue) = {}
             /\ Nums(Seen(r)) \subseteq 1..Read
             /\ \A s \in Reader \ {r} : Nums(Seen(r)) \cap Nums(Seen(s)) = {}
  <2>1. Increasing(Seen(r)) /\ Nums(Seen(r)) \subseteq 1..Read
    BY <1>1, <1>3 DEF Dealt
  <2>2. \A s \in Reader \ {r} : Nums(Seen(r)) \cap Nums(Seen(s)) = {}
    BY <1>1, <1>3 DEF Dealt
  <2>3. \A n \in 1..Read : n \notin (Read + 1)..accepted
    BY <1>1
  <2>4. Nums(Seen(r)) \cap Nums(queue) = {}
    BY <1>4, <2>1, <2>3
  <2> QED BY <2>1, <2>2, <2>4
<1>7. \A n \in 1..Read : \E r \in Reader : n \in Nums(Seen(r))
  BY <1>1, <1>3 DEF Dealt
<1>8. Nums(queue) \cup UNION {Nums(Seen(r)) : r \in Reader} = 1..accepted
  <2>1. ASSUME NEW n \in Nums(queue) \cup UNION {Nums(Seen(r)) : r \in Reader} PROVE n \in 1..accepted
    <3>1. n \in (Read + 1)..accepted \/ n \in 1..Read
      BY <1>4, <1>6
    <3> QED BY <1>1, <1>2, <3>1
  <2>2. ASSUME NEW n \in 1..accepted
        PROVE  n \in Nums(queue) \cup UNION {Nums(Seen(r)) : r \in Reader}
    <3>1. n \in (Read + 1)..accepted \/ n \in 1..Read
      BY <1>1
    <3> QED BY <1>4, <1>7, <3>1
  <2> QED BY <2>1, <2>2
<1> QED BY <1>5, <1>6, <1>8 DEF EventsAreKept, LiveInv, Ended, Waiting

(* EventsAreKept, for any views, limits and frames: every event that was   *)
(* accepted is in the queue or with exactly one reader, in order, and      *)
(* nobody waits for a session that is over (live.ts:165-181, 216-221,      *)
(* 435-459).                                                               *)
THEOREM EveryEventIsKept == Spec => []EventsAreKept
BY LiveInvHolds, LiveInvKeepsEvents, PTL

(* In every session, of either provider: what the frames it heard spent is *)
(* with the events somebody has or will be given, of each frame once       *)
(* (live.ts:288-337, 435-459).                                             *)
THEOREM BillsInvHolds == Spec => []BillsAreHeld
<1> DEFINE I == LiveInv /\ BillsAreHeld /\ dialect \in Dialects
<1>1. Init => I
  BY Initially, NoBillsYet DEF Init
<1>2. I /\ [Next]_vars => I'
  BY LiveStep, BillsStep, DialectStays
<1>3. I => BillsAreHeld
  OBVIOUS
<1> QED BY <1>1, <1>2, <1>3, PTL DEF Spec

-----------------------------------------------------------------------------
(* The bill of a turn: counter by counter, the sum of what was spent.      *)
Summed == {"input", "output", "reasoning"}

LEMMA CountIs ==
  ASSUME NEW u \in Counters, NEW c \in Summed
  PROVE  u[c] \in Count /\ Or0(u[c]) \in Nat
<1>1. u[c] \in Count
  BY DEF Counters, Summed
<1> QED BY <1>1 DEF Count, Or0

LEMMA SumUsageIs ==
  ASSUME NEW u \in Counters, NEW w \in Counters
  PROVE  /\ SumUsage(u, w) \in Counters
         /\ \A c \in Summed :
              SumUsage(u, w)[c] = IF u[c] = Null \/ w[c] = Null THEN Null ELSE u[c] + w[c]
<1> DEFINE Names == {"input", "output", "total", "cacheRead", "cacheWrite", "reasoning",
                     "inputAudio", "outputAudio"}
           Plus(c) == IF Null \in {u[c], w[c]} THEN Null ELSE u[c] + w[c]
           sum == [c \in DOMAIN w |-> Plus(c)]
<1>1. u # Null
  BY UsageAssumption
<1>2. SumUsage(u, w) = WithTotal(sum)
  BY <1>1 DEF SumUsage
<1>3. DOMAIN w = Names /\ \A c \in Names : u[c] \in Count /\ w[c] \in Count
  BY DEF Counters
<1>4. \A c \in Names : Plus(c) \in Count
  <2> TAKE c \in Names
  <2> DEFINE a == u[c]
             b == w[c]
  <2>1. a \in Count /\ b \in Count
    BY <1>3
  <2> HIDE DEF a, b
  <2>2. (IF Null \in {a, b} THEN Null ELSE a + b) \in Count
    BY <2>1 DEF Count
  <2> QED BY <2>2 DEF a, b
<1> HIDE DEF Plus
<1>5. sum \in Counters /\ \A c \in Names : sum[c] = Plus(c)
  <2>1. sum = [c \in Names |-> Plus(c)]
    BY <1>3
  <2> HIDE DEF sum
  <2>2. sum = [input |-> Plus("input"), output |-> Plus("output"), total |-> Plus("total"),
               cacheRead |-> Plus("cacheRead"), cacheWrite |-> Plus("cacheWrite"),
               reasoning |-> Plus("reasoning"), inputAudio |-> Plus("inputAudio"),
               outputAudio |-> Plus("outputAudio")]
    BY <2>1
  <2> QED BY <1>4, <2>1, <2>2 DEF Counters
<1>6. Summed \subseteq Names
  BY DEF Summed
<1> HIDE DEF sum, Names
<1>7. WithTotal(sum) \in Counters /\ \A c \in Summed : WithTotal(sum)[c] = sum[c]
  BY <1>5, TotalledIs DEF Summed
<1>8. \A c \in Summed : WithTotal(sum)[c] = Plus(c)
  BY <1>5, <1>6, <1>7
<1> QED BY <1>2, <1>7, <1>8 DEF Plus

(* What the frames of F paid, an absent counter for none; and a usage that *)
(* is their sum in counter c, which g tells.                               *)
Charges(F, pay, c) == [k \in F |-> Or0(pay[k][c])]

IsTheirs(u, D, pay, c, g) ==
  IF D = {} THEN u = Null
  ELSE /\ u \in Counters
       /\ u[c] = IF \E k \in D : pay[k][c] = Null THEN Null ELSE g[D]

LEMMA OneMorePaid ==
  ASSUME NEW F, NEW pay, \A k \in F : pay[k] \in Counters, NEW c \in Summed,
         NEW g, Bills!Added(g, Charges(F, pay, c), F),
         NEW D \in SUBSET F, NEW x \in F \ D, NEW u, IsTheirs(u, D, pay, c, g)
  PROVE  IsTheirs(SumUsage(u, pay[x]), D \cup {x}, pay, c, g)
<1> DEFINE E == D \cup {x}
           p == pay[x]
           more == SumUsage(u, p)
<1>1. E \in SUBSET F /\ x \in E /\ E # {} /\ E \ {x} = D /\ D \subseteq E
  OBVIOUS
<1>2. p \in Counters /\ p[c] \in Count /\ Or0(p[c]) \in Nat
  BY CountIs
<1>3. g[{}] = 0 /\ g[D] \in Nat /\ g[E] = Or0(p[c]) + g[D]
  <2>1. Charges(F, pay, c)[x] = Or0(p[c])
    BY DEF Charges
  <2> QED BY <1>1, <2>1 DEF Bills!Added
<1>4. CASE D = {}
  <2>1. u = Null /\ more = p
    BY <1>4 DEF IsTheirs, SumUsage
  <2>2. p[c] # Null => g[E] = p[c]
    BY <1>2, <1>3, <1>4 DEF Or0, Count
  <2>3. (\E k \in E : pay[k][c] = Null) <=> p[c] = Null
    BY <1>4
  <2> QED BY <1>1, <1>2, <2>1, <2>2, <2>3 DEF IsTheirs
<1>5. CASE D # {}
  <2>1. u \in Counters /\ u[c] = IF \E k \in D : pay[k][c] = Null THEN Null ELSE g[D]
    BY <1>5 DEF IsTheirs
  <2>2. /\ more \in Counters
        /\ more[c] = IF u[c] = Null \/ p[c] = Null THEN Null ELSE u[c] + p[c]
    BY <1>2, <2>1, SumUsageIs
  <2>3. (\E k \in E : pay[k][c] = Null) <=> (\E k \in D : pay[k][c] = Null) \/ p[c] = Null
    BY <1>1
  <2>4. (\E k \in D : pay[k][c] = Null) <=> u[c] = Null
    BY <1>3, <2>1, NullAssumption
  <2> HIDE DEF more, E, p
  <2>5. u[c] # Null /\ p[c] # Null => more[c] = g[E]
    BY <1>2, <1>3, <2>1, <2>2, <2>4 DEF Or0, Count
  <2>6. more[c] = IF \E k \in E : pay[k][c] = Null THEN Null ELSE g[E]
    BY <2>2, <2>3, <2>4, <2>5
  <2>7. IsTheirs(more, E, pay, c, g)
    BY <1>1, <2>2, <2>6 DEF IsTheirs
  <2> QED BY <2>7 DEF more, E, p
<1> QED BY <1>4, <1>5

(* Events whose bills are of frames of F, one of a frame. *)
Paying(s, F, pay) ==
  /\ \A i \in DOMAIN s : IsBill(s[i]) =>
       s[i].frame \in F /\ s[i].usage = pay[s[i].frame] /\ s[i].usage \in Counters
  /\ \A i, j \in DOMAIN s :
       IsBill(s[i]) /\ IsBill(s[j]) /\ s[i].frame = s[j].frame => i = j

BilledOf(s, n) == {s[i].frame : i \in {j \in DOMAIN s : j <= n /\ IsBill(s[j])}}

LEMMA OneMoreBilled ==
  ASSUME NEW s, NEW n \in Nat, DOMAIN s = 1..n, NEW i \in Nat, i < n
  PROVE  BilledOf(s, i + 1) = IF IsBill(s[i + 1]) THEN BilledOf(s, i) \cup {s[i + 1].frame}
                              ELSE BilledOf(s, i)
<1>1. \A j \in DOMAIN s : j <= i + 1 <=> j <= i \/ j = i + 1
  OBVIOUS
<1>2. i + 1 \in DOMAIN s
  OBVIOUS
<1> QED BY <1>1, <1>2 DEF BilledOf

(* Their fold is what those frames paid. *)
LEMMA BilledIsPaid ==
  ASSUME NEW s, Bills!ASeq(s), NEW F, NEW pay, \A k \in F : pay[k] \in Counters,
         Paying(s, F, pay), NEW c \in Summed,
         NEW g, Bills!Added(g, Charges(F, pay, c), F)
  PROVE  IsTheirs(FoldLeft(Billed, Null, s), BilledOf(s, Len(s)), pay, c, g)
<1> DEFINE n == Len(s)
<1>1. n \in Nat /\ DOMAIN s = 1..n
  BY Bills!SeqLen
<1> HIDE DEF n
<1>2. FoldLeft(Billed, Null, s) = Bills!Folded(Null, s)
  BY Zenon DEF FoldLeft, MapThenFoldSet, Max, Bills!Folded, Bills!FoldLeft,
               Bills!MapThenFoldSet, Bills!Max
<1>3. PICK h : /\ h[0] = Null
               /\ \A i \in 1..n : h[i] = Billed(h[i - 1], s[i])
               /\ h[n] = Bills!Folded(Null, s)
  BY <1>1, Bills!FoldTrace
<1> DEFINE Theirs(i) == IsTheirs(h[i], BilledOf(s, i), pay, c, g)
           A == {i \in Nat : i <= n => Theirs(i)}
<1>4. 0 \in A
  <2>1. BilledOf(s, 0) = {}
    BY <1>1 DEF BilledOf
  <2> QED BY <1>3, <2>1 DEF IsTheirs
<1>5. ASSUME NEW i \in Nat, i \in A PROVE i + 1 \in A
  <2> SUFFICES ASSUME i + 1 <= n PROVE Theirs(i + 1)
    OBVIOUS
  <2>1. i + 1 \in DOMAIN s /\ i + 1 \in 1..n /\ (i + 1) - 1 = i /\ i < n /\ i <= n
    BY <1>1
  <2>2. Theirs(i) /\ h[i + 1] = Billed(h[i], s[i + 1])
    BY <1>3, <1>5, <2>1
  <2>3. CASE ~IsBill(s[i + 1])
    <3>1. h[i + 1] = h[i] /\ BilledOf(s, i + 1) = BilledOf(s, i)
      BY <1>1, <2>1, <2>2, <2>3, OneMoreBilled DEF Billed
    <3> QED BY <2>2, <3>1
  <2>4. CASE IsBill(s[i + 1])
    <3> DEFINE x == s[i + 1].frame
               D == BilledOf(s, i)
    <3>1. h[i + 1] = SumUsage(h[i], pay[x]) /\ x \in F
      BY <2>1, <2>2, <2>4 DEF Billed, Paying
    <3>2. BilledOf(s, i + 1) = D \cup {x}
      BY <1>1, <2>1, <2>4, OneMoreBilled
    <3>3. D \in SUBSET F
      BY DEF BilledOf, Paying
    <3>4. x \notin D
      <4> SUFFICES ASSUME x \in D PROVE FALSE
        OBVIOUS
      <4>1. PICK j \in DOMAIN s : j <= i /\ IsBill(s[j]) /\ s[j].frame = x
        BY DEF BilledOf
      <4>2. j = i + 1
        BY <2>1, <2>4, <4>1 DEF Paying
      <4> QED BY <4>1, <4>2
    <3> HIDE DEF x, D
    <3>5. IsTheirs(h[i], D, pay, c, g)
      BY <2>2 DEF D
    <3>6. IsTheirs(SumUsage(h[i], pay[x]), D \cup {x}, pay, c, g)
      BY <3>1, <3>3, <3>4, <3>5, OneMorePaid
    <3> QED BY <3>1, <3>2, <3>6
  <2> QED BY <2>3, <2>4
<1> HIDE DEF A, Theirs
<1>6. n \in A
  BY <1>1, <1>4, <1>5, Bills!SetInduction
<1>7. Theirs(n)
  BY <1>1, <1>6 DEF A
<1> QED BY <1>2, <1>3, <1>7 DEF Theirs, n

-----------------------------------------------------------------------------
(* What a frame paid is what it spent, and the sum the property speaks of  *)
(* is a sum.                                                               *)
Paid(k) == CHOOSE u \in Spent(dialect, heard[k]) : TRUE

Owed(F, c) == MapThenSumSet(LAMBDA k : Paid(k)[c], F)

Payments(F) == [k \in F |-> Paid(k)]

Asked(F, c) == [k \in F |-> Paid(k)[c]]

LEMMA OwedIs ==
  ASSUME NEW F, Bills!IsFiniteSet(F), NEW c
  PROVE  \E h : Bills!Sums(h, Asked(F, c), F) /\ Owed(F, c) = h[F]
<1> DEFINE f == Asked(F, c)
           IsSum(j) == j = [s \in SUBSET F |->
                              IF s = {} THEN 0
                              ELSE Paid(CHOOSE x \in s : TRUE)[c]
                                     + j[s \ {CHOOSE x \in s : TRUE}]]
           h == CHOOSE j : IsSum(j)
<1>1. Owed(F, c) = h[F]
  BY DEF Owed, MapThenSumSet, MapThenFoldSet
<1>2. \A j : IsSum(j) <=> Bills!Sums(j, f, F)
  <2> TAKE j
  <2>1. ASSUME NEW s \in SUBSET F
        PROVE  Bills!SumStep(j, f, s)
                 = IF s = {} THEN 0
                   ELSE Paid(CHOOSE x \in s : TRUE)[c] + j[s \ {CHOOSE x \in s : TRUE}]
    <3>1. CASE s = {}
      BY <3>1 DEF Bills!SumStep
    <3>2. CASE s # {}
      <4> DEFINE x == CHOOSE y \in s : TRUE
      <4>1. x \in F
        BY <3>2
      <4> HIDE DEF x
      <4>2. f[x] = Paid(x)[c]
        BY <4>1 DEF Asked
      <4> HIDE DEF f
      <4> QED BY <3>2, <4>2 DEF x, Bills!SumStep
    <3> QED BY <3>1, <3>2
  <2>2. [s \in SUBSET F |-> Bills!SumStep(j, f, s)]
          = [s \in SUBSET F |-> IF s = {} THEN 0
                   ELSE Paid(CHOOSE x \in s : TRUE)[c] + j[s \ {CHOOSE x \in s : TRUE}]]
    <3> HIDE DEF f
    <3> QED BY <2>1, Zenon
  <2> HIDE DEF f
  <2> QED BY <2>2, Zenon DEF Bills!Sums
<1>3. \E j : IsSum(j)
  <2> HIDE DEF IsSum, f
  <2>1. PICK j : Bills!Sums(j, f, F)
    BY Bills!SumEquation
  <2> QED BY <1>2, <2>1
<1>4. IsSum(h)
  <2> HIDE DEF IsSum
  <2> QED BY <1>3
<1>5. Bills!Sums(h, f, F)
  <2> HIDE DEF IsSum, h, f
  <2> QED BY <1>2, <1>4
<1> HIDE DEF h
<1> QED BY <1>1, <1>5

(* Events that bill just what the frames of F paid fold to what they owe.  *)
LEMMA BillIsOwed ==
  ASSUME NEW s, Bills!ASeq(s), NEW F, Bills!IsFiniteSet(F),
         \A k \in F : Paid(k) \in Counters,
         Paying(s, F, Payments(F)), BilledOf(s, Len(s)) = F, NEW c \in Summed
  PROVE  LET usage == FoldLeft(Billed, Null, s)
         IN IF F = {} THEN usage = Null
            ELSE usage[c] = IF \E k \in F : Paid(k)[c] = Null THEN Null ELSE Owed(F, c)
<1> DEFINE usage == FoldLeft(Billed, Null, s)
           pay == Payments(F)
           f == Charges(F, pay, c)
<1>1. \A k \in F : pay[k] = Paid(k) /\ pay[k] \in Counters
  BY DEF Payments
<1>2. \A k \in F : f[k] = Or0(Paid(k)[c]) /\ f[k] \in Nat
  <2> TAKE k \in F
  <2>1. f[k] = Or0(pay[k][c])
    BY DEF Charges
  <2> HIDE DEF f, pay
  <2> QED BY <1>1, <2>1, CountIs
<1>3. Bills!Numbers(f, F)
  <2> HIDE DEF f
  <2> QED BY <1>2 DEF Bills!Numbers
<1>4. ASSUME NEW g, Bills!Sums(g, f, F) PROVE IsTheirs(usage, F, pay, c, g)
  <2>1. Bills!Added(g, f, F)
    <3> HIDE DEF f
    <3> QED BY <1>3, <1>4, Bills!SumOfMore
  <2>2. Paying(s, F, pay) /\ BilledOf(s, Len(s)) = F
    OBVIOUS
  <2> HIDE DEF pay
  <2>3. IsTheirs(usage, BilledOf(s, Len(s)), pay, c, g)
    BY <1>1, <2>1, <2>2, BilledIsPaid
  <2> QED BY <2>2, <2>3
<1>5. CASE \E k \in F : Paid(k)[c] = Null
  <2> HIDE DEF f, usage, pay
  <2>1. PICK g : Bills!Sums(g, f, F)
    BY Bills!SumEquation
  <2>2. IsTheirs(usage, F, pay, c, g)
    BY <1>4, <2>1
  <2>3. F # {} /\ \E k \in F : pay[k][c] = Null
    BY <1>1, <1>5
  <2>4. usage[c] = Null
    BY <2>2, <2>3 DEF IsTheirs
  <2> QED BY <1>5, <2>3, <2>4 DEF usage
<1>6. CASE ~(\E k \in F : Paid(k)[c] = Null)
  <2>1. f = Asked(F, c)
    <3>1. \A k \in F : Or0(Paid(k)[c]) = Paid(k)[c]
      BY <1>6 DEF Or0
    <3>2. \A k \in F : Or0(pay[k][c]) = Paid(k)[c]
      BY <1>1, <3>1
    <3> HIDE DEF pay
    <3> QED BY <3>2, Zenon DEF Charges, Asked
  <2> HIDE DEF f, usage, pay
  <2>2. PICK h : Bills!Sums(h, f, F) /\ Owed(F, c) = h[F]
    BY <2>1, OwedIs
  <2>3. IsTheirs(usage, F, pay, c, h)
    BY <1>4, <2>2
  <2>4. ~(\E k \in F : pay[k][c] = Null)
    BY <1>1, <1>6
  <2>5. IF F = {} THEN usage = Null ELSE usage[c] = h[F]
    BY <2>3, <2>4 DEF IsTheirs
  <2> QED BY <1>6, <2>2, <2>5 DEF usage
<1> QED BY <1>5, <1>6

-----------------------------------------------------------------------------
(* The frames a view has events of, those of them that spent, and what is  *)
(* said of a turn whose events nobody else has.                            *)
FramesOf(v) == {view[v].events[i].frame : i \in DOMAIN view[v].events}

BillsOf(v) == {k \in FramesOf(v) : Spent(dialect, heard[k]) # {}}

Whole(v) ==
  /\ \A r \in Reader \ {v} : \A i \in DOMAIN Seen(r) : Seen(r)[i].frame \notin FramesOf(v)
  /\ ~(\E i \in DOMAIN queue : queue[i].frame \in FramesOf(v))
  /\ view[v].rejected = <<>>
  /\ ~(\E k \in FramesOf(v) : Cut(dialect, heard[k]))

(* Such a view has each bill of its frames, once. *)
LEMMA WholeTurnPays ==
  ASSUME LiveInv, BillsAreHeld, NEW v \in Views, Whole(v)
  PROVE  LET s == view[v].events
         IN /\ Bills!ASeq(s) /\ Bills!IsFiniteSet(BillsOf(v))
            /\ \A k \in BillsOf(v) : Paid(k) \in Counters
            /\ Paying(s, BillsOf(v), Payments(BillsOf(v)))
            /\ BilledOf(s, Len(s)) = BillsOf(v)
<1> DEFINE s == view[v].events
           F == BillsOf(v)
           n == Len(heard)
<1>1. v \in Reader /\ v # "raw"
  BY ReadersAssumption DEF Reader
<1>2. Bills!ASeq(s) /\ Len(s) \in Nat /\ DOMAIN s = 1..Len(s)
  <2>1. Bills!ASeq(s)
    BY DEF LiveInv, Shapes, ViewShape
  <2> HIDE DEF s
  <2> QED BY <2>1, Bills!SeqLen
<1>3. Seen(v) = s
  <2>1. Seen(v) = s \o <<>>
    BY <1>1 DEF Seen, Whole
  <2> HIDE DEF s
  <2> QED BY <1>2, <2>1, Bills!NothingAdded
<1>4. \A i \in DOMAIN s : s[i] \in Held /\ s[i].frame \in FramesOf(v)
  BY <1>1, <1>3 DEF Held, Range, FramesOf
<1>5. \A i \in DOMAIN s : s[i].frame \in DOMAIN heard
  BY <1>4 DEF BillsAreHeld, HeldBills
<1>6. FramesOf(v) \subseteq DOMAIN heard
  BY <1>5 DEF FramesOf
<1>7. n \in Nat /\ DOMAIN heard = 1..n
  BY Bills!SeqLen DEF BillsAreHeld
<1>8. Bills!IsFiniteSet(F)
  <2>1. Bills!IsFiniteSet(1..n)
    BY <1>7, Bills!FS_Interval
  <2>2. F \subseteq 1..n
    BY <1>6, <1>7 DEF BillsOf
  <2> HIDE DEF F, n
  <2> QED BY <2>1, <2>2, Bills!FS_Subset
<1>9. ASSUME NEW i \in DOMAIN s, IsBill(s[i])
      PROVE  s[i].frame \in F /\ s[i].usage = Paid(s[i].frame) /\ s[i].usage \in Counters
  <2>1. Spent(dialect, heard[s[i].frame]) = {s[i].usage} /\ s[i].usage \in Counters
    BY <1>4, <1>9 DEF BillsAreHeld, HeldBills
  <2> HIDE DEF s
  <2> QED BY <1>4, <2>1 DEF Paid, BillsOf
<1>10. ASSUME NEW i \in DOMAIN s, NEW j \in DOMAIN s, IsBill(s[i]), IsBill(s[j]),
              s[i].frame = s[j].frame
       PROVE  i = j
  <2>1. s[i].n = s[j].n
    BY <1>4, <1>10 DEF BillsAreHeld, HeldOnce
  <2>2. AllSeen[v] = s /\ Read \in Nat
    BY <1>1, <1>3 DEF AllSeen, LiveInv, Kept
  <2>3. Increasing(s) /\ Nums(s) \subseteq 1..Read
    BY <1>1, <2>2 DEF LiveInv, Kept, Dealt
  <2> HIDE DEF s
  <2>4. s[i].n \in 1..Read
    BY <2>3 DEF Nums
  <2>5. ~(i < j) /\ ~(j < i)
    BY <2>1, <2>2, <2>3, <2>4 DEF Increasing
  <2> QED BY <1>2, <2>5
<1>11. ASSUME NEW k \in F PROVE \E i \in DOMAIN s : IsBill(s[i]) /\ s[i].frame = k
  <2>1. k \in FramesOf(v) /\ k \in DOMAIN heard /\ Spent(dialect, heard[k]) # {}
    BY <1>6 DEF BillsOf
  <2>2. ~Cut(dialect, heard[k])
    BY <2>1 DEF Whole
  <2>3. PICK e \in Held : IsBill(e) /\ e.frame = k
    BY <2>1, <2>2 DEF BillsAreHeld, SpentIsHeld
  <2>4. e \notin Range(queue)
    BY <2>1, <2>3 DEF Whole, Range
  <2>5. PICK r \in Reader : e \in Range(Seen(r))
    BY <2>4 DEF Held
  <2>6. r = v
    BY <2>1, <2>3, <2>5 DEF Whole, Range
  <2> HIDE DEF s
  <2> QED BY <1>3, <2>3, <2>5, <2>6 DEF Range
<1> HIDE DEF s, F
<1>12. \A k \in F : Paid(k) \in Counters
  BY <1>9, <1>11
<1>13. Paying(s, F, Payments(F))
  BY <1>9, <1>10 DEF Paying, Payments
<1>14. BilledOf(s, Len(s)) = F
  <2>1. \A j \in DOMAIN s : j <= Len(s)
    BY <1>2
  <2>2. BilledOf(s, Len(s)) \subseteq F
    BY <1>9 DEF BilledOf
  <2>3. F \subseteq BilledOf(s, Len(s))
    BY <1>11, <2>1 DEF BilledOf
  <2> QED BY <2>2, <2>3
<1> QED BY <1>2, <1>8, <1>12, <1>13, <1>14 DEF s, F

(* So its bill is theirs. *)
LEMMA WholeTurnsAreBilled ==
  ASSUME LiveInv, BillsAreHeld
  PROVE  TurnBillIsItsFrames
<1>1. ASSUME NEW v \in Views, Whole(v)
      PROVE  IF BillsOf(v) = {} THEN MaterializeTurn(view[v].events).usage = Null
             ELSE \A c \in Summed :
                    MaterializeTurn(view[v].events).usage[c]
                      = IF \E k \in BillsOf(v) : Paid(k)[c] = Null THEN Null
                        ELSE Owed(BillsOf(v), c)
  <2> DEFINE s == view[v].events
             F == BillsOf(v)
             usage == FoldLeft(Billed, Null, s)
  <2>1. MaterializeTurn(s).usage = usage
    BY DEF MaterializeTurn
  <2>2. /\ Bills!ASeq(s) /\ Bills!IsFiniteSet(F) /\ \A k \in F : Paid(k) \in Counters
        /\ Paying(s, F, Payments(F)) /\ BilledOf(s, Len(s)) = F
    BY <1>1, WholeTurnPays
  <2> HIDE DEF s, F
  <2>3. \A c \in Summed :
          IF F = {} THEN usage = Null
          ELSE usage[c] = IF \E k \in F : Paid(k)[c] = Null THEN Null ELSE Owed(F, c)
    BY <2>2, BillIsOwed
  <2>4. "input" \in Summed
    BY DEF Summed
  <2> HIDE DEF usage
  <2>5. IF F = {} THEN usage = Null
        ELSE \A c \in Summed :
               usage[c] = IF \E k \in F : Paid(k)[c] = Null THEN Null ELSE Owed(F, c)
    BY <2>3, <2>4
  <2> QED BY <2>1, <2>5 DEF s, F
<1> QED BY <1>1 DEF TurnBillIsItsFrames, FramesOf, BillsOf, Whole, Summed, Paid, Owed,
                    MapThenSumSet, MapThenFoldSet

(* TurnBillIsItsFrames, for any views, limits and frames of either         *)
(* provider, and for turns of any length: a turn's counters are the sums   *)
(* of what its frames spent, and a counter is unknown exactly when one of  *)
(* them does not say (live.ts:288-337).                                    *)
THEOREM EveryTurnIsBilled == Spec => []TurnBillIsItsFrames
BY LiveInvHolds, BillsInvHolds, WholeTurnsAreBilled, PTL
=============================================================================
