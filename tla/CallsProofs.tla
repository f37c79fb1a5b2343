----------------------------- MODULE CallsProofs -----------------------------
(***************************************************************************)
(* A call keeps its plan, proved of the builders of all four dialects, for *)
(* every server, every request and every policy.  The plan is built under  *)
(* "note", the call under a policy of its own; the two builders are taken  *)
(* through the same steps and compared after each.  And the coverage of a  *)
(* judgment is a share, by induction over the trie of its keys.            *)
(***************************************************************************)
EXTENDS Calls, TLAPS

Drops == INSTANCE FoldLemmas WITH Op <- Dropped
PutsAsked == INSTANCE FoldLemmas WITH Op <- PutAsked
PutsLocal == INSTANCE FoldLemmas WITH Op <- PutLocal

ASeq(s) == Drops!ASeq(s)

-----------------------------------------------------------------------------
(* Two builders of one request.                                            *)

Builder(b) ==
  /\ b = [request |-> b.request, compat |-> b.compat, policy |-> b.policy, local |-> b.local,
          wire |-> b.wire, records |-> b.records, failed |-> b.failed]
  /\ ASeq(b.records) /\ b.policy \in {"note", "silent", "refuse"}

(* A step keeps the policy, a failure and a deviation. *)
Steady(b, c) ==
  Builder(b) =>
    /\ Builder(c) /\ c.policy = b.policy
    /\ b.failed # Null => c.failed # Null
    /\ Deviates(b.records) => Deviates(c.records)

(* The builders agree on everything but the policy, or the call is refused *)
(* for what the plan records or refuses itself.                            *)
Pair(n, x) == Builder(n) /\ Builder(x) /\ n.policy = "note"

Alike(n, x) ==
  /\ Pair(n, x)
  /\ n.request = x.request /\ n.compat = x.compat /\ n.local = x.local
  /\ n.wire = x.wire /\ n.records = x.records /\ n.failed = x.failed
  /\ x.policy = "refuse" => ~Deviates(n.records)

Refused(n, x) ==
  /\ Pair(n, x) /\ x.policy = "refuse"
  /\ x.failed # Null /\ (n.failed # Null \/ Deviates(n.records))

Follows(n, x) == Alike(n, x) \/ Refused(n, x)

LEMMA Named ==
  /\ \A path \in Paths : path # Null
  /\ Null \notin {"reasoning", "cache", "messages", "tools", "scoring"}
  /\ Null \notin {"stop", "logprobs", "response_format", "probabilities", "store", "max_tokens"}
BY AbsenceAssumption DEF Names, Paths, SamplingPaths, OtherPaths

LEMMA SteadyAtAll == \A b : Steady(b, b)
BY DEF Steady

LEMMA Keeping ==
  ASSUME NEW n, NEW x, Follows(n, x), NEW m, NEW y, Steady(n, m), Steady(x, y),
         Alike(n, x) => Follows(m, y)
  PROVE  Follows(m, y)
BY DEF Follows, Refused, Steady, Pair

LEMMA AlikeFields ==
  \A n, x : Alike(n, x) =>
    n.request = x.request /\ n.compat = x.compat /\ n.local = x.local /\ n.wire = x.wire
    /\ n.failed = x.failed
BY DEF Alike

-----------------------------------------------------------------------------
(* The operations every builder is made of.                                *)

LEMMA Recorded1 ==
  ASSUME NEW records, ASeq(records), NEW r
  PROVE  /\ ASeq(Append(records, r))
         /\ Deviates(Append(records, r)) <=> Deviates(records) \/ r.action \in DEVIATIONS
<1>1. /\ ASeq(Append(records, r)) /\ Len(records) \in Nat /\ DOMAIN records = 1..Len(records)
      /\ DOMAIN Append(records, r) = 1..(Len(records) + 1)
      /\ Append(records, r)[Len(records) + 1] = r
      /\ \A i \in 1..Len(records) : Append(records, r)[i] = records[i]
  BY Drops!Appended, Drops!SeqLen DEF ASeq
<1>2. ASSUME NEW i \in DOMAIN records
      PROVE  Append(records, r)[i] = records[i] /\ i \in DOMAIN Append(records, r)
  BY <1>1
<1>3. ASSUME NEW i \in DOMAIN Append(records, r) PROVE i \in DOMAIN records \/ i = Len(records) + 1
  BY <1>1
<1>4. Len(records) + 1 \in DOMAIN Append(records, r)
  BY <1>1
<1> QED BY <1>1, <1>2, <1>3, <1>4 DEF Deviates

(* A builder with one field changed. *)
LEMMA Rewired ==
  ASSUME NEW b, Builder(b), NEW v
  PROVE  /\ Builder([b EXCEPT !.wire = v]) /\ [b EXCEPT !.wire = v].wire = v
         /\ [b EXCEPT !.wire = v].policy = b.policy /\ [b EXCEPT !.wire = v].request = b.request
         /\ [b EXCEPT !.wire = v].compat = b.compat /\ [b EXCEPT !.wire = v].local = b.local
         /\ [b EXCEPT !.wire = v].records = b.records /\ [b EXCEPT !.wire = v].failed = b.failed
BY DEF Builder

LEMMA Relocated ==
  ASSUME NEW b, Builder(b), NEW v
  PROVE  /\ Builder([b EXCEPT !.local = v]) /\ [b EXCEPT !.local = v].local = v
         /\ [b EXCEPT !.local = v].policy = b.policy /\ [b EXCEPT !.local = v].request = b.request
         /\ [b EXCEPT !.local = v].compat = b.compat /\ [b EXCEPT !.local = v].wire = b.wire
         /\ [b EXCEPT !.local = v].records = b.records /\ [b EXCEPT !.local = v].failed = b.failed
BY DEF Builder

LEMMA Failing ==
  ASSUME NEW b, Builder(b), NEW v
  PROVE  /\ Builder([b EXCEPT !.failed = v]) /\ [b EXCEPT !.failed = v].failed = v
         /\ [b EXCEPT !.failed = v].policy = b.policy /\ [b EXCEPT !.failed = v].request = b.request
         /\ [b EXCEPT !.failed = v].compat = b.compat /\ [b EXCEPT !.failed = v].wire = b.wire
         /\ [b EXCEPT !.failed = v].records = b.records /\ [b EXCEPT !.failed = v].local = b.local
BY DEF Builder

LEMMA Recording ==
  ASSUME NEW b, Builder(b), NEW r
  PROVE  LET c == [b EXCEPT !.records = Append(@, r)] IN
         /\ Builder(c) /\ c.records = Append(b.records, r)
         /\ Deviates(c.records) <=> Deviates(b.records) \/ r.action \in DEVIATIONS
         /\ c.policy = b.policy /\ c.request = b.request /\ c.compat = b.compat
         /\ c.wire = b.wire /\ c.local = b.local /\ c.failed = b.failed
<1> DEFINE c == [b EXCEPT !.records = Append(b.records, r)]
<1>1. /\ ASeq(Append(b.records, r))
      /\ Deviates(Append(b.records, r)) <=> Deviates(b.records) \/ r.action \in DEVIATIONS
  BY Recorded1 DEF Builder
<1>2. /\ c.records = Append(b.records, r) /\ c.policy = b.policy /\ c.request = b.request
      /\ c.compat = b.compat /\ c.wire = b.wire /\ c.local = b.local /\ c.failed = b.failed
  BY DEF Builder
<1>3. Builder(c)
  BY <1>1, <1>2 DEF Builder
<1> QED BY <1>1, <1>2, <1>3

(* What each does, a field at a time. *)
LEMMA RewiredKeeps ==
  /\ \A b, c, v : Steady(b, c) => Steady(b, [c EXCEPT !.wire = v])
  /\ \A n, x, v, w : Follows(n, x) /\ (Alike(n, x) => v = w) =>
       Follows([n EXCEPT !.wire = v], [x EXCEPT !.wire = w])
<1>1. ASSUME NEW b, NEW c, NEW v, Steady(b, c) PROVE Steady(b, [c EXCEPT !.wire = v])
  BY <1>1, Rewired DEF Steady
<1>2. ASSUME NEW n, NEW x, NEW v, NEW w, Follows(n, x), Alike(n, x) => v = w
      PROVE  Follows([n EXCEPT !.wire = v], [x EXCEPT !.wire = w])
  <2>1. Builder(n) /\ Builder(x)
    BY <1>2 DEF Follows, Alike, Refused, Pair
  <2> DEFINE m == [n EXCEPT !.wire = v]
             y == [x EXCEPT !.wire = w]
  <2>2. /\ Builder(m) /\ m.wire = v /\ m.policy = n.policy /\ m.request = n.request
        /\ m.compat = n.compat /\ m.local = n.local /\ m.records = n.records /\ m.failed = n.failed
    BY <2>1, Rewired
  <2>3. /\ Builder(y) /\ y.wire = w /\ y.policy = x.policy /\ y.request = x.request
        /\ y.compat = x.compat /\ y.local = x.local /\ y.records = x.records /\ y.failed = x.failed
    BY <2>1, Rewired
  <2> HIDE DEF m, y
  <2>4. Follows(m, y)
    BY <1>2, <2>2, <2>3 DEF Follows, Alike, Refused, Pair
  <2> QED BY <2>4 DEF m, y
<1> QED BY <1>1, <1>2

LEMMA RelocatedKeeps ==
  /\ \A b, c, v : Steady(b, c) => Steady(b, [c EXCEPT !.local = v])
  /\ \A n, x, v, w : Follows(n, x) /\ (Alike(n, x) => v = w) =>
       Follows([n EXCEPT !.local = v], [x EXCEPT !.local = w])
<1>1. ASSUME NEW b, NEW c, NEW v, Steady(b, c) PROVE Steady(b, [c EXCEPT !.local = v])
  BY <1>1, Relocated DEF Steady
<1>2. ASSUME NEW n, NEW x, NEW v, NEW w, Follows(n, x), Alike(n, x) => v = w
      PROVE  Follows([n EXCEPT !.local = v], [x EXCEPT !.local = w])
  <2>1. Builder(n) /\ Builder(x)
    BY <1>2 DEF Follows, Alike, Refused, Pair
  <2> DEFINE m == [n EXCEPT !.local = v]
             y == [x EXCEPT !.local = w]
  <2>2. /\ Builder(m) /\ m.local = v /\ m.policy = n.policy /\ m.request = n.request
        /\ m.compat = n.compat /\ m.wire = n.wire /\ m.records = n.records /\ m.failed = n.failed
    BY <2>1, Relocated
  <2>3. /\ Builder(y) /\ y.local = w /\ y.policy = x.policy /\ y.request = x.request
        /\ y.compat = x.compat /\ y.wire = x.wire /\ y.records = x.records /\ y.failed = x.failed
    BY <2>1, Relocated
  <2> HIDE DEF m, y
  <2>4. Follows(m, y)
    BY <1>2, <2>2, <2>3 DEF Follows, Alike, Refused, Pair
  <2> QED BY <2>4 DEF m, y
<1> QED BY <1>1, <1>2

LEMMA UnsupportedKeeps ==
  /\ \A b, c, path : path # Null /\ Steady(b, c) => Steady(b, Unsupported(c, path))
  /\ \A n, x, path : path # Null /\ Follows(n, x) => Follows(Unsupported(n, path), Unsupported(x, path))
<1>1. ASSUME NEW b, NEW c, NEW path, path # Null, Steady(b, c) PROVE Steady(b, Unsupported(c, path))
  BY <1>1, Failing DEF Steady, Unsupported
<1>2. ASSUME NEW n, NEW x, NEW path, path # Null, Follows(n, x)
      PROVE  Follows(Unsupported(n, path), Unsupported(x, path))
  <2>1. Builder(n) /\ Builder(x)
    BY <1>2 DEF Follows, Alike, Refused, Pair
  <2> DEFINE m == Unsupported(n, path)
             y == Unsupported(x, path)
  <2>2. /\ Builder(m) /\ m.wire = n.wire /\ m.policy = n.policy /\ m.request = n.request
        /\ m.compat = n.compat /\ m.local = n.local /\ m.records = n.records
        /\ m.failed = IF n.failed = Null THEN path ELSE n.failed
    BY <2>1, Failing DEF Unsupported
  <2>3. /\ Builder(y) /\ y.wire = x.wire /\ y.policy = x.policy /\ y.request = x.request
        /\ y.compat = x.compat /\ y.local = x.local /\ y.records = x.records
        /\ y.failed = IF x.failed = Null THEN path ELSE x.failed
    BY <2>1, Failing DEF Unsupported
  <2> HIDE DEF m, y
  <2>4. Follows(m, y)
    BY <1>2, <2>2, <2>3 DEF Follows, Alike, Refused, Pair
  <2> QED BY <2>4 DEF m, y
<1> QED BY <1>1, <1>2

(* The deviation that is recorded in one builder refuses in the other. *)
AdaptedTo(b, c, path, action, r) ==
  /\ Builder(c) /\ c.policy = b.policy /\ c.request = b.request /\ c.compat = b.compat
  /\ c.wire = b.wire /\ c.local = b.local
  /\ \/ b.failed # Null /\ c.failed = b.failed /\ c.records = b.records
     \/ /\ b.failed = Null /\ b.policy = "refuse" /\ action \in DEVIATIONS
        /\ c.failed = path /\ c.records = b.records
     \/ /\ b.failed = Null /\ ~(b.policy = "refuse" /\ action \in DEVIATIONS)
        /\ c.failed = Null /\ c.records = Append(b.records, r)
        /\ Deviates(c.records) <=> Deviates(b.records) \/ action \in DEVIATIONS

LEMMA Adapted ==
  ASSUME NEW b, Builder(b), NEW path, NEW action, NEW asked, NEW applied
  PROVE  AdaptedTo(b, Adapt(b, path, action, asked, applied), path, action,
                   Record(path, action, asked, applied))
<1> DEFINE r == Record(path, action, asked, applied)
           c == Adapt(b, path, action, asked, applied)
<1>1. CASE b.failed # Null
  <2>1. c = b
    BY <1>1 DEF Adapt
  <2> QED BY <1>1, <2>1 DEF AdaptedTo
<1>2. CASE b.failed = Null /\ b.policy = "refuse" /\ action \in DEVIATIONS
  <2>1. c = [b EXCEPT !.failed = path]
    BY <1>2 DEF Adapt, Unsupported
  <2> HIDE DEF c
  <2>2. /\ Builder(c) /\ c.policy = b.policy /\ c.request = b.request /\ c.compat = b.compat
        /\ c.wire = b.wire /\ c.local = b.local /\ c.failed = path /\ c.records = b.records
    BY <2>1, Failing
  <2> QED BY <1>2, <2>2 DEF c, AdaptedTo
<1>3. CASE b.failed = Null /\ ~(b.policy = "refuse" /\ action \in DEVIATIONS)
  <2>1. c = [b EXCEPT !.records = Append(@, r)]
    BY <1>3 DEF Adapt
  <2>2. r.action = action
    BY DEF Record
  <2> HIDE DEF c, r
  <2>3. /\ Builder(c) /\ c.records = Append(b.records, r)
        /\ Deviates(c.records) <=> Deviates(b.records) \/ r.action \in DEVIATIONS
        /\ c.policy = b.policy /\ c.request = b.request /\ c.compat = b.compat
        /\ c.wire = b.wire /\ c.local = b.local /\ c.failed = b.failed
    BY <2>1, Recording
  <2>4. AdaptedTo(b, c, path, action, r)
    BY <1>3, <2>2, <2>3 DEF AdaptedTo
  <2> QED BY <2>4 DEF c, r
<1> QED BY <1>1, <1>2, <1>3

LEMMA AdaptKeeps ==
  /\ \A b, c, path, action, asked, applied : path # Null /\ Steady(b, c) =>
       Steady(b, Adapt(c, path, action, asked, applied))
  /\ \A n, x, path, action, u, v, i, j :
       path # Null /\ Follows(n, x) /\ (Alike(n, x) => u = v /\ i = j) =>
         Follows(Adapt(n, path, action, u, i), Adapt(x, path, action, v, j))
<1>1. ASSUME NEW b, NEW c, NEW path, NEW action, NEW asked, NEW applied, path # Null, Steady(b, c)
      PROVE  Steady(b, Adapt(c, path, action, asked, applied))
  <2> SUFFICES ASSUME Builder(b) PROVE Steady(b, Adapt(c, path, action, asked, applied))
    BY DEF Steady
  <2>1. Builder(c)
    BY <1>1 DEF Steady
  <2> DEFINE d == Adapt(c, path, action, asked, applied)
  <2>2. AdaptedTo(c, d, path, action, Record(path, action, asked, applied))
    BY <2>1, Adapted
  <2> HIDE DEF d
  <2>3. Steady(b, d)
    BY <1>1, <2>2 DEF Steady, AdaptedTo
  <2> QED BY <2>3 DEF d
<1>2. ASSUME NEW n, NEW x, NEW path, NEW action, NEW u, NEW v, NEW i, NEW j,
             path # Null, Follows(n, x), Alike(n, x) => u = v /\ i = j
      PROVE  Follows(Adapt(n, path, action, u, i), Adapt(x, path, action, v, j))
  <2>1. Builder(n) /\ Builder(x) /\ n.policy = "note"
    BY <1>2 DEF Follows, Alike, Refused, Pair
  <2> DEFINE m == Adapt(n, path, action, u, i)
             y == Adapt(x, path, action, v, j)
  <2>2. AdaptedTo(n, m, path, action, Record(path, action, u, i))
    BY <2>1, Adapted
  <2>3. AdaptedTo(x, y, path, action, Record(path, action, v, j))
    BY <2>1, Adapted
  <2> HIDE DEF m, y
  <2>4. CASE Alike(n, x)
    <3>1. u = v /\ i = j
      BY <1>2, <2>4
    <3>2. Follows(m, y)
      BY <1>2, <2>1, <2>2, <2>3, <2>4, <3>1 DEF AdaptedTo, Follows, Alike, Refused, Pair
    <3> QED BY <3>2 DEF m, y
  <2>5. CASE Refused(n, x)
    <3>1. Refused(m, y)
      BY <2>1, <2>2, <2>3, <2>5 DEF AdaptedTo, Refused, Pair
    <3> QED BY <3>1 DEF Follows, m, y
  <2> QED BY <1>2, <2>4, <2>5 DEF Follows
<1> QED BY <1>1, <1>2

LEMMA PutKeeps ==
  /\ \A b, c, f, v : Steady(b, c) => Steady(b, Put(c, f, v))
  /\ \A n, x, f, g, v, w : Follows(n, x) /\ (Alike(n, x) => f = g /\ v = w) =>
       Follows(Put(n, f, v), Put(x, g, w))
<1>1. ASSUME NEW b, NEW c, NEW f, NEW v, Steady(b, c) PROVE Steady(b, Put(c, f, v))
  BY <1>1, RewiredKeeps DEF Put
<1>2. ASSUME NEW n, NEW x, NEW f, NEW g, NEW v, NEW w, Follows(n, x), Alike(n, x) => f = g /\ v = w
      PROVE  Follows(Put(n, f, v), Put(x, g, w))
  <2>1. ASSUME Alike(n, x) PROVE Follows(Put(n, f, v), Put(x, g, w))
    <3>1. f = g /\ v = w /\ n.failed = x.failed /\ n.wire = x.wire
      BY <1>2, <2>1, AlikeFields
    <3>2. Follows([n EXCEPT !.wire = (f :> v) @@ n.wire], [x EXCEPT !.wire = (g :> w) @@ x.wire])
      BY <1>2, <3>1, RewiredKeeps
    <3> QED BY <1>2, <3>1, <3>2 DEF Put
  <2> QED BY <1>1, <1>2, <2>1, SteadyAtAll, Keeping
<1> QED BY <1>1, <1>2

LEMMA PutIfKeeps ==
  /\ \A b, c, i, f, v : Steady(b, c) => Steady(b, PutIf(i, c, f, v))
  /\ \A n, x, i, j, f, g, v, w : Follows(n, x) /\ (Alike(n, x) => i = j /\ f = g /\ v = w) =>
       Follows(PutIf(i, n, f, v), PutIf(j, x, g, w))
<1>1. ASSUME NEW b, NEW c, NEW i, NEW f, NEW v, Steady(b, c) PROVE Steady(b, PutIf(i, c, f, v))
  BY <1>1, PutKeeps DEF PutIf
<1>2. ASSUME NEW n, NEW x, NEW i, NEW j, NEW f, NEW g, NEW v, NEW w, Follows(n, x),
             Alike(n, x) => i = j /\ f = g /\ v = w
      PROVE  Follows(PutIf(i, n, f, v), PutIf(j, x, g, w))
  <2>1. ASSUME Alike(n, x) PROVE Follows(PutIf(i, n, f, v), PutIf(j, x, g, w))
    BY <1>2, <2>1, PutKeeps DEF PutIf
  <2> QED BY <1>1, <1>2, <2>1, SteadyAtAll, Keeping
<1> QED BY <1>1, <1>2

LEMMA UnsupportedIfKeeps ==
  /\ \A b, c, i, path : path # Null /\ Steady(b, c) => Steady(b, UnsupportedIf(i, c, path))
  /\ \A n, x, i, j, path : path # Null /\ Follows(n, x) /\ (Alike(n, x) => i = j) =>
       Follows(UnsupportedIf(i, n, path), UnsupportedIf(j, x, path))
<1>1. ASSUME NEW b, NEW c, NEW i, NEW path, path # Null, Steady(b, c)
      PROVE  Steady(b, UnsupportedIf(i, c, path))
  BY <1>1, UnsupportedKeeps DEF UnsupportedIf
<1>2. ASSUME NEW n, NEW x, NEW i, NEW j, NEW path, path # Null, Follows(n, x), Alike(n, x) => i = j
      PROVE  Follows(UnsupportedIf(i, n, path), UnsupportedIf(j, x, path))
  <2>1. ASSUME Alike(n, x) PROVE Follows(UnsupportedIf(i, n, path), UnsupportedIf(j, x, path))
    BY <1>2, <2>1, UnsupportedKeeps DEF UnsupportedIf
  <2> QED BY <1>1, <1>2, <2>1, SteadyAtAll, Keeping
<1> QED BY <1>1, <1>2

LEMMA DroppedKeeps ==
  /\ \A b, c, path : path # Null /\ Steady(b, c) => Steady(b, Dropped(c, path))
  /\ \A n, x, path : path # Null /\ Follows(n, x) => Follows(Dropped(n, path), Dropped(x, path))
<1>1. ASSUME NEW b, NEW c, NEW path, path # Null, Steady(b, c) PROVE Steady(b, Dropped(c, path))
  <2> DEFINE d == Adapt(c, path, "dropped", Asked(c, path), Null)
  <2>1. Steady(b, d)
    BY <1>1, AdaptKeeps
  <2>2. Steady(b, [d EXCEPT !.local = [d.local EXCEPT ![path] = Null]])
    BY <2>1, RelocatedKeeps
  <2> QED BY <1>1, <2>2 DEF Dropped
<1>2. ASSUME NEW n, NEW x, NEW path, path # Null, Follows(n, x)
      PROVE  Follows(Dropped(n, path), Dropped(x, path))
  <2> DEFINE m == Adapt(n, path, "dropped", Asked(n, path), Null)
             y == Adapt(x, path, "dropped", Asked(x, path), Null)
  <2>1. ASSUME Alike(n, x) PROVE Follows(Dropped(n, path), Dropped(x, path))
    <3>1. n.local = x.local /\ Asked(n, path) = Asked(x, path)
      BY <2>1, AlikeFields DEF Asked
    <3>2. Follows(m, y)
      BY <1>2, <3>1, AdaptKeeps
    <3> HIDE DEF m, y
    <3>3. Alike(m, y) => m.local = y.local
      BY AlikeFields
    <3>4. Follows([m EXCEPT !.local = [m.local EXCEPT ![path] = Null]],
                  [y EXCEPT !.local = [y.local EXCEPT ![path] = Null]])
      BY <3>2, <3>3, RelocatedKeeps
    <3> QED BY <1>2, <3>1, <3>4 DEF Dropped, m, y
  <2> QED BY <1>1, <1>2, <2>1, SteadyAtAll, Keeping
<1> QED BY <1>1, <1>2

LEMMA DroppedIfKeeps ==
  /\ \A b, c, i, path : path # Null /\ Steady(b, c) => Steady(b, DroppedIf(i, c, path))
  /\ \A n, x, i, j, path : path # Null /\ Follows(n, x) /\ (Alike(n, x) => i = j) =>
       Follows(DroppedIf(i, n, path), DroppedIf(j, x, path))
<1>1. ASSUME NEW b, NEW c, NEW i, NEW path, path # Null, Steady(b, c)
      PROVE  Steady(b, DroppedIf(i, c, path))
  BY <1>1, DroppedKeeps DEF DroppedIf
<1>2. ASSUME NEW n, NEW x, NEW i, NEW j, NEW path, path # Null, Follows(n, x), Alike(n, x) => i = j
      PROVE  Follows(DroppedIf(i, n, path), DroppedIf(j, x, path))
  <2>1. ASSUME Alike(n, x) PROVE Follows(DroppedIf(i, n, path), DroppedIf(j, x, path))
    BY <1>2, <2>1, DroppedKeeps DEF DroppedIf
  <2> QED BY <1>1, <1>2, <2>1, SteadyAtAll, Keeping
<1> QED BY <1>1, <1>2

LEMMA ChangedKeeps ==
  /\ \A b, c, path, action, v : path # Null /\ Steady(b, c) => Steady(b, Changed(c, path, action, v))
  /\ \A n, x, path, action, v, w : path # Null /\ Follows(n, x) /\ (Alike(n, x) => v = w) =>
       Follows(Changed(n, path, action, v), Changed(x, path, action, w))
<1>1. ASSUME NEW b, NEW c, NEW path, NEW action, NEW v, path # Null, Steady(b, c)
      PROVE  Steady(b, Changed(c, path, action, v))
  <2> DEFINE d == Adapt(c, path, action, c.local[path], v)
  <2>1. Steady(b, d)
    BY <1>1, AdaptKeeps
  <2>2. Steady(b, [d EXCEPT !.local = [d.local EXCEPT ![path] = v]])
    BY <2>1, RelocatedKeeps
  <2> QED BY <2>2 DEF Changed
<1>2. ASSUME NEW n, NEW x, NEW path, NEW action, NEW v, NEW w, path # Null, Follows(n, x),
             Alike(n, x) => v = w
      PROVE  Follows(Changed(n, path, action, v), Changed(x, path, action, w))
  <2> DEFINE m == Adapt(n, path, action, n.local[path], v)
             y == Adapt(x, path, action, x.local[path], w)
  <2>1. ASSUME Alike(n, x) PROVE Follows(Changed(n, path, action, v), Changed(x, path, action, w))
    <3>1. n.local = x.local /\ v = w
      BY <1>2, <2>1, AlikeFields
    <3>2. Follows(m, y)
      BY <1>2, <3>1, AdaptKeeps
    <3> HIDE DEF m, y
    <3>3. Alike(m, y) => m.local = y.local
      BY AlikeFields
    <3>4. Follows([m EXCEPT !.local = [m.local EXCEPT ![path] = v]],
                  [y EXCEPT !.local = [y.local EXCEPT ![path] = w]])
      BY <3>1, <3>2, <3>3, RelocatedKeeps
    <3> QED BY <3>4 DEF Changed, m, y
  <2> QED BY <1>1, <1>2, <2>1, SteadyAtAll, Keeping
<1> QED BY <1>1, <1>2

LEMMA ChangedIfKeeps ==
  /\ \A b, c, i, path, action, v : path # Null /\ Steady(b, c) => Steady(b, ChangedIf(i, c, path, action, v))
  /\ \A n, x, i, j, path, action, v, w :
       path # Null /\ Follows(n, x) /\ (Alike(n, x) => i = j /\ v = w) =>
         Follows(ChangedIf(i, n, path, action, v), ChangedIf(j, x, path, action, w))
<1>1. ASSUME NEW b, NEW c, NEW i, NEW path, NEW action, NEW v, path # Null, Steady(b, c)
      PROVE  Steady(b, ChangedIf(i, c, path, action, v))
  BY <1>1, ChangedKeeps DEF ChangedIf
<1>2. ASSUME NEW n, NEW x, NEW i, NEW j, NEW path, NEW action, NEW v, NEW w, path # Null,
             Follows(n, x), Alike(n, x) => i = j /\ v = w
      PROVE  Follows(ChangedIf(i, n, path, action, v), ChangedIf(j, x, path, action, w))
  <2>1. ASSUME Alike(n, x)
        PROVE  Follows(ChangedIf(i, n, path, action, v), ChangedIf(j, x, path, action, w))
    BY <1>2, <2>1, ChangedKeeps DEF ChangedIf
  <2> QED BY <1>1, <1>2, <2>1, SteadyAtAll, Keeping
<1> QED BY <1>1, <1>2

LEMMA PutAllKeeps ==
  /\ \A b, c, fields : Steady(b, c) => Steady(b, PutAll(c, fields))
  /\ \A n, x, f, g : Follows(n, x) /\ (Alike(n, x) => f = g) => Follows(PutAll(n, f), PutAll(x, g))
<1>1. ASSUME NEW b, NEW c, NEW fields, Steady(b, c) PROVE Steady(b, PutAll(c, fields))
  BY <1>1, RewiredKeeps DEF PutAll
<1>2. ASSUME NEW n, NEW x, NEW f, NEW g, Follows(n, x), Alike(n, x) => f = g
      PROVE  Follows(PutAll(n, f), PutAll(x, g))
  <2>1. ASSUME Alike(n, x) PROVE Follows(PutAll(n, f), PutAll(x, g))
    <3> DEFINE new(fields) == [h \in {k \in DOMAIN fields : fields[k] # Null} |-> fields[h]]
    <3>1. f = g /\ n.failed = x.failed /\ n.wire = x.wire /\ new(f) = new(g)
      BY <1>2, <2>1, AlikeFields
    <3>2. PutAll(n, f) = IF n.failed # Null THEN n ELSE [n EXCEPT !.wire = new(f) @@ n.wire]
      BY DEF PutAll
    <3>3. PutAll(x, g) = IF x.failed # Null THEN x ELSE [x EXCEPT !.wire = new(g) @@ x.wire]
      BY DEF PutAll
    <3> HIDE DEF new
    <3>4. Follows([n EXCEPT !.wire = new(f) @@ n.wire], [x EXCEPT !.wire = new(g) @@ x.wire])
      BY <1>2, <3>1, RewiredKeeps
    <3> QED BY <1>2, <3>1, <3>2, <3>3, <3>4
  <2> QED BY <1>1, <1>2, <2>1, SteadyAtAll, Keeping
<1> QED BY <1>1, <1>2

-----------------------------------------------------------------------------
(* The steps the dialects share.                                          *)
LEMMA EffortClampedKeeps ==
  /\ \A b, c : Steady(b, c) => Steady(b, EffortClamped(c))
  /\ \A n, x : Follows(n, x) => Follows(EffortClamped(n), EffortClamped(x))
<1>1. ASSUME NEW b, NEW c, Steady(b, c) PROVE Steady(b, EffortClamped(c))
  BY <1>1, ChangedIfKeeps, Named DEF EffortClamped, Paths, ReasoningPaths
<1>2. ASSUME NEW n, NEW x, Follows(n, x), Alike(n, x)
      PROVE  Follows(EffortClamped(n), EffortClamped(x))
  BY <1>2, AlikeFields, ChangedIfKeeps, Named DEF EffortClamped, Paths, ReasoningPaths, Asked
<1> QED BY <1>1, <1>2, SteadyAtAll, Keeping

LEMMA SummaryPlainKeeps ==
  /\ \A b, c : Steady(b, c) => Steady(b, SummaryPlain(c))
  /\ \A n, x : Follows(n, x) => Follows(SummaryPlain(n), SummaryPlain(x))
<1>1. ASSUME NEW b, NEW c, Steady(b, c) PROVE Steady(b, SummaryPlain(c))
  BY <1>1, ChangedIfKeeps, Named DEF SummaryPlain, Paths, ReasoningPaths
<1>2. ASSUME NEW n, NEW x, Follows(n, x), Alike(n, x)
      PROVE  Follows(SummaryPlain(n), SummaryPlain(x))
  BY <1>2, AlikeFields, ChangedIfKeeps, Named DEF SummaryPlain, Paths, ReasoningPaths, Asked
<1> QED BY <1>1, <1>2, SteadyAtAll, Keeping

LEMMA UnmeasurableProbabilitiesKeeps ==
  /\ \A b, c : Steady(b, c) => Steady(b, UnmeasurableProbabilities(c))
  /\ \A n, x : Follows(n, x) => Follows(UnmeasurableProbabilities(n), UnmeasurableProbabilities(x))
<1>1. ASSUME NEW b, NEW c, Steady(b, c) PROVE Steady(b, UnmeasurableProbabilities(c))
  BY <1>1, UnsupportedKeeps, DroppedKeeps, Named DEF UnmeasurableProbabilities, Measurable
<1>2. ASSUME NEW n, NEW x, Follows(n, x), Alike(n, x)
      PROVE  Follows(UnmeasurableProbabilities(n), UnmeasurableProbabilities(x))
  BY <1>2, AlikeFields, UnsupportedKeeps, DroppedKeeps, Named
     DEF UnmeasurableProbabilities, Measurable, Asked
<1> QED BY <1>1, <1>2, SteadyAtAll, Keeping

LEMMA CacheFieldsKeeps ==
  /\ \A b, c : Steady(b, c) => Steady(b, CacheFields(c))
  /\ \A n, x : Follows(n, x) => Follows(CacheFields(n), CacheFields(x))
<1>1. ASSUME NEW b, NEW c, Steady(b, c) PROVE Steady(b, CacheFields(c))
  BY <1>1, PutKeeps, PutIfKeeps DEF CacheFields
<1>2. ASSUME NEW n, NEW x, Follows(n, x), Alike(n, x)
      PROVE  Follows(CacheFields(n), CacheFields(x))
  BY <1>2, AlikeFields, PutKeeps, PutIfKeeps DEF CacheFields, Asked
<1> QED BY <1>1, <1>2, SteadyAtAll, Keeping

(* What the arguments of the steps read of a builder. *)
Core(b) == [request |-> b.request, compat |-> b.compat, local |-> b.local]

LEMMA CoreFields ==
  \A b : Core(b).request = b.request /\ Core(b).compat = b.compat /\ Core(b).local = b.local
BY DEF Core

LEMMA AlikeCores == \A n, x : Alike(n, x) => Core(n) = Core(x)
BY DEF Alike, Core

LEMMA AlikeBreakpoints ==
  \A n, x : Alike(n, x) =>
    /\ BreakpointAsked(n) = BreakpointAsked(x) /\ CacheBreakpointIndex(n) = CacheBreakpointIndex(x)
    /\ CacheStablePrefix(n) = CacheStablePrefix(x)
    /\ HasExplicitBreakpoint(n) = HasExplicitBreakpoint(x)
<1>1. \A b : BreakpointAsked(b) = BreakpointAsked(Core(b))
  BY CoreFields DEF BreakpointAsked, Asked
<1>2. \A b : CacheBreakpointIndex(b) = CacheBreakpointIndex(Core(b))
  BY <1>1, CoreFields DEF CacheBreakpointIndex
<1>3. \A b : CacheStablePrefix(b) = CacheStablePrefix(Core(b))
  BY CoreFields DEF CacheStablePrefix, Asked
<1>4. \A b : HasExplicitBreakpoint(b) = HasExplicitBreakpoint(Core(b))
  BY <1>2, <1>3, CoreFields DEF HasExplicitBreakpoint
<1> QED BY <1>1, <1>2, <1>3, <1>4, AlikeCores

LEMMA BreakpointNotedKeeps ==
  /\ \A b, c : Steady(b, c) => Steady(b, BreakpointNoted(c))
  /\ \A n, x : Follows(n, x) => Follows(BreakpointNoted(n), BreakpointNoted(x))
<1>1. ASSUME NEW b, NEW c, Steady(b, c) PROVE Steady(b, BreakpointNoted(c))
  BY <1>1, AdaptKeeps, Named DEF BreakpointNoted, Paths, CachePaths
<1>2. ASSUME NEW n, NEW x, Follows(n, x), Alike(n, x)
      PROVE  Follows(BreakpointNoted(n), BreakpointNoted(x))
  BY <1>2, AlikeFields, AdaptKeeps, Named, AlikeBreakpoints
     DEF BreakpointNoted, Paths, CachePaths, Asked
<1> QED BY <1>1, <1>2, SteadyAtAll, Keeping

LEMMA CacheOptionsKeeps ==
  /\ \A b, c : Steady(b, c) => Steady(b, CacheOptions(c))
  /\ \A n, x : Follows(n, x) => Follows(CacheOptions(n), CacheOptions(x))
<1>1. ASSUME NEW b, NEW c, Steady(b, c) PROVE Steady(b, CacheOptions(c))
  BY <1>1, PutKeeps, BreakpointNotedKeeps DEF CacheOptions, ExplicitOptions
<1>2. ASSUME NEW n, NEW x, Follows(n, x), Alike(n, x)
      PROVE  Follows(CacheOptions(n), CacheOptions(x))
  BY <1>2, AlikeFields, PutKeeps, BreakpointNotedKeeps, AlikeBreakpoints
     DEF CacheOptions, ExplicitOptions, Asked
<1> QED BY <1>1, <1>2, SteadyAtAll, Keeping

LEMMA CacheCommonPayloadKeeps ==
  /\ \A b, c : Steady(b, c) => Steady(b, CacheCommonPayload(c))
  /\ \A n, x : Follows(n, x) => Follows(CacheCommonPayload(n), CacheCommonPayload(x))
<1>1. ASSUME NEW b, NEW c, Steady(b, c) PROVE Steady(b, CacheCommonPayload(c))
  BY <1>1, UnsupportedIfKeeps, CacheOptionsKeeps, CacheFieldsKeeps, DroppedKeeps,
     DroppedIfKeeps, Named
     DEF CacheCommonPayload, Paths, CachePaths
<1>2. ASSUME NEW n, NEW x, Follows(n, x), Alike(n, x)
      PROVE  Follows(CacheCommonPayload(n), CacheCommonPayload(x))
  BY <1>2, AlikeFields, UnsupportedIfKeeps, CacheOptionsKeeps, CacheFieldsKeeps, DroppedKeeps,
     DroppedIfKeeps, Named
     DEF CacheCommonPayload, Paths, CachePaths, Asked
<1> QED BY <1>1, <1>2, SteadyAtAll, Keeping

LEMMA PutAskedKeeps ==
  /\ \A b, c, path : Steady(b, c) => Steady(b, PutAsked(c, path))
  /\ \A n, x, path : Follows(n, x) => Follows(PutAsked(n, path), PutAsked(x, path))
<1>1. ASSUME NEW b, NEW c, NEW path, Steady(b, c) PROVE Steady(b, PutAsked(c, path))
  BY <1>1, PutKeeps DEF PutAsked
<1>2. ASSUME NEW n, NEW x, NEW path, Follows(n, x), Alike(n, x)
      PROVE  Follows(PutAsked(n, path), PutAsked(x, path))
  BY <1>2, AlikeFields, PutKeeps DEF PutAsked, Asked
<1> QED BY <1>1, <1>2, SteadyAtAll, Keeping

LEMMA PutLocalKeeps ==
  /\ \A b, c, path : Steady(b, c) => Steady(b, PutLocal(c, path))
  /\ \A n, x, path : Follows(n, x) => Follows(PutLocal(n, path), PutLocal(x, path))
<1>1. ASSUME NEW b, NEW c, NEW path, Steady(b, c) PROVE Steady(b, PutLocal(c, path))
  BY <1>1, PutKeeps DEF PutLocal
<1>2. ASSUME NEW n, NEW x, NEW path, Follows(n, x), Alike(n, x)
      PROVE  Follows(PutLocal(n, path), PutLocal(x, path))
  BY <1>2, AlikeFields, PutKeeps DEF PutLocal, Asked
<1> QED BY <1>1, <1>2, SteadyAtAll, Keeping

LEMMA AllDroppedKeeps ==
  ASSUME NEW k \in Nat, NEW seq, DOMAIN seq = 1..k, \A i \in 1..k : seq[i] # Null
  PROVE  /\ \A b, c : Steady(b, c) => Steady(b, FoldLeft(Dropped, c, seq))
         /\ \A n, x : Follows(n, x) => Follows(FoldLeft(Dropped, n, seq), FoldLeft(Dropped, x, seq))
<1>1. \A b : FoldLeft(Dropped, b, seq) = Drops!Folded(b, seq)
  BY Zenon
     DEF FoldLeft, MapThenFoldSet, Max, Drops!Folded, Drops!FoldLeft, Drops!MapThenFoldSet,
               Drops!Max
<1>2. ASSUME NEW b, NEW c, Steady(b, c) PROVE Steady(b, FoldLeft(Dropped, c, seq))
  <2>1. PICK h : /\ h[0] = c
                 /\ \A i \in 1..k : h[i] = Dropped(h[i - 1], seq[i])
                 /\ h[k] = Drops!Folded(c, seq)
    BY Drops!FoldTrace
  <2> DEFINE A == {i \in Nat : i <= k => Steady(b, h[i])}
  <2>2. 0 \in A
    BY <1>2, <2>1
  <2>3. ASSUME NEW i \in Nat, i \in A PROVE i + 1 \in A
    <3> SUFFICES ASSUME i + 1 <= k PROVE Steady(b, h[i + 1])
      OBVIOUS
    <3>1. i + 1 \in 1..k /\ (i + 1) - 1 = i /\ i <= k
      OBVIOUS
    <3>2. Steady(b, h[i]) /\ h[i + 1] = Dropped(h[i], seq[i + 1]) /\ seq[i + 1] # Null
      BY <2>1, <2>3, <3>1
    <3> QED BY <3>2, DroppedKeeps
  <2> HIDE DEF A
  <2>4. k \in A
    BY <2>2, <2>3, Drops!SetInduction
  <2> QED BY <1>1, <2>1, <2>4 DEF A
<1>3. ASSUME NEW n, NEW x, Follows(n, x)
      PROVE  Follows(FoldLeft(Dropped, n, seq), FoldLeft(Dropped, x, seq))
  <2>1. PICK h : /\ h[0] = n
                 /\ \A i \in 1..k : h[i] = Dropped(h[i - 1], seq[i])
                 /\ h[k] = Drops!Folded(n, seq)
    BY Drops!FoldTrace
  <2>2. PICK g : /\ g[0] = x
                 /\ \A i \in 1..k : g[i] = Dropped(g[i - 1], seq[i])
                 /\ g[k] = Drops!Folded(x, seq)
    BY Drops!FoldTrace
  <2> DEFINE A == {i \in Nat : i <= k => Follows(h[i], g[i])}
  <2>3. 0 \in A
    BY <1>3, <2>1, <2>2
  <2>4. ASSUME NEW i \in Nat, i \in A PROVE i + 1 \in A
    <3> SUFFICES ASSUME i + 1 <= k PROVE Follows(h[i + 1], g[i + 1])
      OBVIOUS
    <3>1. i + 1 \in 1..k /\ (i + 1) - 1 = i /\ i <= k
      OBVIOUS
    <3>2. /\ Follows(h[i], g[i]) /\ h[i + 1] = Dropped(h[i], seq[i + 1])
          /\ g[i + 1] = Dropped(g[i], seq[i + 1]) /\ seq[i + 1] # Null
      BY <2>1, <2>2, <2>4, <3>1
    <3> QED BY <3>2, DroppedKeeps
  <2> HIDE DEF A
  <2>5. k \in A
    BY <2>3, <2>4, Drops!SetInduction
  <2> QED BY <1>1, <2>1, <2>2, <2>5 DEF A
<1> QED BY <1>2, <1>3

LEMMA AllPutAskedKeeps ==
  ASSUME NEW k \in Nat, NEW seq, DOMAIN seq = 1..k
  PROVE  /\ \A b, c : Steady(b, c) => Steady(b, FoldLeft(PutAsked, c, seq))
         /\ \A n, x : Follows(n, x) => Follows(FoldLeft(PutAsked, n, seq), FoldLeft(PutAsked, x, seq))
<1>1. \A b : FoldLeft(PutAsked, b, seq) = PutsAsked!Folded(b, seq)
  BY Zenon
     DEF FoldLeft, MapThenFoldSet, Max, PutsAsked!Folded, PutsAsked!FoldLeft,
         PutsAsked!MapThenFoldSet,
               PutsAsked!Max
<1>2. ASSUME NEW b, NEW c, Steady(b, c) PROVE Steady(b, FoldLeft(PutAsked, c, seq))
  <2>1. PICK h : /\ h[0] = c
                 /\ \A i \in 1..k : h[i] = PutAsked(h[i - 1], seq[i])
                 /\ h[k] = PutsAsked!Folded(c, seq)
    BY PutsAsked!FoldTrace
  <2> DEFINE A == {i \in Nat : i <= k => Steady(b, h[i])}
  <2>2. 0 \in A
    BY <1>2, <2>1
  <2>3. ASSUME NEW i \in Nat, i \in A PROVE i + 1 \in A
    <3> SUFFICES ASSUME i + 1 <= k PROVE Steady(b, h[i + 1])
      OBVIOUS
    <3>1. i + 1 \in 1..k /\ (i + 1) - 1 = i /\ i <= k
      OBVIOUS
    <3>2. Steady(b, h[i]) /\ h[i + 1] = PutAsked(h[i], seq[i + 1])
      BY <2>1, <2>3, <3>1
    <3> QED BY <3>2, PutAskedKeeps
  <2> HIDE DEF A
  <2>4. k \in A
    BY <2>2, <2>3, PutsAsked!SetInduction
  <2> QED BY <1>1, <2>1, <2>4 DEF A
<1>3. ASSUME NEW n, NEW x, Follows(n, x)
      PROVE  Follows(FoldLeft(PutAsked, n, seq), FoldLeft(PutAsked, x, seq))
  <2>1. PICK h : /\ h[0] = n
                 /\ \A i \in 1..k : h[i] = PutAsked(h[i - 1], seq[i])
                 /\ h[k] = PutsAsked!Folded(n, seq)
    BY PutsAsked!FoldTrace
  <2>2. PICK g : /\ g[0] = x
                 /\ \A i \in 1..k : g[i] = PutAsked(g[i - 1], seq[i])
                 /\ g[k] = PutsAsked!Folded(x, seq)
    BY PutsAsked!FoldTrace
  <2> DEFINE A == {i \in Nat : i <= k => Follows(h[i], g[i])}
  <2>3. 0 \in A
    BY <1>3, <2>1, <2>2
  <2>4. ASSUME NEW i \in Nat, i \in A PROVE i + 1 \in A
    <3> SUFFICES ASSUME i + 1 <= k PROVE Follows(h[i + 1], g[i + 1])
      OBVIOUS
    <3>1. i + 1 \in 1..k /\ (i + 1) - 1 = i /\ i <= k
      OBVIOUS
    <3>2. /\ Follows(h[i], g[i]) /\ h[i + 1] = PutAsked(h[i], seq[i + 1])
          /\ g[i + 1] = PutAsked(g[i], seq[i + 1])
      BY <2>1, <2>2, <2>4, <3>1
    <3> QED BY <3>2, PutAskedKeeps
  <2> HIDE DEF A
  <2>5. k \in A
    BY <2>3, <2>4, PutsAsked!SetInduction
  <2> QED BY <1>1, <2>1, <2>2, <2>5 DEF A
<1> QED BY <1>2, <1>3

LEMMA AllPutLocalKeeps ==
  ASSUME NEW k \in Nat, NEW seq, DOMAIN seq = 1..k
  PROVE  /\ \A b, c : Steady(b, c) => Steady(b, FoldLeft(PutLocal, c, seq))
         /\ \A n, x : Follows(n, x) => Follows(FoldLeft(PutLocal, n, seq), FoldLeft(PutLocal, x, seq))
<1>1. \A b : FoldLeft(PutLocal, b, seq) = PutsLocal!Folded(b, seq)
  BY Zenon
     DEF FoldLeft, MapThenFoldSet, Max, PutsLocal!Folded, PutsLocal!FoldLeft,
         PutsLocal!MapThenFoldSet,
               PutsLocal!Max
<1>2. ASSUME NEW b, NEW c, Steady(b, c) PROVE Steady(b, FoldLeft(PutLocal, c, seq))
  <2>1. PICK h : /\ h[0] = c
                 /\ \A i \in 1..k : h[i] = PutLocal(h[i - 1], seq[i])
                 /\ h[k] = PutsLocal!Folded(c, seq)
    BY PutsLocal!FoldTrace
  <2> DEFINE A == {i \in Nat : i <= k => Steady(b, h[i])}
  <2>2. 0 \in A
    BY <1>2, <2>1
  <2>3. ASSUME NEW i \in Nat, i \in A PROVE i + 1 \in A
    <3> SUFFICES ASSUME i + 1 <= k PROVE Steady(b, h[i + 1])
      OBVIOUS
    <3>1. i + 1 \in 1..k /\ (i + 1) - 1 = i /\ i <= k
      OBVIOUS
    <3>2. Steady(b, h[i]) /\ h[i + 1] = PutLocal(h[i], seq[i + 1])
      BY <2>1, <2>3, <3>1
    <3> QED BY <3>2, PutLocalKeeps
  <2> HIDE DEF A
  <2>4. k \in A
    BY <2>2, <2>3, PutsLocal!SetInduction
  <2> QED BY <1>1, <2>1, <2>4 DEF A
<1>3. ASSUME NEW n, NEW x, Follows(n, x)
      PROVE  Follows(FoldLeft(PutLocal, n, seq), FoldLeft(PutLocal, x, seq))
  <2>1. PICK h : /\ h[0] = n
                 /\ \A i \in 1..k : h[i] = PutLocal(h[i - 1], seq[i])
                 /\ h[k] = PutsLocal!Folded(n, seq)
    BY PutsLocal!FoldTrace
  <2>2. PICK g : /\ g[0] = x
                 /\ \A i \in 1..k : g[i] = PutLocal(g[i - 1], seq[i])
                 /\ g[k] = PutsLocal!Folded(x, seq)
    BY PutsLocal!FoldTrace
  <2> DEFINE A == {i \in Nat : i <= k => Follows(h[i], g[i])}
  <2>3. 0 \in A
    BY <1>3, <2>1, <2>2
  <2>4. ASSUME NEW i \in Nat, i \in A PROVE i + 1 \in A
    <3> SUFFICES ASSUME i + 1 <= k PROVE Follows(h[i + 1], g[i + 1])
      OBVIOUS
    <3>1. i + 1 \in 1..k /\ (i + 1) - 1 = i /\ i <= k
      OBVIOUS
    <3>2. /\ Follows(h[i], g[i]) /\ h[i + 1] = PutLocal(h[i], seq[i + 1])
          /\ g[i + 1] = PutLocal(g[i], seq[i + 1])
      BY <2>1, <2>2, <2>4, <3>1
    <3> QED BY <3>2, PutLocalKeeps
  <2> HIDE DEF A
  <2>5. k \in A
    BY <2>3, <2>4, PutsLocal!SetInduction
  <2> QED BY <1>1, <2>1, <2>2, <2>5 DEF A
<1> QED BY <1>2, <1>3

-----------------------------------------------------------------------------
(* Anthropic.                                                              *)
LEMMA AnthropicMessagesKeeps ==
  /\ \A b, c : Steady(b, c) => Steady(b, AnthropicMessages(c))
  /\ \A n, x : Follows(n, x) => Follows(AnthropicMessages(n), AnthropicMessages(x))
<1> DEFINE refused(b) ==
             \/ MessageMediaRefused(b.request.messages, "anthropic")
             \/ b.compat.serves # Null /\ b.request.model \notin b.compat.serves
             \/ ResultMediaRefused(b.request.messages, b.compat.toolResultMedia)
             \/ \E m \in ToSet(b.request.messages) : m.role = "developer" /\ HasMedia(m.parts)
           rows(b) == [i \in DOMAIN b.request.messages |->
                        AnthropicMessage(b.request.messages[i], b.compat)]
<1>1. \A b : AnthropicMessages(b) =
               Put(UnsupportedIf(refused(b), b, "messages"), "messages", rows(b))
  BY DEF AnthropicMessages
<1>2. \A b : refused(b) = refused(Core(b)) /\ rows(b) = rows(Core(b))
  BY CoreFields
<1> HIDE DEF refused, rows
<1>3. ASSUME NEW b, NEW c, Steady(b, c) PROVE Steady(b, AnthropicMessages(c))
  BY <1>1, <1>3, PutKeeps, UnsupportedIfKeeps, Named
<1>4. ASSUME NEW n, NEW x, Follows(n, x), Alike(n, x)
      PROVE  Follows(AnthropicMessages(n), AnthropicMessages(x))
  <2>1. refused(n) = refused(x) /\ rows(n) = rows(x)
    BY <1>2, <1>4, AlikeCores
  <2> QED BY <1>1, <1>4, <2>1, PutKeeps, UnsupportedIfKeeps, Named
<1> QED BY <1>3, <1>4, SteadyAtAll, Keeping

LEMMA AnthropicMarksKeeps ==
  /\ \A b, c : Steady(b, c) => Steady(b, AnthropicMarks(c))
  /\ \A n, x : Follows(n, x) => Follows(AnthropicMarks(n), AnthropicMarks(x))
<1> DEFINE marked(b) ==
      [b.wire EXCEPT !["messages"] = MarkRow(b.wire["messages"], MarkedMessage(b), CacheMark(b))]
<1>1. \A b : AnthropicMarks(b) =
               IF b.failed # Null \/ MarkedMessage(b) = 0 THEN b ELSE [b EXCEPT !.wire = marked(b)]
  BY DEF AnthropicMarks
<1>2. \A n, x : Alike(n, x) => MarkedMessage(n) = MarkedMessage(x) /\ CacheMark(n) = CacheMark(x)
  <2>1. \A b : MarkedMessage(b) = MarkedMessage(Core(b))
    BY CoreFields DEF MarkedMessage, UsesCache, TakesMarks, Asked
  <2>2. \A b : CacheMark(b) = CacheMark(Core(b))
    BY CoreFields DEF CacheMark, Asked
  <2> QED BY <2>1, <2>2, AlikeCores
<1>3. \A n, x : Alike(n, x) => marked(n) = marked(x)
  BY <1>2, AlikeFields
<1> HIDE DEF marked
<1>4. ASSUME NEW b, NEW c, Steady(b, c) PROVE Steady(b, AnthropicMarks(c))
  BY <1>1, <1>4, RewiredKeeps
<1>5. ASSUME NEW n, NEW x, Follows(n, x), Alike(n, x)
      PROVE  Follows(AnthropicMarks(n), AnthropicMarks(x))
  <2>1. MarkedMessage(n) = MarkedMessage(x) /\ marked(n) = marked(x) /\ n.failed = x.failed
    BY <1>2, <1>3, <1>5, AlikeFields
  <2> QED BY <1>1, <1>5, <2>1, RewiredKeeps
<1> QED BY <1>4, <1>5, SteadyAtAll, Keeping

LEMMA AnthropicCacheKeeps ==
  /\ \A b, c : Steady(b, c) => Steady(b, AnthropicCache(c))
  /\ \A n, x : Follows(n, x) => Follows(AnthropicCache(n), AnthropicCache(x))
<1>1. ASSUME NEW b, NEW c, Steady(b, c) PROVE Steady(b, AnthropicCache(c))
  BY <1>1, AnthropicMarksKeeps, UnsupportedIfKeeps, DroppedIfKeeps, DroppedKeeps, Named
     DEF AnthropicCache, TakesMarks, Paths, CachePaths
<1>2. ASSUME NEW n, NEW x, Follows(n, x), Alike(n, x)
      PROVE  Follows(AnthropicCache(n), AnthropicCache(x))
  BY <1>2, AlikeFields, AnthropicMarksKeeps, UnsupportedIfKeeps, DroppedIfKeeps, DroppedKeeps,
     Named
     DEF AnthropicCache, TakesMarks, Paths, CachePaths, Asked
<1> QED BY <1>1, <1>2, SteadyAtAll, Keeping

LEMMA AlikeBudgets ==
  \A n, x : Alike(n, x) =>
    BudgetOf(n) = BudgetOf(x) /\ ThinkingOn(n) = ThinkingOn(x) /\ TakesEffort(n) = TakesEffort(x)
BY AlikeFields DEF BudgetOf, ThinkingOn, TakesEffort

LEMMA AnthropicEffortKeeps ==
  /\ \A b, c : Steady(b, c) => Steady(b, AnthropicEffort(c))
  /\ \A n, x : Follows(n, x) => Follows(AnthropicEffort(n), AnthropicEffort(x))
<1>1. ASSUME NEW b, NEW c, Steady(b, c) PROVE Steady(b, AnthropicEffort(c))
  BY <1>1, ChangedIfKeeps, DroppedKeeps, Named DEF AnthropicEffort, Paths, ReasoningPaths
<1>2. ASSUME NEW n, NEW x, Follows(n, x), Alike(n, x)
      PROVE  Follows(AnthropicEffort(n), AnthropicEffort(x))
  BY <1>2, AlikeFields, ChangedIfKeeps, DroppedKeeps, Named
     DEF AnthropicEffort, Paths, ReasoningPaths, Asked
<1> QED BY <1>1, <1>2, SteadyAtAll, Keeping

LEMMA AnthropicReasoningKeeps ==
  /\ \A b, c : Steady(b, c) => Steady(b, AnthropicReasoning(c))
  /\ \A n, x : Follows(n, x) => Follows(AnthropicReasoning(n), AnthropicReasoning(x))
<1>1. ASSUME NEW b, NEW c, Steady(b, c) PROVE Steady(b, AnthropicReasoning(c))
  BY <1>1, AnthropicEffortKeeps, SummaryPlainKeeps, EffortClampedKeeps DEF AnthropicReasoning
<1>2. ASSUME NEW n, NEW x, Follows(n, x), Alike(n, x)
      PROVE  Follows(AnthropicReasoning(n), AnthropicReasoning(x))
  BY <1>2, AlikeFields, AnthropicEffortKeeps, SummaryPlainKeeps, EffortClampedKeeps,
     AlikeBudgets
     DEF AnthropicReasoning
<1> QED BY <1>1, <1>2, SteadyAtAll, Keeping

LEMMA AnthropicLimitKeeps ==
  /\ \A b, c : Steady(b, c) => Steady(b, AnthropicLimit(c))
  /\ \A n, x : Follows(n, x) => Follows(AnthropicLimit(n), AnthropicLimit(x))
<1>1. ASSUME NEW b, NEW c, Steady(b, c) PROVE Steady(b, AnthropicLimit(c))
  BY <1>1, AdaptKeeps, PutKeeps, Named DEF AnthropicLimit, Limited, Paths, SamplingPaths
<1>2. ASSUME NEW n, NEW x, Follows(n, x), Alike(n, x)
      PROVE  Follows(AnthropicLimit(n), AnthropicLimit(x))
  BY <1>2, AlikeFields, AdaptKeeps, PutKeeps, Named, AlikeBudgets
     DEF AnthropicLimit, Limited, Paths, SamplingPaths, Asked
<1> QED BY <1>1, <1>2, SteadyAtAll, Keeping

LEMMA AnthropicThinkingKeeps ==
  /\ \A b, c : Steady(b, c) => Steady(b, AnthropicThinking(c))
  /\ \A n, x : Follows(n, x) => Follows(AnthropicThinking(n), AnthropicThinking(x))
<1>1. ASSUME NEW b, NEW c, Steady(b, c) PROVE Steady(b, AnthropicThinking(c))
  BY <1>1, PutIfKeeps, PutKeeps DEF AnthropicThinking
<1>2. ASSUME NEW n, NEW x, Follows(n, x), Alike(n, x)
      PROVE  Follows(AnthropicThinking(n), AnthropicThinking(x))
  BY <1>2, AlikeFields, PutIfKeeps, PutKeeps, AlikeBudgets DEF AnthropicThinking, Asked
<1> QED BY <1>1, <1>2, SteadyAtAll, Keeping

LEMMA AnthropicSystemKeeps ==
  /\ \A b, c : Steady(b, c) => Steady(b, AnthropicSystem(c))
  /\ \A n, x : Follows(n, x) => Follows(AnthropicSystem(n), AnthropicSystem(x))
<1>1. ASSUME NEW b, NEW c, Steady(b, c) PROVE Steady(b, AnthropicSystem(c))
  BY <1>1, PutIfKeeps DEF AnthropicSystem, UsesCache, TakesMarks, CacheMark
<1>2. ASSUME NEW n, NEW x, Follows(n, x), Alike(n, x)
      PROVE  Follows(AnthropicSystem(n), AnthropicSystem(x))
  BY <1>2, AlikeFields, PutIfKeeps
     DEF AnthropicSystem, UsesCache, TakesMarks, CacheMark, Asked
<1> QED BY <1>1, <1>2, SteadyAtAll, Keeping

LEMMA AnthropicTemperatureKeeps ==
  /\ \A b, c : Steady(b, c) => Steady(b, AnthropicTemperature(c))
  /\ \A n, x : Follows(n, x) => Follows(AnthropicTemperature(n), AnthropicTemperature(x))
<1>1. ASSUME NEW b, NEW c, Steady(b, c) PROVE Steady(b, AnthropicTemperature(c))
  BY <1>1, ChangedIfKeeps, Named DEF AnthropicTemperature, Paths, SamplingPaths
<1>2. ASSUME NEW n, NEW x, Follows(n, x), Alike(n, x)
      PROVE  Follows(AnthropicTemperature(n), AnthropicTemperature(x))
  BY <1>2, AlikeFields, ChangedIfKeeps, Named
     DEF AnthropicTemperature, Paths, SamplingPaths, Asked
<1> QED BY <1>1, <1>2, SteadyAtAll, Keeping

LEMMA AnthropicSamplingKeeps ==
  /\ \A b, c : Steady(b, c) => Steady(b, AnthropicSampling(c))
  /\ \A n, x : Follows(n, x) => Follows(AnthropicSampling(n), AnthropicSampling(x))
<1> DEFINE hints == <<"seed", "frequency_penalty", "presence_penalty">>
           taken == <<"temperature", "top_p", "top_k">>
           left(b) == IF b.compat.samplingParams = "reject" THEN taken \o hints ELSE hints
           after(b) == FoldLeft(PutLocal, AnthropicTemperature(FoldLeft(Dropped, b, left(b))), taken)
<1>1. \A b : AnthropicSampling(b) = Put(after(b), "stop_sequences", Asked(b, "stop"))
  BY DEF AnthropicSampling
<1>2. DOMAIN taken = 1..3 /\ DOMAIN hints = 1..3 /\ DOMAIN (taken \o hints) = 1..6
  OBVIOUS
<1>3. /\ \A i \in 1..3 : hints[i] # Null
      /\ \A i \in 1..6 : (taken \o hints)[i] # Null
  BY Named DEF Paths, SamplingPaths
<1> HIDE DEF taken, hints
<1>4. /\ \A b, c : Steady(b, c) => Steady(b, FoldLeft(Dropped, c, hints))
      /\ \A n, x : Follows(n, x) => Follows(FoldLeft(Dropped, n, hints), FoldLeft(Dropped, x, hints))
  BY <1>2, <1>3, AllDroppedKeeps
<1>5. /\ \A b, c : Steady(b, c) => Steady(b, FoldLeft(Dropped, c, taken \o hints))
      /\ \A n, x : Follows(n, x) =>
           Follows(FoldLeft(Dropped, n, taken \o hints), FoldLeft(Dropped, x, taken \o hints))
  BY <1>2, <1>3, AllDroppedKeeps
<1>6. /\ \A b, c : Steady(b, c) => Steady(b, FoldLeft(PutLocal, c, taken))
      /\ \A n, x : Follows(n, x) => Follows(FoldLeft(PutLocal, n, taken), FoldLeft(PutLocal, x, taken))
  BY <1>2, AllPutLocalKeeps
<1>7. \A b, c : Steady(b, c) => Steady(b, after(c))
  BY <1>4, <1>5, <1>6, AnthropicTemperatureKeeps
<1>8. \A n, x : Follows(n, x) /\ Alike(n, x) => Follows(after(n), after(x))
  <2>1. \A n, x : Alike(n, x) => left(n) = left(x)
    BY AlikeFields
  <2> QED BY <1>4, <1>5, <1>6, <2>1, AnthropicTemperatureKeeps
<1> HIDE DEF after
<1>9. ASSUME NEW b, NEW c, Steady(b, c) PROVE Steady(b, AnthropicSampling(c))
  BY <1>1, <1>7, <1>9, PutKeeps
<1>10. ASSUME NEW n, NEW x, Follows(n, x), Alike(n, x)
       PROVE  Follows(AnthropicSampling(n), AnthropicSampling(x))
  BY <1>1, <1>8, <1>10, PutKeeps, AlikeFields DEF Asked
<1> QED BY <1>9, <1>10, SteadyAtAll, Keeping

LEMMA AnthropicToolsKeeps ==
  /\ \A b, c : Steady(b, c) => Steady(b, AnthropicTools(c))
  /\ \A n, x : Follows(n, x) => Follows(AnthropicTools(n), AnthropicTools(x))
<1> DEFINE sent(b) == SentTools(b, AllowedSubset(b))
<1>1. \A b : AnthropicTools(b) =
        CASE b.request.tools = <<>> -> b
          [] b.request.tools # <<>> /\ AllowedSubset(b) = Null -> Put(b, "tools", b.request.tools)
          [] OTHER -> Put(Changed(b, "tool_choice.allowed", "client_side", sent(b)), "tools", sent(b))
  BY DEF AnthropicTools
<1>2. \A n, x : Alike(n, x) => AllowedSubset(n) = AllowedSubset(x) /\ sent(n) = sent(x)
  <2>1. \A b : AllowedSubset(b) = AllowedSubset(Core(b))
    BY CoreFields DEF AllowedSubset, Asked
  <2>2. \A b, allowed : SentTools(b, allowed) = SentTools(Core(b), allowed)
    BY CoreFields DEF SentTools
  <2> QED BY <2>1, <2>2, AlikeCores
<1> HIDE DEF sent
<1>3. ASSUME NEW b, NEW c, Steady(b, c) PROVE Steady(b, AnthropicTools(c))
  BY <1>1, <1>3, PutKeeps, ChangedKeeps, Named DEF Paths, ChoicePaths
<1>4. ASSUME NEW n, NEW x, Follows(n, x), Alike(n, x)
      PROVE  Follows(AnthropicTools(n), AnthropicTools(x))
  BY <1>1, <1>2, <1>4, AlikeFields, PutKeeps, ChangedKeeps, Named DEF Paths, ChoicePaths
<1> QED BY <1>3, <1>4, SteadyAtAll, Keeping

LEMMA AlikeChoices ==
  \A n, x : Alike(n, x) => ForcedTool(n) = ForcedTool(x) /\ ChoiceType(n) = ChoiceType(x)
BY AlikeFields DEF ForcedTool, ChoiceType, Asked

LEMMA AnthropicToolChoiceKeeps ==
  /\ \A b, c : Steady(b, c) => Steady(b, AnthropicToolChoice(c))
  /\ \A n, x : Follows(n, x) => Follows(AnthropicToolChoice(n), AnthropicToolChoice(x))
<1> DEFINE rejects(b) == b.compat.parallelToolCalls = "reject"
           single(b) == b.local["tool_choice.parallel"] = FALSE /\ b.compat.parallelToolCalls = "send"
           chosen(b) == DroppedIf(rejects(b), b, "tool_choice.parallel")
           put(b) == Put(Put(PutIf(single(b), chosen(b), "tool_choice.disable_parallel_tool_use", TRUE),
                             "tool_choice.type", ChoiceType(b)), "tool_choice.name", ForcedTool(b))
<1>1. \A b : AnthropicToolChoice(b) = IF Asked(b, "tool_choice.mode") = Null THEN b ELSE put(b)
  BY DEF AnthropicToolChoice
<1>2. "tool_choice.parallel" # Null
  BY Named DEF Paths, ChoicePaths
<1>3. ASSUME NEW b, NEW c, Steady(b, c) PROVE Steady(b, put(c))
  BY <1>2, <1>3, DroppedIfKeeps, PutIfKeeps, PutKeeps
<1>4. ASSUME NEW n, NEW x, Follows(n, x), Alike(n, x) PROVE Follows(put(n), put(x))
  <2>1. rejects(n) = rejects(x) /\ single(n) = single(x)
    BY <1>4, AlikeFields
  <2> HIDE DEF rejects, single
  <2>2. Follows(chosen(n), chosen(x))
    BY <1>2, <1>4, <2>1, DroppedIfKeeps
  <2> HIDE DEF chosen
  <2> QED BY <1>4, <2>1, <2>2, AlikeChoices, PutIfKeeps, PutKeeps
<1> HIDE DEF put
<1>5. ASSUME NEW b, NEW c, Steady(b, c) PROVE Steady(b, AnthropicToolChoice(c))
  BY <1>1, <1>3, <1>5
<1>6. ASSUME NEW n, NEW x, Follows(n, x), Alike(n, x)
      PROVE  Follows(AnthropicToolChoice(n), AnthropicToolChoice(x))
  <2>1. Asked(n, "tool_choice.mode") = Asked(x, "tool_choice.mode")
    BY <1>6, AlikeFields DEF Asked
  <2> QED BY <1>1, <1>4, <1>6, <2>1
<1> QED BY <1>5, <1>6, SteadyAtAll, Keeping

LEMMA AnthropicFormatKeeps ==
  /\ \A b, c : Steady(b, c) => Steady(b, AnthropicFormat(c))
  /\ \A n, x : Follows(n, x) => Follows(AnthropicFormat(n), AnthropicFormat(x))
<1>1. ASSUME NEW b, NEW c, Steady(b, c) PROVE Steady(b, AnthropicFormat(c))
  BY <1>1, PutKeeps, DroppedKeeps, UnsupportedIfKeeps, UnmeasurableProbabilitiesKeeps, Named
     DEF AnthropicFormat, OutputConfig
<1>2. ASSUME NEW n, NEW x, Follows(n, x), Alike(n, x)
      PROVE  Follows(AnthropicFormat(n), AnthropicFormat(x))
  <2>1. /\ Asked(n, "response_format") = Asked(x, "response_format")
        /\ n.compat = x.compat
    BY <1>2, AlikeFields DEF Asked
  <2>2. Follows(UnmeasurableProbabilities(n), UnmeasurableProbabilities(x))
    BY <1>2, UnmeasurableProbabilitiesKeeps
  <2> QED BY <1>2, <2>1, <2>2, PutKeeps, DroppedKeeps, UnsupportedIfKeeps, Named
          DEF AnthropicFormat, OutputConfig
<1> QED BY <1>1, <1>2, SteadyAtAll, Keeping

LEMMA AnthropicStoreKeeps ==
  /\ \A b, c : Steady(b, c) => Steady(b, AnthropicStore(c))
  /\ \A n, x : Follows(n, x) => Follows(AnthropicStore(n), AnthropicStore(x))
<1>1. ASSUME NEW b, NEW c, Steady(b, c) PROVE Steady(b, AnthropicStore(c))
  BY <1>1, AdaptKeeps, DroppedKeeps, Named DEF AnthropicStore
<1>2. ASSUME NEW n, NEW x, Follows(n, x), Alike(n, x)
      PROVE  Follows(AnthropicStore(n), AnthropicStore(x))
  BY <1>2, AlikeFields, AdaptKeeps, DroppedKeeps, Named DEF AnthropicStore, Asked
<1> QED BY <1>1, <1>2, SteadyAtAll, Keeping

LEMMA AnthropicRestKeeps ==
  /\ \A b, c : Steady(b, c) => Steady(b, AnthropicRest(c))
  /\ \A n, x : Follows(n, x) => Follows(AnthropicRest(n), AnthropicRest(x))
<1>1. ASSUME NEW b, NEW c, Steady(b, c) PROVE Steady(b, AnthropicRest(c))
  BY <1>1, PutKeeps, AnthropicStoreKeeps, DroppedKeeps, Named DEF AnthropicRest
<1>2. ASSUME NEW n, NEW x, Follows(n, x), Alike(n, x)
      PROVE  Follows(AnthropicRest(n), AnthropicRest(x))
  BY <1>2, AlikeFields, PutKeeps, AnthropicStoreKeeps, DroppedKeeps, Named
     DEF AnthropicRest, Asked
<1> QED BY <1>1, <1>2, SteadyAtAll, Keeping

LEMMA AnthropicBuildKeeps ==
  /\ \A b, c : Steady(b, c) => Steady(b, AnthropicBuild(c))
  /\ \A n, x : Follows(n, x) => Follows(AnthropicBuild(n), AnthropicBuild(x))
BY AnthropicMessagesKeeps, AnthropicCacheKeeps, AnthropicReasoningKeeps, AnthropicLimitKeeps,
   AnthropicSystemKeeps, AnthropicSamplingKeeps, AnthropicToolsKeeps, AnthropicToolChoiceKeeps,
   AnthropicThinkingKeeps, AnthropicFormatKeeps, AnthropicRestKeeps DEF AnthropicBuild

-----------------------------------------------------------------------------
(* Gemini.                                                                 *)
LEMMA GeminiCacheKeeps ==
  /\ \A b, c : Steady(b, c) => Steady(b, GeminiCache(c))
  /\ \A n, x : Follows(n, x) => Follows(GeminiCache(n), GeminiCache(x))
<1>1. ASSUME NEW b, NEW c, Steady(b, c) PROVE Steady(b, GeminiCache(c))
  BY <1>1, DroppedIfKeeps, DroppedKeeps, Named DEF GeminiCache, Paths, CachePaths
<1>2. ASSUME NEW n, NEW x, Follows(n, x), Alike(n, x)
      PROVE  Follows(GeminiCache(n), GeminiCache(x))
  BY <1>2, AlikeFields, DroppedIfKeeps, DroppedKeeps, Named
     DEF GeminiCache, Paths, CachePaths, Asked
<1> QED BY <1>1, <1>2, SteadyAtAll, Keeping

LEMMA GeminiContentsKeeps ==
  /\ \A b, c : Steady(b, c) => Steady(b, GeminiContents(c))
  /\ \A n, x : Follows(n, x) => Follows(GeminiContents(n), GeminiContents(x))
<1> DEFINE sent(b) == SubSeq(b.request.messages, StoredMessages(b) + 1, Len(b.request.messages))
           refused(b) ==
             \/ sent(b) = <<>>
             \/ ResultMediaRefused(sent(b), "native")
             \/ \E m \in ToSet(sent(b)) : m.role = "developer" /\ HasMedia(m.parts)
             \/ \E m \in ToSet(sent(b)) : \E part \in ToSet(m.parts) :
                  Unnamed(part, CallIds(b.request.messages))
           rows(b) == [i \in DOMAIN sent(b) |-> GeminiMessage(sent(b)[i])]
           told(b) == b.request.system # Null /\ GeminiResource(b) = Null
           system(b) == <<TextBlock(b.request.system)>>
<1>1. \A b : GeminiContents(b) =
        PutIf(told(b), Put(Put(UnsupportedIf(refused(b), b, "messages"), "messages", rows(b)),
                           "cachedContent", GeminiResource(b)), "system", system(b))
  BY DEF GeminiContents
<1>2. \A b : GeminiResource(b) = GeminiResource(Core(b))
  BY CoreFields DEF GeminiResource, Asked
<1>3. \A b : sent(b) = sent(Core(b))
  BY <1>2, CoreFields DEF StoredMessages, Asked
<1>4. \A b : told(b) = told(Core(b)) /\ system(b) = system(Core(b))
  BY <1>2, CoreFields
<1> HIDE DEF sent
<1>5. \A b : rows(b) = rows(Core(b)) /\ refused(b) = refused(Core(b))
  BY <1>3, CoreFields
<1> HIDE DEF refused, rows, told, system
<1>6. ASSUME NEW b, NEW c, Steady(b, c) PROVE Steady(b, GeminiContents(c))
  BY <1>1, <1>6, PutKeeps, PutIfKeeps, UnsupportedIfKeeps, Named
<1>7. ASSUME NEW n, NEW x, Follows(n, x), Alike(n, x)
      PROVE  Follows(GeminiContents(n), GeminiContents(x))
  <2>1. /\ refused(n) = refused(x) /\ rows(n) = rows(x) /\ told(n) = told(x)
        /\ system(n) = system(x) /\ GeminiResource(n) = GeminiResource(x)
    BY <1>2, <1>4, <1>5, <1>7, AlikeCores
  <2> QED BY <1>1, <1>7, <2>1, PutKeeps, PutIfKeeps, UnsupportedIfKeeps, Named
<1> QED BY <1>6, <1>7, SteadyAtAll, Keeping

LEMMA GeminiSamplingKeeps ==
  /\ \A b, c : Steady(b, c) => Steady(b, GeminiSampling(c))
  /\ \A n, x : Follows(n, x) => Follows(GeminiSampling(n), GeminiSampling(x))
<1> DEFINE sent == <<"temperature", "max_tokens", "top_p", "top_k", "seed", "frequency_penalty",
                     "presence_penalty", "stop">>
           scores(b) == Asked(b, "logprobs")
           given(b) == scores(b) # Null
           listed(b) == scores(b) # Null /\ scores(b) > 0
           after(b) == FoldLeft(PutAsked, b, sent)
<1>1. \A b : GeminiSampling(b) = PutIf(listed(b), PutIf(given(b), after(b), "logprobs", TRUE),
                                       "top_logprobs", scores(b))
  BY DEF GeminiSampling
<1>2. DOMAIN sent = 1..8
  OBVIOUS
<1> HIDE DEF sent
<1>3. /\ \A b, c : Steady(b, c) => Steady(b, after(c))
      /\ \A n, x : Follows(n, x) => Follows(after(n), after(x))
  BY <1>2, AllPutAskedKeeps
<1>4. \A n, x : Alike(n, x) => listed(n) = listed(x) /\ given(n) = given(x) /\ scores(n) = scores(x)
  BY AlikeFields DEF Asked
<1> HIDE DEF after, listed, given, scores
<1>5. ASSUME NEW b, NEW c, Steady(b, c) PROVE Steady(b, GeminiSampling(c))
  BY <1>1, <1>3, <1>5, PutIfKeeps
<1>6. ASSUME NEW n, NEW x, Follows(n, x), Alike(n, x)
      PROVE  Follows(GeminiSampling(n), GeminiSampling(x))
  BY <1>1, <1>3, <1>4, <1>6, PutIfKeeps
<1> QED BY <1>5, <1>6, SteadyAtAll, Keeping

LEMMA GeminiFormatKeeps ==
  /\ \A b, c : Steady(b, c) => Steady(b, GeminiFormat(c))
  /\ \A n, x : Follows(n, x) => Follows(GeminiFormat(n), GeminiFormat(x))
<1>1. ASSUME NEW b, NEW c, Steady(b, c) PROVE Steady(b, GeminiFormat(c))
  BY <1>1, PutKeeps, UnmeasurableProbabilitiesKeeps DEF GeminiFormat
<1>2. ASSUME NEW n, NEW x, Follows(n, x), Alike(n, x)
      PROVE  Follows(GeminiFormat(n), GeminiFormat(x))
  BY <1>2, AlikeFields, PutKeeps, UnmeasurableProbabilitiesKeeps DEF GeminiFormat, Asked
<1> QED BY <1>1, <1>2, SteadyAtAll, Keeping

LEMMA OffSubstitutedKeeps ==
  /\ \A b, c : Steady(b, c) => Steady(b, OffSubstituted(c))
  /\ \A n, x : Follows(n, x) => Follows(OffSubstituted(n), OffSubstituted(x))
<1>1. ASSUME NEW b, NEW c, Steady(b, c) PROVE Steady(b, OffSubstituted(c))
  BY <1>1, ChangedIfKeeps, Named DEF OffSubstituted, Paths, ReasoningPaths
<1>2. ASSUME NEW n, NEW x, Follows(n, x), Alike(n, x)
      PROVE  Follows(OffSubstituted(n), OffSubstituted(x))
  BY <1>2, AlikeFields, ChangedIfKeeps, Named DEF OffSubstituted, Paths, ReasoningPaths, Asked
<1> QED BY <1>1, <1>2, SteadyAtAll, Keeping

LEMMA LevelClampedKeeps ==
  /\ \A b, c : Steady(b, c) => Steady(b, LevelClamped(c))
  /\ \A n, x : Follows(n, x) => Follows(LevelClamped(n), LevelClamped(x))
<1>1. ASSUME NEW b, NEW c, Steady(b, c) PROVE Steady(b, LevelClamped(c))
  BY <1>1, ChangedIfKeeps, Named DEF LevelClamped, Paths, ReasoningPaths
<1>2. ASSUME NEW n, NEW x, Follows(n, x), Alike(n, x)
      PROVE  Follows(LevelClamped(n), LevelClamped(x))
  BY <1>2, AlikeFields, ChangedIfKeeps, Named DEF LevelClamped, Paths, ReasoningPaths, Asked
<1> QED BY <1>1, <1>2, SteadyAtAll, Keeping

LEMMA ThinkingConfigKeeps ==
  /\ \A b, c : Steady(b, c) => Steady(b, ThinkingConfig(c))
  /\ \A n, x : Follows(n, x) => Follows(ThinkingConfig(n), ThinkingConfig(x))
<1>1. ASSUME NEW b, NEW c, Steady(b, c) PROVE Steady(b, ThinkingConfig(c))
  BY <1>1, PutKeeps DEF ThinkingConfig
<1>2. ASSUME NEW n, NEW x, Follows(n, x), Alike(n, x)
      PROVE  Follows(ThinkingConfig(n), ThinkingConfig(x))
  BY <1>2, AlikeFields, PutKeeps DEF ThinkingConfig, Asked
<1> QED BY <1>1, <1>2, SteadyAtAll, Keeping

LEMMA ThinkingShownKeeps ==
  /\ \A b, c : Steady(b, c) => Steady(b, ThinkingShown(c))
  /\ \A n, x : Follows(n, x) => Follows(ThinkingShown(n), ThinkingShown(x))
<1>1. ASSUME NEW b, NEW c, Steady(b, c) PROVE Steady(b, ThinkingShown(c))
  BY <1>1, PutIfKeeps, ThinkingConfigKeeps DEF ThinkingShown
<1>2. ASSUME NEW n, NEW x, Follows(n, x), Alike(n, x)
      PROVE  Follows(ThinkingShown(n), ThinkingShown(x))
  BY <1>2, AlikeFields, PutIfKeeps, ThinkingConfigKeeps DEF ThinkingShown, Asked
<1> QED BY <1>1, <1>2, SteadyAtAll, Keeping

LEMMA GeminiReasoningKeeps ==
  /\ \A b, c : Steady(b, c) => Steady(b, GeminiReasoning(c))
  /\ \A n, x : Follows(n, x) => Follows(GeminiReasoning(n), GeminiReasoning(x))
<1>1. ASSUME NEW b, NEW c, Steady(b, c) PROVE Steady(b, GeminiReasoning(c))
  BY <1>1, ThinkingShownKeeps, LevelClampedKeeps, SummaryPlainKeeps, OffSubstitutedKeeps
     DEF GeminiReasoning
<1>2. ASSUME NEW n, NEW x, Follows(n, x), Alike(n, x)
      PROVE  Follows(GeminiReasoning(n), GeminiReasoning(x))
  BY <1>2, AlikeFields, ThinkingShownKeeps, LevelClampedKeeps, SummaryPlainKeeps,
     OffSubstitutedKeeps
     DEF GeminiReasoning, Asked
<1> QED BY <1>1, <1>2, SteadyAtAll, Keeping

LEMMA GeminiToolsKeeps ==
  /\ \A b, c : Steady(b, c) => Steady(b, GeminiTools(c))
  /\ \A n, x : Follows(n, x) => Follows(GeminiTools(n), GeminiTools(x))
<1>1. ASSUME NEW b, NEW c, Steady(b, c) PROVE Steady(b, GeminiTools(c))
  BY <1>1, PutIfKeeps DEF GeminiTools, GeminiResource
<1>2. ASSUME NEW n, NEW x, Follows(n, x), Alike(n, x)
      PROVE  Follows(GeminiTools(n), GeminiTools(x))
  BY <1>2, AlikeFields, PutIfKeeps DEF GeminiTools, GeminiResource, Asked
<1> QED BY <1>1, <1>2, SteadyAtAll, Keeping

LEMMA ToolConfigPayloadKeeps ==
  /\ \A b, c : Steady(b, c) => Steady(b, ToolConfigPayload(c))
  /\ \A n, x : Follows(n, x) => Follows(ToolConfigPayload(n), ToolConfigPayload(x))
<1>1. ASSUME NEW b, NEW c, Steady(b, c) PROVE Steady(b, ToolConfigPayload(c))
  BY <1>1, PutKeeps, UnsupportedIfKeeps, DroppedIfKeeps, Named
     DEF ToolConfigPayload, Paths, ChoicePaths
<1>2. ASSUME NEW n, NEW x, Follows(n, x), Alike(n, x)
      PROVE  Follows(ToolConfigPayload(n), ToolConfigPayload(x))
  BY <1>2, AlikeFields, PutKeeps, UnsupportedIfKeeps, DroppedIfKeeps, Named
     DEF ToolConfigPayload, Paths, ChoicePaths, Asked
<1> QED BY <1>1, <1>2, SteadyAtAll, Keeping

LEMMA GeminiToolConfigKeeps ==
  /\ \A b, c : Steady(b, c) => Steady(b, GeminiToolConfig(c))
  /\ \A n, x : Follows(n, x) => Follows(GeminiToolConfig(n), GeminiToolConfig(x))
<1>1. ASSUME NEW b, NEW c, Steady(b, c) PROVE Steady(b, GeminiToolConfig(c))
  BY <1>1, ToolConfigPayloadKeeps DEF GeminiToolConfig, GeminiResource
<1>2. ASSUME NEW n, NEW x, Follows(n, x), Alike(n, x)
      PROVE  Follows(GeminiToolConfig(n), GeminiToolConfig(x))
  BY <1>2, AlikeFields, ToolConfigPayloadKeeps DEF GeminiToolConfig, GeminiResource, Asked
<1> QED BY <1>1, <1>2, SteadyAtAll, Keeping

LEMMA GeminiRestKeeps ==
  /\ \A b, c : Steady(b, c) => Steady(b, GeminiRest(c))
  /\ \A n, x : Follows(n, x) => Follows(GeminiRest(n), GeminiRest(x))
<1>1. ASSUME NEW b, NEW c, Steady(b, c) PROVE Steady(b, GeminiRest(c))
  BY <1>1, PutKeeps, DroppedKeeps, Named DEF GeminiRest, Paths, OtherPaths
<1>2. ASSUME NEW n, NEW x, Follows(n, x), Alike(n, x)
      PROVE  Follows(GeminiRest(n), GeminiRest(x))
  BY <1>2, AlikeFields, PutKeeps, DroppedKeeps, Named DEF GeminiRest, Paths, OtherPaths, Asked
<1> QED BY <1>1, <1>2, SteadyAtAll, Keeping

LEMMA GeminiBuildKeeps ==
  /\ \A b, c : Steady(b, c) => Steady(b, GeminiBuild(c))
  /\ \A n, x : Follows(n, x) => Follows(GeminiBuild(n), GeminiBuild(x))
BY GeminiCacheKeeps, GeminiContentsKeeps, GeminiSamplingKeeps, GeminiFormatKeeps,
   GeminiReasoningKeeps, GeminiToolsKeeps, GeminiToolConfigKeeps, GeminiRestKeeps DEF GeminiBuild

-----------------------------------------------------------------------------
(* Responses.                                                              *)
LEMMA ResponsesInputKeeps ==
  /\ \A b, c : Steady(b, c) => Steady(b, ResponsesInput(c))
  /\ \A n, x : Follows(n, x) => Follows(ResponsesInput(n), ResponsesInput(x))
<1> DEFINE refused(b) == \/ MessageMediaRefused(b.request.messages, "openai")
                         \/ ResultMediaRefused(b.request.messages, b.compat.toolResultMedia)
<1>1. \A b : ResponsesInput(b) =
        Put(BreakpointNoted(UnsupportedIf(refused(b), b, "messages")), "messages", InputItems(b))
  BY DEF ResponsesInput
<1>2. \A n, x : Alike(n, x) => InputItems(n) = InputItems(x)
  <2>1. \A n, x, i : Alike(n, x) => MessageItems(n, i) = MessageItems(x, i)
    BY AlikeFields, AlikeBreakpoints DEF MessageItems, PromptItem
  <2>2. ASSUME NEW n, NEW x, Alike(n, x)
        PROVE  [i \in DOMAIN n.request.messages |-> MessageItems(n, i)]
                 = [i \in DOMAIN x.request.messages |-> MessageItems(x, i)]
    BY <2>1, <2>2, AlikeFields
  <2> QED BY <2>2 DEF InputItems
<1>3. \A n, x : Alike(n, x) => refused(n) = refused(x)
  BY AlikeFields
<1> HIDE DEF refused
<1>4. ASSUME NEW b, NEW c, Steady(b, c) PROVE Steady(b, ResponsesInput(c))
  BY <1>1, <1>4, PutKeeps, BreakpointNotedKeeps, UnsupportedIfKeeps, Named
<1>5. ASSUME NEW n, NEW x, Follows(n, x), Alike(n, x)
      PROVE  Follows(ResponsesInput(n), ResponsesInput(x))
  BY <1>1, <1>2, <1>3, <1>5, PutKeeps, BreakpointNotedKeeps, UnsupportedIfKeeps, Named
<1> QED BY <1>4, <1>5, SteadyAtAll, Keeping

LEMMA ResponsesSystemKeeps ==
  /\ \A b, c : Steady(b, c) => Steady(b, ResponsesSystem(c))
  /\ \A n, x : Follows(n, x) => Follows(ResponsesSystem(n), ResponsesSystem(x))
<1> DEFINE said(b) == <<TextBlock(b.request.system)>>
           first(b) == <<Row(b.compat.developerRole, MarkedLast(said(b)))>>
           begun(b) == [b.wire EXCEPT !["messages"] = first(b) \o b.wire["messages"]]
<1>1. \A b : ResponsesSystem(b) =
        CASE b.request.system = Null \/ b.failed # Null -> b
          [] b.request.system # Null /\ b.failed = Null /\ CacheStablePrefix(b) ->
               [b EXCEPT !.wire = begun(b)]
          [] OTHER -> Put(b, "system", said(b))
  BY DEF ResponsesSystem
<1>2. \A n, x : Alike(n, x) => begun(n) = begun(x) /\ said(n) = said(x)
  BY AlikeFields
<1> HIDE DEF begun, said
<1>3. ASSUME NEW b, NEW c, Steady(b, c) PROVE Steady(b, ResponsesSystem(c))
  BY <1>1, <1>3, PutKeeps, RewiredKeeps
<1>4. ASSUME NEW n, NEW x, Follows(n, x), Alike(n, x)
      PROVE  Follows(ResponsesSystem(n), ResponsesSystem(x))
  <2>1. Follows([n EXCEPT !.wire = begun(n)], [x EXCEPT !.wire = begun(x)])
    BY <1>2, <1>4, RewiredKeeps
  <2>2. Follows(Put(n, "system", said(n)), Put(x, "system", said(x)))
    BY <1>2, <1>4, PutKeeps
  <2>3. /\ n.request = x.request /\ n.failed = x.failed
        /\ CacheStablePrefix(n) = CacheStablePrefix(x)
    BY <1>4, AlikeFields, AlikeBreakpoints
  <2> QED BY <1>1, <1>4, <2>1, <2>2, <2>3
<1> QED BY <1>3, <1>4, SteadyAtAll, Keeping

LEMMA ClientSideStopKeeps ==
  /\ \A b, c : Steady(b, c) => Steady(b, ClientSideStop(c))
  /\ \A n, x : Follows(n, x) => Follows(ClientSideStop(n), ClientSideStop(x))
<1>1. ASSUME NEW b, NEW c, Steady(b, c) PROVE Steady(b, ClientSideStop(c))
  BY <1>1, ChangedIfKeeps, Named DEF ClientSideStop
<1>2. ASSUME NEW n, NEW x, Follows(n, x), Alike(n, x)
      PROVE  Follows(ClientSideStop(n), ClientSideStop(x))
  BY <1>2, AlikeFields, ChangedIfKeeps, Named DEF ClientSideStop, Asked
<1> QED BY <1>1, <1>2, SteadyAtAll, Keeping

LEMMA ResponsesSamplingKeeps ==
  /\ \A b, c : Steady(b, c) => Steady(b, ResponsesSampling(c))
  /\ \A n, x : Follows(n, x) => Follows(ResponsesSampling(n), ResponsesSampling(x))
<1> DEFINE unsent == <<"top_k", "seed", "frequency_penalty", "presence_penalty">>
           sent(b) == Put(Put(Put(b, b.compat.maxOutputTokensField, Asked(b, "max_tokens")),
                              "temperature", Asked(b, "temperature")), "top_p", Asked(b, "top_p"))
           after(b) == FoldLeft(Dropped, ClientSideStop(sent(b)), unsent)
<1>1. \A b : ResponsesSampling(b) = Put(after(b), "top_logprobs", Asked(b, "logprobs"))
  BY DEF ResponsesSampling
<1>2. DOMAIN unsent = 1..4 /\ \A i \in 1..4 : unsent[i] # Null
  BY Named DEF Paths, SamplingPaths
<1> HIDE DEF unsent
<1>3. /\ \A b, c : Steady(b, c) => Steady(b, FoldLeft(Dropped, c, unsent))
      /\ \A n, x : Follows(n, x) => Follows(FoldLeft(Dropped, n, unsent), FoldLeft(Dropped, x, unsent))
  BY <1>2, AllDroppedKeeps
<1>4. ASSUME NEW b, NEW c, Steady(b, c) PROVE Steady(b, sent(c))
  BY <1>4, PutKeeps
<1>5. ASSUME NEW n, NEW x, Follows(n, x), Alike(n, x) PROVE Follows(sent(n), sent(x))
  BY <1>5, PutKeeps, AlikeFields DEF Asked
<1> HIDE DEF sent
<1>6. \A b, c : Steady(b, c) => Steady(b, after(c))
  BY <1>3, <1>4, ClientSideStopKeeps
<1>7. \A n, x : Follows(n, x) /\ Alike(n, x) => Follows(after(n), after(x))
  BY <1>3, <1>5, ClientSideStopKeeps
<1> HIDE DEF after
<1>8. ASSUME NEW b, NEW c, Steady(b, c) PROVE Steady(b, ResponsesSampling(c))
  BY <1>1, <1>6, <1>8, PutKeeps
<1>9. ASSUME NEW n, NEW x, Follows(n, x), Alike(n, x)
      PROVE  Follows(ResponsesSampling(n), ResponsesSampling(x))
  BY <1>1, <1>7, <1>9, PutKeeps, AlikeFields DEF Asked
<1> QED BY <1>8, <1>9, SteadyAtAll, Keeping

LEMMA ResponsesToolsKeeps ==
  /\ \A b, c : Steady(b, c) => Steady(b, ResponsesTools(c))
  /\ \A n, x : Follows(n, x) => Follows(ResponsesTools(n), ResponsesTools(x))
<1> DEFINE mode(b) == Asked(b, "tool_choice.mode")
           allowed(b) == Asked(b, "tool_choice.allowed")
           choice(b) == ResponsesChoice(mode(b), allowed(b))
           types(b) == ToolTypes(b.request.tools, b.compat)
           names(b) == ToolTypes(allowed(b), b.compat)
           any(b) == b.request.tools # <<>>
           chosen(b) == PutIf(mode(b) # Null, PutIf(any(b), b, "tools", types(b)),
                              "tool_choice.type", choice(b))
           some(b) == allowed(b) # Null /\ choice(b) = "allowed_tools"
<1>1. \A b : ResponsesTools(b) =
        Put(PutIf(some(b), PutIf(allowed(b) # Null, chosen(b), "tool_choice.tools", names(b)),
                  "tool_choice.mode", mode(b)),
            "parallel_tool_calls", Asked(b, "tool_choice.parallel"))
  BY DEF ResponsesTools
<1>2. \A n, x : Alike(n, x) => mode(n) = mode(x) /\ allowed(n) = allowed(x) /\ types(n) = types(x)
                              /\ any(n) = any(x)
  BY AlikeFields DEF Asked
<1>3. \A n, x : Alike(n, x) => choice(n) = choice(x) /\ names(n) = names(x) /\ some(n) = some(x)
  BY <1>2, AlikeFields
<1> HIDE DEF mode, allowed, choice, types, names, any, some
<1>4. ASSUME NEW b, NEW c, Steady(b, c) PROVE Steady(b, ResponsesTools(c))
  BY <1>1, <1>4, PutKeeps, PutIfKeeps
<1>5. ASSUME NEW n, NEW x, Follows(n, x), Alike(n, x)
      PROVE  Follows(ResponsesTools(n), ResponsesTools(x))
  BY <1>1, <1>2, <1>3, <1>5, PutKeeps, PutIfKeeps, AlikeFields DEF Asked
<1> QED BY <1>4, <1>5, SteadyAtAll, Keeping

LEMMA ResponsesFormatKeeps ==
  /\ \A b, c : Steady(b, c) => Steady(b, ResponsesFormat(c))
  /\ \A n, x : Follows(n, x) => Follows(ResponsesFormat(n), ResponsesFormat(x))
<1>1. ASSUME NEW b, NEW c, Steady(b, c) PROVE Steady(b, ResponsesFormat(c))
  BY <1>1, PutKeeps, UnmeasurableProbabilitiesKeeps DEF ResponsesFormat
<1>2. ASSUME NEW n, NEW x, Follows(n, x), Alike(n, x)
      PROVE  Follows(ResponsesFormat(n), ResponsesFormat(x))
  BY <1>2, AlikeFields, PutKeeps, UnmeasurableProbabilitiesKeeps DEF ResponsesFormat, Asked
<1> QED BY <1>1, <1>2, SteadyAtAll, Keeping

LEMMA ReasoningAdaptedKeeps ==
  /\ \A b, c : Steady(b, c) => Steady(b, ReasoningAdapted(c))
  /\ \A n, x : Follows(n, x) => Follows(ReasoningAdapted(n), ReasoningAdapted(x))
<1>1. ASSUME NEW b, NEW c, Steady(b, c) PROVE Steady(b, ReasoningAdapted(c))
  BY <1>1, SummaryPlainKeeps, DroppedKeeps, Named DEF ReasoningAdapted, Paths, ReasoningPaths
<1>2. ASSUME NEW n, NEW x, Follows(n, x), Alike(n, x)
      PROVE  Follows(ReasoningAdapted(n), ReasoningAdapted(x))
  BY <1>2, AlikeFields, SummaryPlainKeeps, DroppedKeeps, Named
     DEF ReasoningAdapted, Paths, ReasoningPaths, Asked
<1> QED BY <1>1, <1>2, SteadyAtAll, Keeping

LEMMA ReasoningPutKeeps ==
  /\ \A b, c : Steady(b, c) => Steady(b, ReasoningPut(c))
  /\ \A n, x : Follows(n, x) => Follows(ReasoningPut(n), ReasoningPut(x))
<1>1. ASSUME NEW b, NEW c, Steady(b, c) PROVE Steady(b, ReasoningPut(c))
  BY <1>1, PutAllKeeps DEF ReasoningPut
<1>2. ASSUME NEW n, NEW x, Follows(n, x), Alike(n, x)
      PROVE  Follows(ReasoningPut(n), ReasoningPut(x))
  BY <1>2, AlikeFields, PutAllKeeps DEF ReasoningPut, Asked
<1> QED BY <1>1, <1>2, SteadyAtAll, Keeping

LEMMA ResponsesReasoningKeeps ==
  /\ \A b, c : Steady(b, c) => Steady(b, ResponsesReasoning(c))
  /\ \A n, x : Follows(n, x) => Follows(ResponsesReasoning(n), ResponsesReasoning(x))
<1>1. ASSUME NEW b, NEW c, Steady(b, c) PROVE Steady(b, ResponsesReasoning(c))
  BY <1>1, PutAllKeeps, ReasoningPutKeeps, ReasoningAdaptedKeeps DEF ResponsesReasoning
<1>2. ASSUME NEW n, NEW x, Follows(n, x), Alike(n, x)
      PROVE  Follows(ResponsesReasoning(n), ResponsesReasoning(x))
  BY <1>2, AlikeFields, PutAllKeeps, ReasoningPutKeeps, ReasoningAdaptedKeeps
     DEF ResponsesReasoning, Asked
<1> QED BY <1>1, <1>2, SteadyAtAll, Keeping

LEMMA CodexRestKeeps ==
  /\ \A b, c : Steady(b, c) => Steady(b, CodexRest(c))
  /\ \A n, x : Follows(n, x) => Follows(CodexRest(n), CodexRest(x))
<1>1. ASSUME NEW b, NEW c, Steady(b, c) PROVE Steady(b, CodexRest(c))
  BY <1>1, PutKeeps, UnsupportedIfKeeps, Named DEF CodexRest
<1>2. ASSUME NEW n, NEW x, Follows(n, x), Alike(n, x)
      PROVE  Follows(CodexRest(n), CodexRest(x))
  BY <1>2, AlikeFields, PutKeeps, UnsupportedIfKeeps, Named DEF CodexRest, Asked
<1> QED BY <1>1, <1>2, SteadyAtAll, Keeping

LEMMA ResponsesRestKeeps ==
  /\ \A b, c : Steady(b, c) => Steady(b, ResponsesRest(c))
  /\ \A n, x : Follows(n, x) => Follows(ResponsesRest(n), ResponsesRest(x))
<1>1. ASSUME NEW b, NEW c, Steady(b, c) PROVE Steady(b, ResponsesRest(c))
  BY <1>1, PutKeeps, CodexRestKeeps DEF ResponsesRest
<1>2. ASSUME NEW n, NEW x, Follows(n, x), Alike(n, x)
      PROVE  Follows(ResponsesRest(n), ResponsesRest(x))
  BY <1>2, AlikeFields, PutKeeps, CodexRestKeeps DEF ResponsesRest, Asked
<1> QED BY <1>1, <1>2, SteadyAtAll, Keeping

LEMMA ResponsesBuildKeeps ==
  /\ \A b, c : Steady(b, c) => Steady(b, ResponsesBuild(c))
  /\ \A n, x : Follows(n, x) => Follows(ResponsesBuild(n), ResponsesBuild(x))
BY ResponsesInputKeeps, ResponsesSystemKeeps, ResponsesSamplingKeeps, ResponsesToolsKeeps,
   ResponsesFormatKeeps, ResponsesReasoningKeeps, CacheCommonPayloadKeeps, ResponsesRestKeeps
   DEF ResponsesBuild

-----------------------------------------------------------------------------
(* Chat Completions.                                                       *)
LEMMA ChatMediaCheckedKeeps ==
  /\ \A b, c : Steady(b, c) => Steady(b, ChatMediaChecked(c))
  /\ \A n, x : Follows(n, x) => Follows(ChatMediaChecked(n), ChatMediaChecked(x))
BY AlikeFields, UnsupportedIfKeeps, Named DEF ChatMediaChecked

LEMMA ChatMessagesKeeps ==
  /\ \A b, c : Steady(b, c) => Steady(b, ChatMessages(c))
  /\ \A n, x : Follows(n, x) => Follows(ChatMessages(n), ChatMessages(x))
<1> DEFINE refused(b) == \/ NoChatBlock(b.request.messages)
                         \/ ResultMediaRefused(b.request.messages, b.compat.toolResultMedia)
<1>1. \A b : ChatMessages(b) =
        Put(BreakpointNoted(UnsupportedIf(refused(b), b, "messages")), "messages", BuildMessages(b))
  BY DEF ChatMessages
<1>2. \A n, x : Alike(n, x) => BuildMessages(n) = BuildMessages(x)
  <2>1. \A n, x : Alike(n, x) => SystemRow(n) = SystemRow(x)
    BY AlikeFields, AlikeBreakpoints DEF SystemRow
  <2>2. ASSUME NEW n, NEW x, Alike(n, x)
        PROVE  [i \in DOMAIN n.request.messages |->
                  ChatRows(n.request.messages[i], n.compat, i = CacheBreakpointIndex(n))]
                 = [i \in DOMAIN x.request.messages |->
                     ChatRows(x.request.messages[i], x.compat, i = CacheBreakpointIndex(x))]
    BY <2>2, AlikeFields, AlikeBreakpoints
  <2> QED BY <2>1, <2>2 DEF BuildMessages
<1>3. \A n, x : Alike(n, x) => refused(n) = refused(x)
  BY AlikeFields
<1> HIDE DEF refused
<1>4. ASSUME NEW b, NEW c, Steady(b, c) PROVE Steady(b, ChatMessages(c))
  BY <1>1, <1>4, PutKeeps, BreakpointNotedKeeps, UnsupportedIfKeeps, Named
<1>5. ASSUME NEW n, NEW x, Follows(n, x), Alike(n, x)
      PROVE  Follows(ChatMessages(n), ChatMessages(x))
  BY <1>1, <1>2, <1>3, <1>5, PutKeeps, BreakpointNotedKeeps, UnsupportedIfKeeps, Named
<1> QED BY <1>4, <1>5, SteadyAtAll, Keeping

LEMMA ChatSamplingKeeps ==
  /\ \A b, c : Steady(b, c) => Steady(b, ChatSampling(c))
  /\ \A n, x : Follows(n, x) => Follows(ChatSampling(n), ChatSampling(x))
<1> DEFINE sent == <<"temperature", "top_p", "seed", "frequency_penalty", "presence_penalty", "stop">>
           scores(b) == Asked(b, "logprobs")
           given(b) == scores(b) # Null
           listed(b) == scores(b) # Null /\ scores(b) > 0
           limited(b) == Dropped(Put(b, b.compat.maxTokensField, Asked(b, "max_tokens")), "top_k")
           after(b) == FoldLeft(PutAsked, limited(b), sent)
<1>1. \A b : ChatSampling(b) = PutIf(listed(b), PutIf(given(b), after(b), "logprobs", TRUE),
                                     "top_logprobs", scores(b))
  BY DEF ChatSampling
<1>2. DOMAIN sent = 1..6
  OBVIOUS
<1> HIDE DEF sent
<1>3. /\ \A b, c : Steady(b, c) => Steady(b, FoldLeft(PutAsked, c, sent))
      /\ \A n, x : Follows(n, x) => Follows(FoldLeft(PutAsked, n, sent), FoldLeft(PutAsked, x, sent))
  BY <1>2, AllPutAskedKeeps
<1>4. "top_k" # Null
  BY Named DEF Paths, SamplingPaths
<1>5. ASSUME NEW b, NEW c, Steady(b, c) PROVE Steady(b, limited(c))
  BY <1>4, <1>5, PutKeeps, DroppedKeeps
<1>6. ASSUME NEW n, NEW x, Follows(n, x), Alike(n, x) PROVE Follows(limited(n), limited(x))
  BY <1>4, <1>6, PutKeeps, DroppedKeeps, AlikeFields DEF Asked
<1>7. \A n, x : Alike(n, x) => listed(n) = listed(x) /\ given(n) = given(x) /\ scores(n) = scores(x)
  BY AlikeFields DEF Asked
<1> HIDE DEF limited, listed, given, scores
<1>8. ASSUME NEW b, NEW c, Steady(b, c) PROVE Steady(b, ChatSampling(c))
  BY <1>1, <1>3, <1>5, <1>8, PutIfKeeps
<1>9. ASSUME NEW n, NEW x, Follows(n, x), Alike(n, x)
      PROVE  Follows(ChatSampling(n), ChatSampling(x))
  <2>1. Follows(after(n), after(x))
    BY <1>3, <1>6, <1>9
  <2> HIDE DEF after
  <2> QED BY <1>1, <1>7, <1>9, <2>1, PutIfKeeps
<1> QED BY <1>8, <1>9, SteadyAtAll, Keeping

LEMMA ChatToolsKeeps ==
  /\ \A b, c : Steady(b, c) => Steady(b, ChatTools(c))
  /\ \A n, x : Follows(n, x) => Follows(ChatTools(n), ChatTools(x))
<1> DEFINE any(b) == b.request.tools # <<>>
           unknown(b) == ~(ToSet(Builtins(b.request.tools))
                             \subseteq IF b.compat.builtinTools = "groq" THEN GroqBuiltins ELSE {})
           names(b) == [i \in DOMAIN b.request.tools |-> ChatTool(b.request.tools[i])]
<1>1. \A b : ChatTools(b) = PutIf(any(b), UnsupportedIf(unknown(b), b, "tools"), "tools", names(b))
  BY DEF ChatTools
<1>2. \A n, x : Alike(n, x) => any(n) = any(x) /\ unknown(n) = unknown(x) /\ names(n) = names(x)
  BY AlikeFields
<1> HIDE DEF any, unknown, names
<1>3. ASSUME NEW b, NEW c, Steady(b, c) PROVE Steady(b, ChatTools(c))
  BY <1>1, <1>3, PutIfKeeps, UnsupportedIfKeeps, Named
<1>4. ASSUME NEW n, NEW x, Follows(n, x), Alike(n, x)
      PROVE  Follows(ChatTools(n), ChatTools(x))
  BY <1>1, <1>2, <1>4, PutIfKeeps, UnsupportedIfKeeps, Named
<1> QED BY <1>3, <1>4, SteadyAtAll, Keeping

LEMMA SendChoiceKeeps ==
  /\ \A b, c, type, allowed : Steady(b, c) => Steady(b, SendChoice(c, type, allowed))
  /\ \A n, x, t, u, v, w : Follows(n, x) /\ (Alike(n, x) => t = u /\ v = w) =>
       Follows(SendChoice(n, t, v), SendChoice(x, u, w))
<1>1. ASSUME NEW b, NEW c, NEW type, NEW allowed, Steady(b, c)
      PROVE  Steady(b, SendChoice(c, type, allowed))
  BY <1>1, PutKeeps, PutIfKeeps DEF SendChoice
<1>2. ASSUME NEW n, NEW x, NEW t, NEW u, NEW v, NEW w, Follows(n, x), Alike(n, x) => t = u /\ v = w
      PROVE  Follows(SendChoice(n, t, v), SendChoice(x, u, w))
  <2>1. ASSUME Alike(n, x) PROVE Follows(SendChoice(n, t, v), SendChoice(x, u, w))
    BY <1>2, <2>1, AlikeFields, PutKeeps, PutIfKeeps DEF SendChoice, Asked
  <2> QED BY <1>1, <1>2, <2>1, SteadyAtAll, Keeping
<1> QED BY <1>1, <1>2

LEMMA KeepToolsKeeps ==
  /\ \A b, c, kept : Steady(b, c) => Steady(b, KeepTools(c, kept))
  /\ \A n, x, v, w : Follows(n, x) /\ (Alike(n, x) => v = w) =>
       Follows(KeepTools(n, v), KeepTools(x, w))
<1> DEFINE put(b, kept) == [b.wire EXCEPT !["tools"] = kept]
<1>1. \A b, kept : KeepTools(b, kept) = IF b.failed # Null THEN b ELSE [b EXCEPT !.wire = put(b, kept)]
  BY DEF KeepTools
<1>2. \A n, x, v, w : Alike(n, x) /\ v = w => put(n, v) = put(x, w)
  BY AlikeFields
<1> HIDE DEF put
<1>3. ASSUME NEW b, NEW c, NEW kept, Steady(b, c) PROVE Steady(b, KeepTools(c, kept))
  BY <1>1, <1>3, RewiredKeeps
<1>4. ASSUME NEW n, NEW x, NEW v, NEW w, Follows(n, x), Alike(n, x) => v = w
      PROVE  Follows(KeepTools(n, v), KeepTools(x, w))
  <2>1. ASSUME Alike(n, x) PROVE Follows(KeepTools(n, v), KeepTools(x, w))
    <3>1. put(n, v) = put(x, w) /\ n.failed = x.failed
      BY <1>2, <1>4, <2>1, AlikeFields
    <3> QED BY <1>1, <1>4, <3>1, RewiredKeeps
  <2> QED BY <1>3, <1>4, <2>1, SteadyAtAll, Keeping
<1> QED BY <1>3, <1>4

LEMMA SendNoToolsKeeps ==
  /\ \A b, c : Steady(b, c) => Steady(b, SendNoTools(c))
  /\ \A n, x : Follows(n, x) => Follows(SendNoTools(n), SendNoTools(x))
<1> DEFINE bare(b) == [f \in DOMAIN b.wire \ {"tools"} |-> b.wire[f]]
<1>1. \A b : SendNoTools(b) = IF b.failed # Null THEN b ELSE [b EXCEPT !.wire = bare(b)]
  BY DEF SendNoTools
<1>2. \A n, x : Alike(n, x) => bare(n) = bare(x)
  BY AlikeFields
<1> HIDE DEF bare
<1>3. ASSUME NEW b, NEW c, Steady(b, c) PROVE Steady(b, SendNoTools(c))
  BY <1>1, <1>3, RewiredKeeps
<1>4. ASSUME NEW n, NEW x, Follows(n, x), Alike(n, x)
      PROVE  Follows(SendNoTools(n), SendNoTools(x))
  <2>1. bare(n) = bare(x) /\ n.failed = x.failed
    BY <1>2, <1>4, AlikeFields
  <2> QED BY <1>1, <1>4, <2>1, RewiredKeeps
<1> QED BY <1>3, <1>4, SteadyAtAll, Keeping

LEMMA ClientSideChoiceKeeps ==
  /\ \A b, c : Steady(b, c) => Steady(b, ClientSideChoice(c))
  /\ \A n, x : Follows(n, x) => Follows(ClientSideChoice(n), ClientSideChoice(x))
<1> DEFINE mode(b) == Asked(b, "tool_choice.mode")
           among(tools, allowed) == SelectSeq(tools, LAMBDA name : name \in ToSet(allowed))
           kept(b) == among(b.request.tools, Asked(b, "tool_choice.allowed"))
<1>1. \A b : ClientSideChoice(b) =
        CASE mode(b) = "required" -> Unsupported(b, "tool_choice.mode")
          [] mode(b) = "none" ->
               SendNoTools(Adapt(b, "tool_choice.mode", "client_side", "none", "no tools sent"))
          [] OTHER -> KeepTools(Changed(b, "tool_choice.allowed", "client_side", kept(b)), kept(b))
  BY DEF ClientSideChoice
<1> HIDE DEF among
<1>2. \A b : mode(b) = mode(Core(b)) /\ kept(b) = kept(Core(b))
  BY CoreFields DEF Asked
<1> HIDE DEF mode, kept
<1>3. "tool_choice.mode" # Null /\ "tool_choice.allowed" # Null
  BY Named DEF Paths, ChoicePaths
<1>4. ASSUME NEW b, NEW c, Steady(b, c) PROVE Steady(b, ClientSideChoice(c))
  BY <1>1, <1>3, <1>4, UnsupportedKeeps, SendNoToolsKeeps, AdaptKeeps, KeepToolsKeeps,
     ChangedKeeps
<1>5. ASSUME NEW n, NEW x, Follows(n, x), Alike(n, x)
      PROVE  Follows(ClientSideChoice(n), ClientSideChoice(x))
  <2>1. mode(n) = mode(x) /\ kept(n) = kept(x)
    BY <1>2, <1>5, AlikeCores
  <2> QED BY <1>1, <1>3, <1>5, <2>1, UnsupportedKeeps, SendNoToolsKeeps, AdaptKeeps,
             KeepToolsKeeps,
             ChangedKeeps
<1> QED BY <1>4, <1>5, SteadyAtAll, Keeping

LEMMA ChatToolChoiceKeeps ==
  /\ \A b, c : Steady(b, c) => Steady(b, ChatToolChoice(c))
  /\ \A n, x : Follows(n, x) => Follows(ChatToolChoice(n), ChatToolChoice(x))
<1> DEFINE mode(b) == Asked(b, "tool_choice.mode")
           allowed(b) == Asked(b, "tool_choice.allowed")
           choice(b) == ChatChoice(mode(b), allowed(b))
           ignored(b) == b.compat.forcedToolChoice = "reject" /\ (mode(b) # "auto" \/ allowed(b) # Null)
           builtin(b) == allowed(b) # Null /\ Builtins(allowed(b)) # <<>>
           named(b) == UnsupportedIf(builtin(b), b, "tool_choice.allowed")
<1>1. \A b : ChatToolChoice(b) =
        CASE mode(b) = Null -> b
          [] mode(b) # Null /\ ignored(b) -> SendChoice(ClientSideChoice(named(b)), "auto", Null)
          [] OTHER -> SendChoice(named(b), choice(b), allowed(b))
  BY DEF ChatToolChoice
<1>2. \A n, x : Alike(n, x) => mode(n) = mode(x) /\ allowed(n) = allowed(x)
  BY AlikeFields DEF Asked
<1>3. \A n, x : Alike(n, x) => choice(n) = choice(x) /\ ignored(n) = ignored(x)
                              /\ builtin(n) = builtin(x)
  BY <1>2, AlikeFields
<1> HIDE DEF mode, allowed, choice, ignored, builtin
<1>4. "tool_choice.allowed" # Null
  BY Named DEF Paths, ChoicePaths
<1>5. /\ \A b, c : Steady(b, c) => Steady(b, named(c))
      /\ \A n, x : Follows(n, x) => Follows(named(n), named(x))
  BY <1>3, <1>4, UnsupportedIfKeeps
<1> HIDE DEF named
<1>6. ASSUME NEW b, NEW c, Steady(b, c) PROVE Steady(b, ChatToolChoice(c))
  BY <1>1, <1>5, <1>6, SendChoiceKeeps, ClientSideChoiceKeeps
<1>7. ASSUME NEW n, NEW x, Follows(n, x), Alike(n, x)
      PROVE  Follows(ChatToolChoice(n), ChatToolChoice(x))
  BY <1>1, <1>2, <1>3, <1>5, <1>7, SendChoiceKeeps, ClientSideChoiceKeeps
<1> QED BY <1>6, <1>7, SteadyAtAll, Keeping

LEMMA ChatFormatKeeps ==
  /\ \A b, c : Steady(b, c) => Steady(b, ChatFormat(c))
  /\ \A n, x : Follows(n, x) => Follows(ChatFormat(n), ChatFormat(x))
<1>1. ASSUME NEW b, NEW c, Steady(b, c) PROVE Steady(b, ChatFormat(c))
  BY <1>1, PutKeeps, DroppedKeeps, Named DEF ChatFormat
<1>2. ASSUME NEW n, NEW x, Follows(n, x), Alike(n, x)
      PROVE  Follows(ChatFormat(n), ChatFormat(x))
  BY <1>2, AlikeFields, PutKeeps, DroppedKeeps, Named DEF ChatFormat, Asked
<1> QED BY <1>1, <1>2, SteadyAtAll, Keeping

LEMMA NoDialKeeps ==
  /\ \A b, c : Steady(b, c) => Steady(b, NoDial(c))
  /\ \A n, x : Follows(n, x) => Follows(NoDial(n), NoDial(x))
<1> DEFINE noted(b) == Adapt(b, "reasoning", "dropped", b.local["reasoning.effort"], Null)
           none(local) == [path \in ReasoningPaths |-> Null] @@ local
<1>1. \A b : NoDial(b) = [noted(b) EXCEPT !.local = none(noted(b).local)]
  BY DEF NoDial
<1>2. /\ \A b, c : Steady(b, c) => Steady(b, noted(c))
      /\ \A n, x : Follows(n, x) => Follows(noted(n), noted(x))
  BY AdaptKeeps, AlikeFields, Named
<1> HIDE DEF noted, none
<1>3. ASSUME NEW b, NEW c, Steady(b, c) PROVE Steady(b, NoDial(c))
  BY <1>1, <1>2, <1>3, RelocatedKeeps
<1>4. ASSUME NEW n, NEW x, Follows(n, x) PROVE Follows(NoDial(n), NoDial(x))
  <2>1. Alike(noted(n), noted(x)) => noted(n).local = noted(x).local
    BY AlikeFields
  <2> QED BY <1>1, <1>2, <1>4, <2>1, RelocatedKeeps
<1> QED BY <1>3, <1>4

LEMMA AlikeLowest == \A n, x : Alike(n, x) => LowestEffort(n) = LowestEffort(x)
<1> DEFINE lowest(efforts) ==
             IF efforts = Null THEN "low"
             ELSE CHOOSE low \in efforts : \A level \in efforts : EffortIndex(low) <= EffortIndex(level)
<1>1. \A b : LowestEffort(b) = lowest(b.compat.reasoningEfforts)
  BY DEF LowestEffort
<1> HIDE DEF lowest
<1> QED BY <1>1, AlikeFields

LEMMA OffLoweredKeeps ==
  /\ \A b, c : Steady(b, c) => Steady(b, OffLowered(c))
  /\ \A n, x : Follows(n, x) => Follows(OffLowered(n), OffLowered(x))
<1>1. ASSUME NEW b, NEW c, Steady(b, c) PROVE Steady(b, OffLowered(c))
  BY <1>1, ChangedIfKeeps, Named DEF OffLowered, Paths, ReasoningPaths
<1>2. ASSUME NEW n, NEW x, Follows(n, x), Alike(n, x)
      PROVE  Follows(OffLowered(n), OffLowered(x))
  BY <1>2, AlikeFields, ChangedIfKeeps, Named, AlikeLowest
     DEF OffLowered, Paths, ReasoningPaths
<1> QED BY <1>1, <1>2, SteadyAtAll, Keeping

LEMMA OnAdaptedKeeps ==
  /\ \A b, c : Steady(b, c) => Steady(b, OnAdapted(c))
  /\ \A n, x : Follows(n, x) => Follows(OnAdapted(n), OnAdapted(x))
<1>1. ASSUME NEW b, NEW c, Steady(b, c) PROVE Steady(b, OnAdapted(c))
  BY <1>1, EffortClampedKeeps, SummaryPlainKeeps, DroppedKeeps, Named
     DEF OnAdapted, Paths, ReasoningPaths
<1>2. ASSUME NEW n, NEW x, Follows(n, x), Alike(n, x)
      PROVE  Follows(OnAdapted(n), OnAdapted(x))
  BY <1>2, AlikeFields, EffortClampedKeeps, SummaryPlainKeeps, DroppedKeeps, Named
     DEF OnAdapted, Paths, ReasoningPaths, Asked
<1> QED BY <1>1, <1>2, SteadyAtAll, Keeping

LEMMA ReasoningSentKeeps ==
  /\ \A b, c : Steady(b, c) => Steady(b, ReasoningSent(c))
  /\ \A n, x : Follows(n, x) => Follows(ReasoningSent(n), ReasoningSent(x))
<1>1. ASSUME NEW b, NEW c, Steady(b, c) PROVE Steady(b, ReasoningSent(c))
  BY <1>1, PutIfKeeps, PutAllKeeps DEF ReasoningSent
<1>2. ASSUME NEW n, NEW x, Follows(n, x), Alike(n, x)
      PROVE  Follows(ReasoningSent(n), ReasoningSent(x))
  BY <1>2, AlikeFields, PutIfKeeps, PutAllKeeps DEF ReasoningSent, Asked
<1> QED BY <1>1, <1>2, SteadyAtAll, Keeping

LEMMA ChatReasoningKeeps ==
  /\ \A b, c : Steady(b, c) => Steady(b, ChatReasoning(c))
  /\ \A n, x : Follows(n, x) => Follows(ChatReasoning(n), ChatReasoning(x))
<1>1. ASSUME NEW b, NEW c, Steady(b, c) PROVE Steady(b, ChatReasoning(c))
  BY <1>1, NoDialKeeps, ReasoningSentKeeps, OnAdaptedKeeps, OffLoweredKeeps DEF ChatReasoning
<1>2. ASSUME NEW n, NEW x, Follows(n, x), Alike(n, x)
      PROVE  Follows(ChatReasoning(n), ChatReasoning(x))
  BY <1>2, AlikeFields, NoDialKeeps, ReasoningSentKeeps, OnAdaptedKeeps, OffLoweredKeeps
     DEF ChatReasoning, Asked
<1> QED BY <1>1, <1>2, SteadyAtAll, Keeping

LEMMA ChatRestKeeps ==
  /\ \A b, c : Steady(b, c) => Steady(b, ChatRest(c))
  /\ \A n, x : Follows(n, x) => Follows(ChatRest(n), ChatRest(x))
<1>1. ASSUME NEW b, NEW c, Steady(b, c) PROVE Steady(b, ChatRest(c))
  BY <1>1, PutKeeps DEF ChatRest
<1>2. ASSUME NEW n, NEW x, Follows(n, x), Alike(n, x) PROVE Follows(ChatRest(n), ChatRest(x))
  BY <1>2, AlikeFields, PutKeeps DEF ChatRest, Asked
<1> QED BY <1>1, <1>2, SteadyAtAll, Keeping

LEMMA ChatBuildKeeps ==
  /\ \A b, c : Steady(b, c) => Steady(b, ChatBuild(c, FALSE))
  /\ \A n, x : Follows(n, x) => Follows(ChatBuild(n, FALSE), ChatBuild(x, FALSE))
<1> DEFINE first(b) == ChatToolChoice(ChatTools(ChatSampling(ChatMessages(
                         ChatProbabilities(ChatMediaChecked(b), FALSE)))))
           parallel(b) == Put(first(b), "parallel_tool_calls", Asked(b, "tool_choice.parallel"))
           next(b) == ChatRest(CacheCommonPayload(ChatReasoning(ChatFormat(b))))
<1>1. \A b : ChatBuild(b, FALSE) = next(parallel(b))
  BY DEF ChatBuild
<1>2. \A b, c : Steady(b, c) => Steady(b, ChatProbabilities(c, FALSE))
  BY UnmeasurableProbabilitiesKeeps DEF ChatProbabilities
<1>3. ASSUME NEW n, NEW x, Follows(n, x)
      PROVE  Follows(ChatProbabilities(n, FALSE), ChatProbabilities(x, FALSE))
  <2>1. ASSUME Alike(n, x)
        PROVE  Follows(ChatProbabilities(n, FALSE), ChatProbabilities(x, FALSE))
    BY <1>3, <2>1, AlikeFields, UnmeasurableProbabilitiesKeeps
       DEF ChatProbabilities, ScoresNamedTokens
  <2> QED BY <1>2, <1>3, <2>1, SteadyAtAll, Keeping
<1>4. \A b, c : Steady(b, c) => Steady(b, first(c))
  BY <1>2, ChatToolChoiceKeeps, ChatToolsKeeps, ChatSamplingKeeps, ChatMessagesKeeps,
     ChatMediaCheckedKeeps
<1>5. \A n, x : Follows(n, x) => Follows(first(n), first(x))
  BY <1>3, ChatToolChoiceKeeps, ChatToolsKeeps, ChatSamplingKeeps, ChatMessagesKeeps,
     ChatMediaCheckedKeeps
<1>6. /\ \A b, c : Steady(b, c) => Steady(b, next(c))
      /\ \A n, x : Follows(n, x) => Follows(next(n), next(x))
  BY ChatRestKeeps, CacheCommonPayloadKeeps, ChatReasoningKeeps, ChatFormatKeeps
<1> HIDE DEF first, next
<1>7. ASSUME NEW b, NEW c, Steady(b, c) PROVE Steady(b, ChatBuild(c, FALSE))
  BY <1>1, <1>4, <1>6, <1>7, PutKeeps
<1>8. ASSUME NEW n, NEW x, Follows(n, x), Alike(n, x)
      PROVE  Follows(ChatBuild(n, FALSE), ChatBuild(x, FALSE))
  <2>1. Follows(parallel(n), parallel(x))
    BY <1>5, <1>8, AlikeFields, PutKeeps DEF Asked
  <2> HIDE DEF parallel
  <2> QED BY <1>1, <1>6, <2>1
<1> QED BY <1>7, <1>8, SteadyAtAll, Keeping

(* A stream of a request that is not measured is built as its call is. *)
LEMMA StreamedAlike ==
  ASSUME NEW b, Builder(b), ~JudgmentsViaTokenScoring(b),
         Asked(b, "probabilities") \in {Null, "off", "if_available", "required"}
  PROVE  ChatBuild(b, TRUE) = ChatBuild(b, FALSE)
<1> DEFINE c == ChatMediaChecked(b)
<1>1. c.request = b.request /\ c.compat = b.compat
  BY Failing DEF ChatMediaChecked, UnsupportedIf, Unsupported
<1>2. ~JudgmentsViaTokenScoring(c)
      /\ Asked(c, "probabilities") \in {Null, "off", "if_available", "required"}
  BY <1>1 DEF JudgmentsViaTokenScoring, ScoresNamedTokens, Measurable, Asked
<1> HIDE DEF c
<1>3. ChatProbabilities(c, TRUE) = ChatProbabilities(c, FALSE)
  BY <1>2 DEF ChatProbabilities, JudgmentsViaTokenScoring, UnmeasurableProbabilities
<1> QED BY <1>3 DEF ChatBuild, c

-----------------------------------------------------------------------------
(* The record of a measured judgment. *)
LEMMA RescopedKeeps ==
  /\ \A b, c, r : Steady(b, c) => Steady(b, Rescoped(c, r))
  /\ \A n, x, r, s : Follows(n, x) /\ (Alike(n, x) => r = s) => Follows(Rescoped(n, r), Rescoped(x, s))
<1>1. ASSUME NEW b, Builder(b), NEW r
      PROVE  LET c == Rescoped(b, r) IN
             /\ Builder(c) /\ c.policy = b.policy /\ c.compat = b.compat /\ c.request = r
             /\ c.local = r.config /\ c.wire = NoKnobs /\ c.records = b.records /\ c.failed = b.failed
  <2> DEFINE asks == [b EXCEPT !.request = r]
             told == [asks EXCEPT !.local = r.config]
             bare == [told EXCEPT !.wire = NoKnobs]
  <2>1. /\ Builder(asks) /\ asks.policy = b.policy /\ asks.compat = b.compat /\ asks.request = r
        /\ asks.records = b.records /\ asks.failed = b.failed
    BY <1>1 DEF Builder
  <2> HIDE DEF asks
  <2>2. /\ Builder(told) /\ told.policy = asks.policy /\ told.compat = asks.compat
        /\ told.request = asks.request /\ told.local = r.config /\ told.records = asks.records
        /\ told.failed = asks.failed
    BY <2>1, Relocated
  <2> HIDE DEF told
  <2>3. /\ Builder(bare) /\ bare.policy = told.policy /\ bare.compat = told.compat
        /\ bare.request = told.request /\ bare.local = told.local /\ bare.wire = NoKnobs
        /\ bare.records = told.records /\ bare.failed = told.failed
    BY <2>2, Rewired
  <2> HIDE DEF bare
  <2>4. Rescoped(b, r) = bare
    BY DEF Rescoped, bare, told, asks
  <2> QED BY <2>1, <2>2, <2>3, <2>4
<1>2. ASSUME NEW b, NEW c, NEW r, Steady(b, c) PROVE Steady(b, Rescoped(c, r))
  BY <1>1, <1>2 DEF Steady
<1>3. ASSUME NEW n, NEW x, NEW r, NEW s, Follows(n, x), Alike(n, x) => r = s
      PROVE  Follows(Rescoped(n, r), Rescoped(x, s))
  <2> DEFINE m == Rescoped(n, r)
             y == Rescoped(x, s)
  <2>1. Builder(n) /\ Builder(x)
    BY <1>3 DEF Follows, Alike, Refused, Pair
  <2>2. /\ Builder(m) /\ m.policy = n.policy /\ m.compat = n.compat /\ m.request = r
        /\ m.local = r.config /\ m.wire = NoKnobs /\ m.records = n.records /\ m.failed = n.failed
    BY <1>1, <2>1
  <2>3. /\ Builder(y) /\ y.policy = x.policy /\ y.compat = x.compat /\ y.request = s
        /\ y.local = s.config /\ y.wire = NoKnobs /\ y.records = x.records /\ y.failed = x.failed
    BY <1>1, <2>1
  <2> HIDE DEF m, y
  <2>4. Follows(m, y)
    BY <1>3, <2>2, <2>3 DEF Follows, Alike, Refused, Pair
  <2> QED BY <2>4 DEF m, y
<1> QED BY <1>2, <1>3

LEMMA WholeDroppedKeeps ==
  /\ \A b, c, path, mode : path # Null /\ Steady(b, c) => Steady(b, WholeDropped(c, path, mode))
  /\ \A n, x, path, mode : path # Null /\ Follows(n, x) =>
       Follows(WholeDropped(n, path, mode), WholeDropped(x, path, mode))
<1>1. ASSUME NEW b, NEW c, NEW path, NEW mode, path # Null, Steady(b, c)
      PROVE  Steady(b, WholeDropped(c, path, mode))
  BY <1>1, AdaptKeeps DEF WholeDropped
<1>2. ASSUME NEW n, NEW x, NEW path, NEW mode, path # Null, Follows(n, x), Alike(n, x)
      PROVE  Follows(WholeDropped(n, path, mode), WholeDropped(x, path, mode))
  BY <1>2, AlikeFields, AdaptKeeps DEF WholeDropped, Asked
<1> QED BY <1>1, <1>2, SteadyAtAll, Keeping

LEMMA MeasurementOnlyKeeps ==
  /\ \A b, c : Steady(b, c) => Steady(b, MeasurementOnly(c))
  /\ \A n, x : Follows(n, x) => Follows(MeasurementOnly(n), MeasurementOnly(x))
<1>1. DOMAIN UnmeasuredPaths = 1..9
  BY DEF UnmeasuredPaths
<1>2. \A i \in 1..9 : UnmeasuredPaths[i] # Null
  BY Named DEF UnmeasuredPaths, Paths, SamplingPaths
<1>3. /\ \A b, c : Steady(b, c) => Steady(b, FoldLeft(Dropped, c, UnmeasuredPaths))
      /\ \A n, x : Follows(n, x) =>
           Follows(FoldLeft(Dropped, n, UnmeasuredPaths), FoldLeft(Dropped, x, UnmeasuredPaths))
  BY <1>1, <1>2, AllDroppedKeeps
<1> QED BY <1>3, WholeDroppedKeeps, Named DEF MeasurementOnly

LEMMA JudgmentMessagesKeeps ==
  /\ \A b, c : Steady(b, c) => Steady(b, JudgmentMessages(c))
  /\ \A n, x : Follows(n, x) => Follows(JudgmentMessages(n), JudgmentMessages(x))
BY AlikeFields, RescopedKeeps, ChatMessagesKeeps DEF JudgmentMessages

LEMMA JudgmentAdaptationsKeeps ==
  /\ \A b, c : Steady(b, c) => Steady(b, JudgmentAdaptations(c))
  /\ \A n, x : Alike(n, x) => Follows(JudgmentAdaptations(n), JudgmentAdaptations(x))
<1> DEFINE allowed(b) == UnsupportedIf(ScoringRefused(b.request), b, "scoring")
           noted(b) == Adapt(allowed(b), "response_format", "client_side", Null, Null)
           generated(b) == Rescoped(MeasurementOnly(noted(b)), JudgmentGeneratedRequest(b.request))
<1>1. \A b : JudgmentAdaptations(b) =
        IF MixedJudgments(b) THEN ChatBuild(generated(b), FALSE)
        ELSE JudgmentMessages(MeasurementOnly(allowed(b)))
  BY DEF JudgmentAdaptations
<1>2. \A b, c : Steady(b, c) => Steady(b, allowed(c))
  BY UnsupportedIfKeeps, Named
<1>3. \A n, x : Alike(n, x) => Follows(allowed(n), allowed(x))
  BY AlikeFields, UnsupportedIfKeeps, Named DEF Follows
<1> HIDE DEF allowed
<1>4. \A b, c : Steady(b, c) => Steady(b, generated(c))
  BY <1>2, AdaptKeeps, MeasurementOnlyKeeps, RescopedKeeps, Named
<1>5. \A n, x : Alike(n, x) => Follows(noted(n), noted(x))
  BY <1>3, AdaptKeeps, Named
<1> HIDE DEF noted
<1>6. \A n, x : Alike(n, x) => Follows(generated(n), generated(x))
  BY <1>5, AlikeFields, MeasurementOnlyKeeps, RescopedKeeps
<1> HIDE DEF generated
<1>7. ASSUME NEW b, NEW c, Steady(b, c) PROVE Steady(b, JudgmentAdaptations(c))
  BY <1>1, <1>2, <1>4, <1>7, MeasurementOnlyKeeps, JudgmentMessagesKeeps, ChatBuildKeeps
<1>8. ASSUME NEW n, NEW x, Alike(n, x) PROVE Follows(JudgmentAdaptations(n), JudgmentAdaptations(x))
  <2>1. MixedJudgments(n) = MixedJudgments(x)
    BY <1>8, AlikeFields DEF MixedJudgments, Asked
  <2> QED BY <1>1, <1>3, <1>6, <1>8, <2>1, MeasurementOnlyKeeps, JudgmentMessagesKeeps,
             ChatBuildKeeps
<1> QED BY <1>7, <1>8

-----------------------------------------------------------------------------
(* Calls.                                                                  *)

LEMMA AskingAlike ==
  ASSUME NEW asked, NEW under \in {"note", "silent", "refuse"}
  PROVE  /\ Alike(Asking(asked, "note"), Asking(asked, under))
         /\ Builder(Asking(asked, under)) /\ Asking(asked, under).policy = under
         /\ Asking(asked, under).request = asked
<1>1. \A u : Asking(asked, u) =
        [request |-> asked, compat |-> CompatFor(server, asked.model), policy |-> u,
         local |-> asked.config, wire |-> [field \in {} |-> Null], records |-> <<>>, failed |-> Null]
  BY DEF Asking, Scope
<1> DEFINE compat == CompatFor(server, asked.model)
           bare == [field \in {} |-> Null]
<1> HIDE DEF compat, bare
<1>2. \A u : /\ Asking(asked, u).request = asked /\ Asking(asked, u).compat = compat
             /\ Asking(asked, u).policy = u /\ Asking(asked, u).local = asked.config
             /\ Asking(asked, u).wire = bare /\ Asking(asked, u).records = <<>>
             /\ Asking(asked, u).failed = Null
  BY <1>1 DEF compat, bare
<1>3. ASeq(<<>>) /\ ~Deviates(<<>>)
  BY Drops!EmptyIsASeq DEF ASeq, Deviates
<1>4. \A u \in {"note", "silent", "refuse"} : Builder(Asking(asked, u))
  BY <1>1, <1>2, <1>3 DEF Builder, compat, bare
<1>5. Alike(Asking(asked, "note"), Asking(asked, under))
  BY <1>2, <1>3, <1>4 DEF Alike, Pair
<1> QED BY <1>2, <1>4, <1>5

(* Is the call built as its plan was? *)
SameBuild(x, stream) ==
  stream = FALSE \/ ~JudgmentsViaTokenScoring(x)

LEMMA BuildKeeps ==
  ASSUME NEW n, NEW x, Alike(n, x),
         NEW dialect \in {"anthropic", "gemini", "responses", "chat"}, NEW stream \in BOOLEAN,
         Asked(x, "probabilities") \in {Null, "off", "if_available", "required"},
         dialect = "chat" => SameBuild(x, stream)
  PROVE  /\ Follows(Build(n, dialect, FALSE), Build(x, dialect, stream))
         /\ Steady(x, Build(x, dialect, stream))
<1>1. Follows(n, x) /\ Steady(x, x)
  BY SteadyAtAll DEF Follows
<1>2. CASE dialect = "anthropic"
  BY <1>1, <1>2, AnthropicBuildKeeps DEF Build
<1>3. CASE dialect = "gemini"
  BY <1>1, <1>3, GeminiBuildKeeps DEF Build
<1>4. CASE dialect = "responses"
  BY <1>1, <1>4, ResponsesBuildKeeps DEF Build
<1>5. CASE dialect = "chat"
  <2>1. Build(n, dialect, FALSE) = ChatBuild(n, FALSE) /\ Build(x, dialect, stream) = ChatBuild(x, stream)
    BY <1>5 DEF Build
  <2>2. ChatBuild(x, stream) = ChatBuild(x, FALSE)
    BY <1>5, StreamedAlike DEF SameBuild, Alike, Pair
  <2> QED BY <1>1, <2>1, <2>2, ChatBuildKeeps
<1> QED BY <1>2, <1>3, <1>4, <1>5

(* What a caller is told of a call that follows its plan. *)
LEMMA FollowedKept ==
  ASSUME NEW p, NEW c, Follows(p, c)
  PROVE  /\ c.policy = "refuse" => (c.failed # Null <=> p.failed # Null \/ Deviates(p.records))
         /\ c.policy # "refuse" => c.failed = p.failed
         /\ c.failed = Null => c.wire = p.wire /\ c.records = p.records
BY DEF Follows, Alike, Refused

CallInv ==
  /\ request.config["probabilities"] \in {Null, "off", "if_available", "required"}
  /\ server.dialect \in {"anthropic", "gemini", "responses", "chat"}
  /\ plan # Null => plan = Preview(Asking(request, "note"))
  /\ call # Null => plan # Null
  /\ CallKeepsThePlan

LEMMA InitCallInv == Init => CallInv
<1> SUFFICES ASSUME Init PROVE CallInv
  OBVIOUS
<1>1. PICK r \in Requests : request.config = r.config
  BY DEF Init
<1>2. LegalConfig(r.config, r.tools)
  BY RequestsAssumption DEF LegalRequest
<1>3. server \in Servers /\ plan = Null /\ call = Null
  BY DEF Init
<1> QED BY <1>1, <1>2, <1>3, ServersAssumption DEF CallInv, LegalConfig, CallKeepsThePlan

(* A call of the builder the plan describes is kept. *)
LEMMA CallKept ==
  ASSUME CallInv, plan # Null, NEW c, Follows(plan, c), NEW how, NEW paths,
         c.policy = policy', plan' = plan, call' = CallOf(c, how, paths)
  PROVE  CallKeepsThePlan'
<1>1. /\ call'.failed = c.failed /\ call'.wire = c.wire
      /\ call'.shown = IF c.policy = "silent" THEN <<>> ELSE c.records
      /\ call'.cuts = HasClientSideStop(c.records)
  BY DEF CallOf
<1>2. FailsAsPlanned'
  BY <1>1, FollowedKept DEF FailsAsPlanned
<1> QED BY <1>1, <1>2, FollowedKept DEF CallKeepsThePlan

LEMMA SendKeeps ==
  ASSUME CallInv, NEW stream \in BOOLEAN, Send(stream)
  PROVE  CallInv'
<1>1. PICK under \in Policies :
        /\ ~Scored(Asking(request, under), stream) /\ policy' = under
        /\ call' = CallOf(Build(Asking(request, under), server.dialect, stream), "generated", Null)
  BY DEF Send
<1>2. plan # Null /\ UNCHANGED <<server, request, plan, again, back>>
  BY DEF Send
<1> DEFINE n == Asking(request, "note")
           x == Asking(request, under)
           c == Build(x, server.dialect, stream)
<1>3. under \in {"note", "silent", "refuse"}
  BY PoliciesAssumption
<1>4. /\ Alike(n, x) /\ Builder(x) /\ x.policy = under /\ x.request = request
  BY <1>3, AskingAlike
<1>5. Asked(x, "probabilities") \in {Null, "off", "if_available", "required"}
  BY <1>4 DEF Asked, CallInv
<1>6. CASE Scored(x, FALSE)
  <2>1. PlannedOtherwise'
    BY <1>1, <1>2, <1>6 DEF PlannedOtherwise, CallOf, Scored, Asking
  <2> QED BY <1>2, <2>1 DEF CallInv, CallKeepsThePlan, Preview, Scored, Asking, Build
<1>7. CASE ~Scored(x, FALSE)
  <2>1. server.dialect = "chat" => SameBuild(x, stream)
    BY <1>7 DEF SameBuild, Scored
  <2>2. ~Scored(n, FALSE)
    BY <1>4, <1>7, AlikeFields
       DEF Scored, JudgmentsViaTokenScoring, ScoresNamedTokens, Measurable, Asked
  <2>3. plan = Build(n, server.dialect, FALSE)
    BY <1>2, <2>2 DEF CallInv, Preview
  <2> HIDE DEF n, x
  <2>4. Follows(plan, c) /\ Steady(x, c)
    BY <1>4, <1>5, <2>1, <2>3, BuildKeeps DEF CallInv
  <2>5. c.policy = policy'
    BY <1>1, <1>4, <2>4 DEF Steady
  <2>6. call' = CallOf(c, "generated", Null)
    BY <1>1 DEF x
  <2> HIDE DEF c
  <2>7. CallKeepsThePlan'
    BY <1>2, <2>4, <2>5, <2>6, CallKept
  <2> QED BY <1>2, <2>7 DEF CallInv, Preview, Scored, Asking, Build
<1> QED BY <1>6, <1>7

LEMMA ScoreKeeps ==
  ASSUME CallInv, Score
  PROVE  CallInv'
<1>1. plan # Null /\ UNCHANGED <<server, request, plan, again, back>>
  BY DEF Score
<1>2. PICK under \in Policies, measured \in BOOLEAN : \E paths :
        /\ Scored(Asking(request, under), FALSE) /\ policy' = under
        /\ call' = CallOf(UnsupportedIf(Null \in Range(paths),
                            JudgmentComplete(Asking(request, under), measured), "response_format"),
                          IF measured THEN "measured" ELSE "ignored", paths)
  BY DEF Score
<1>3. PICK paths :
        /\ Scored(Asking(request, under), FALSE) /\ policy' = under
        /\ call' = CallOf(UnsupportedIf(Null \in Range(paths),
                            JudgmentComplete(Asking(request, under), measured), "response_format"),
                          IF measured THEN "measured" ELSE "ignored", paths)
  BY <1>2
<1> DEFINE n == Asking(request, "note")
           x == Asking(request, under)
           b == JudgmentAdaptations(x)
           broken == Null \in Range(paths)
           c == UnsupportedIf(broken, b, "response_format")
<1>4. under \in {"note", "silent", "refuse"}
  BY PoliciesAssumption
<1>5. /\ Alike(n, x) /\ Builder(x) /\ x.policy = under
  BY <1>4, AskingAlike
<1>6. CASE ~measured
  <2>1. PlannedOtherwise'
    BY <1>1, <1>3, <1>6 DEF PlannedOtherwise, CallOf, Scored, Asking
  <2> QED BY <1>1, <2>1 DEF CallInv, CallKeepsThePlan, Preview, Scored, Asking, Build
<1>7. CASE measured
  <2>1. Scored(n, FALSE)
    BY <1>3, <1>5, AlikeFields
       DEF Scored, JudgmentsViaTokenScoring, ScoresNamedTokens, Measurable, Asked
  <2>2. plan = JudgmentAdaptations(n)
    BY <1>1, <2>1 DEF CallInv, Preview
  <2>3. call' = CallOf(c, "measured", paths)
    BY <1>3, <1>7 DEF JudgmentComplete
  <2> HIDE DEF n, x
  <2>4. Follows(plan, b) /\ Steady(x, b)
    BY <1>5, <2>2, JudgmentAdaptationsKeeps, SteadyAtAll
  <2> HIDE DEF b, broken
  <2>5. Builder(b) /\ b.policy = policy'
    BY <1>3, <1>5, <2>4 DEF Steady
  <2>6. CallKeepsThePlan'
    <3>1. CASE broken /\ b.failed = Null
      <4>1. c = [b EXCEPT !.failed = "response_format"]
        BY <3>1 DEF UnsupportedIf, Unsupported
      <4>2. call'.how = "measured" /\ call'.failed = "response_format"
        <5> HIDE DEF c
        <5>1. c.failed = "response_format"
          BY <2>5, <4>1, Failing DEF Builder
        <5> QED BY <2>3, <5>1 DEF CallOf
      <4> QED BY <4>2 DEF CallKeepsThePlan
    <3>2. CASE ~(broken /\ b.failed = Null)
      <4>1. c = b
        BY <3>2 DEF UnsupportedIf, Unsupported
      <4> QED BY <1>1, <2>3, <2>4, <2>5, <4>1, CallKept
    <3> QED BY <3>1, <3>2
  <2> QED BY <1>1, <2>6 DEF CallInv, Preview, Scored, Asking, Build
<1> QED BY <1>6, <1>7

LEMMA StepKeepsCallInv == CallInv /\ [Next]_vars => CallInv'
<1> SUFFICES ASSUME CallInv, [Next]_vars PROVE CallInv'
  OBVIOUS
<1>1. CASE Plan
  <2>1. plan = Null /\ call = Null /\ call' = Null
    BY <1>1 DEF Plan, CallInv
  <2> QED BY <1>1, <2>1 DEF Plan, CallInv, CallKeepsThePlan, Preview, Scored, Asking, Build
<1>2. CASE Send(FALSE) \/ Send(TRUE)
  BY <1>2, SendKeeps
<1>3. CASE Score
  BY <1>3, ScoreKeeps
<1>4. CASE UNCHANGED <<server, request, plan, policy, call>>
  BY <1>4
     DEF CallInv, CallKeepsThePlan, FailsAsPlanned, PlannedOtherwise, Preview, Scored, Asking,
              Build
<1>5. CASE Reask \/ ReadBack
  BY <1>4, <1>5 DEF Reask, ReadBack
<1>6. CASE UNCHANGED vars
  BY <1>4, <1>6 DEF vars
<1> QED BY <1>1, <1>2, <1>3, <1>5, <1>6 DEF Next

(* A call keeps its plan, on every server, for every request and policy:   *)
(* what plan() shows is what complete() and stream() do                    *)
(* (src/adapter.ts), whichever of the four dialects builds it.             *)
THEOREM CallKeepsThePlanHolds == Spec => []CallKeepsThePlan
<1>1. CallInv => CallKeepsThePlan
  BY DEF CallInv
<1> QED BY <1>1, InitCallInv, StepKeepsCallInv, PTL DEF Spec
-----------------------------------------------------------------------------
(* Products and sums of shares. *)
Products == INSTANCE FoldLemmas WITH Op <- Times

APath(s) == Products!ASeq(s)

(* The likelihoods of keys whose paths are prefix-free, on any table whose *)
(* shares after a node add up to no more than the whole.                   *)

LEMMA ProductIs == \A f : Product(f) = Products!Folded(1, f)
BY Zenon DEF Product, FoldLeft, MapThenFoldSet, Max, Products!Folded, Products!FoldLeft,
             Products!MapThenFoldSet, Products!Max

LEMMA FiniteIs == \A S : IsFiniteSet(S) <=> Products!IsFiniteSet(S)
BY DEF IsFiniteSet, Products!IsFiniteSet

LEMMA NoProduct == ASSUME NEW f, DOMAIN f = 1..0, f = [i \in 1..0 |-> f[i]] PROVE Product(f) = 1
<1>1. PICK h : h[0] = 1 /\ h[0] = Products!Folded(1, f)
  BY Products!FoldTrace
<1> QED BY <1>1, ProductIs

LEMMA ProductOfMore ==
  ASSUME NEW k \in Nat, NEW f, NEW g, f = [i \in 1..k |-> f[i]], g = [i \in 1..(k + 1) |-> g[i]],
         \A i \in 1..k : g[i] = f[i]
  PROVE  Product(g) = Product(f) * g[k + 1]
<1>1. APath(f) /\ Len(f) = k /\ APath(g) /\ Len(g) = k + 1
  BY Products!Tabled DEF APath
<1> DEFINE more == Append(f, g[k + 1])
<1>2. /\ APath(more) /\ Len(more) = k + 1 /\ more[k + 1] = g[k + 1]
      /\ \A i \in 1..k : more[i] = f[i]
  BY <1>1, Products!Appended DEF APath
<1>3. g = more
  <2> HIDE DEF more
  <2>1. ASSUME NEW i \in 1..(k + 1) PROVE g[i] = more[i]
    <3>1. CASE i = k + 1
      BY <1>2, <3>1
    <3>2. CASE i # k + 1
      <4>1. i \in 1..k
        BY <3>2
      <4> QED BY <1>2, <4>1
    <3> QED BY <3>1, <3>2
  <2> QED BY <1>1, <1>2, <2>1, Products!SameSeq DEF APath
<1>4. Products!Folded(1, more) = Times(Products!Folded(1, f), g[k + 1])
  BY <1>1, Products!FoldOfMore DEF APath
<1> HIDE DEF more
<1> QED BY <1>3, <1>4, ProductIs DEF Times

LEMMA WholesOfMore ==
  /\ Wholes(0) = 1
  /\ \A n \in Nat : Wholes(n) \in Nat /\ Wholes(n + 1) = Wholes(n) * Whole
<1> DEFINE whole(n) == [i \in 1..n |-> Whole]
           A == {n \in Nat : Wholes(n) \in Nat}
<1>1. Wholes(0) = 1
  <2>1. DOMAIN whole(0) = 1..0 /\ whole(0) = [i \in 1..0 |-> whole(0)[i]]
    OBVIOUS
  <2> HIDE DEF whole
  <2>2. Product(whole(0)) = 1
    BY <2>1, NoProduct
  <2> QED BY <2>2 DEF Wholes, whole
<1>2. ASSUME NEW n \in Nat PROVE Wholes(n + 1) = Wholes(n) * Whole
  <2>1. /\ whole(n) = [i \in 1..n |-> whole(n)[i]]
        /\ whole(n + 1) = [i \in 1..(n + 1) |-> whole(n + 1)[i]]
        /\ \A i \in 1..n : whole(n + 1)[i] = whole(n)[i]
        /\ whole(n + 1)[n + 1] = Whole
    OBVIOUS
  <2> HIDE DEF whole
  <2>2. Product(whole(n + 1)) = Product(whole(n)) * Whole
    BY <2>1, ProductOfMore
  <2> QED BY <2>2 DEF Wholes, whole
<1>3. Whole \in Nat
  BY DEF Whole
<1>4. \A n \in Nat : Wholes(n) \in Nat
  <2>1. 0 \in A /\ \A n \in Nat : n \in A => n + 1 \in A
    BY <1>1, <1>2, <1>3
  <2> HIDE DEF A
  <2>2. Nat \subseteq A
    BY <2>1, Products!SetInduction
  <2> QED BY <2>2 DEF A
<1> QED BY <1>1, <1>2, <1>4

(* The share of a path's token i, and the likelihood of its first k.       *)
ShareAt(path, table, i) == table[SubSeq(path, 1, i - 1)][path[i]]
UpTo(path, table, k) == Product([i \in 1..k |-> ShareAt(path, table, i)])

LEMMA LikelihoodIs ==
  ASSUME NEW path, APath(path), NEW table
  PROVE  Likelihood(path, table) = UpTo(path, table, Len(path))
<1>1. DOMAIN path = 1..Len(path)
  BY Products!SeqLen DEF APath
<1> QED BY <1>1 DEF Likelihood, UpTo, ShareAt

LEMMA UpToNone == ASSUME NEW path, NEW table PROVE UpTo(path, table, 0) = 1
<1> DEFINE f == [i \in 1..0 |-> ShareAt(path, table, i)]
<1>1. DOMAIN f = 1..0 /\ f = [i \in 1..0 |-> f[i]]
  OBVIOUS
<1> HIDE DEF f
<1>2. Product(f) = 1
  BY <1>1, NoProduct
<1> QED BY <1>2 DEF f, UpTo

LEMMA UpToMore ==
  ASSUME NEW path, NEW table, NEW k \in Nat
  PROVE  UpTo(path, table, k + 1) = UpTo(path, table, k) * ShareAt(path, table, k + 1)
<1> DEFINE f(n) == [i \in 1..n |-> ShareAt(path, table, i)]
<1>1. /\ f(k) = [i \in 1..k |-> f(k)[i]]
      /\ f(k + 1) = [i \in 1..(k + 1) |-> f(k + 1)[i]]
      /\ \A i \in 1..k : f(k + 1)[i] = f(k)[i]
      /\ f(k + 1)[k + 1] = ShareAt(path, table, k + 1)
  OBVIOUS
<1> HIDE DEF f
<1>2. Product(f(k + 1)) = Product(f(k)) * ShareAt(path, table, k + 1)
  BY <1>1, ProductOfMore
<1> QED BY <1>2 DEF f, UpTo

(* Two paths that agree so far are as likely so far. *)
Agree(p, q, k) == k <= Len(p) /\ k <= Len(q) /\ \A i \in 1..k : p[i] = q[i]

LEMMA SameStart ==
  ASSUME NEW p, NEW q, APath(p), APath(q), NEW k \in Nat, Agree(p, q, k)
  PROVE  SubSeq(p, 1, k) = SubSeq(q, 1, k)
<1>1. APath(SubSeq(p, 1, k)) /\ Len(SubSeq(p, 1, k)) = k /\ \A i \in 1..k : SubSeq(p, 1, k)[i] = p[i]
  <2>1. 1 \in Nat \ {0} /\ k <= Len(p)
    BY DEF Agree
  <2> QED BY <2>1, Products!Sliced DEF APath
<1>2. APath(SubSeq(q, 1, k)) /\ Len(SubSeq(q, 1, k)) = k /\ \A i \in 1..k : SubSeq(q, 1, k)[i] = q[i]
  <2>1. 1 \in Nat \ {0} /\ k <= Len(q)
    BY DEF Agree
  <2> QED BY <2>1, Products!Sliced DEF APath
<1> QED BY <1>1, <1>2, Products!SameSeq DEF APath, Agree

LEMMA SameUpTo ==
  ASSUME NEW p, NEW q, APath(p), APath(q), NEW table, NEW k \in Nat, Agree(p, q, k)
  PROVE  UpTo(p, table, k) = UpTo(q, table, k)
<1>1. ASSUME NEW i \in 1..k PROVE ShareAt(p, table, i) = ShareAt(q, table, i)
  <2>1. i - 1 \in Nat /\ Agree(p, q, i - 1) /\ p[i] = q[i]
    BY DEF Agree
  <2>2. SubSeq(p, 1, i - 1) = SubSeq(q, 1, i - 1)
    BY <2>1, SameStart
  <2> QED BY <2>1, <2>2 DEF ShareAt
<1>2. [i \in 1..k |-> ShareAt(p, table, i)] = [i \in 1..k |-> ShareAt(q, table, i)]
  BY <1>1
<1> QED BY <1>2 DEF UpTo

-----------------------------------------------------------------------------
(* The trie of prefix-free paths, and a table of what may come after a node. *)
PrefixFree(P) == \A p, q \in P : Agree(p, q, Len(p)) => p = q

Trie(P, longest) ==
  /\ IsFiniteSet(P) /\ longest \in Nat /\ PrefixFree(P)
  /\ \A p \in P : APath(p) /\ Len(p) <= longest

SumAfter(P, table, node) ==
  MapThenSumSet(LAMBDA token : table[node][token], Children(P, node))

Distributes(P, table) ==
  \A node \in TrieNodes(P) :
    /\ Products!Numbers(table[node], Children(P, node))
    /\ SumAfter(P, table, node) <= Whole

(* The paths that begin as p does. *)
Begun(P, p, k) == {q \in P : Agree(p, q, k)}

(* None of them ends where another goes on. *)
LEMMA GoesOn ==
  ASSUME NEW P, NEW longest, Trie(P, longest), NEW p \in P, NEW k \in Nat, k < Len(p),
         NEW q \in P, Agree(p, q, k)
  PROVE  k < Len(q)
<1>1. Len(q) \in Nat /\ Len(p) \in Nat /\ k <= Len(q)
  BY Products!SeqLen DEF Trie, APath, Agree
<1>2. CASE Len(q) = k
  <2>1. Agree(q, p, Len(q))
    BY <1>2 DEF Agree
  <2>2. q = p
    BY <2>1 DEF Trie, PrefixFree
  <2> QED BY <1>2, <2>2
<1> QED BY <1>1, <1>2

LEMMA NodeIs ==
  ASSUME NEW P, NEW longest, Trie(P, longest), NEW p \in P, NEW k \in Nat, k < Len(p)
  PROVE  /\ SubSeq(p, 1, k) \in TrieNodes(P)
         /\ Children(P, SubSeq(p, 1, k)) = {q[k + 1] : q \in Begun(P, p, k)}
<1> DEFINE node == SubSeq(p, 1, k)
<1>1. APath(p) /\ Len(p) \in Nat /\ DOMAIN p = 1..Len(p)
  BY Products!SeqLen DEF Trie, APath
<1>2. APath(node) /\ Len(node) = k /\ \A i \in 1..k : node[i] = p[i]
  <2>1. 1 \in Nat \ {0} /\ k <= Len(p)
    BY <1>1
  <2> QED BY <1>1, <2>1, Products!Sliced DEF APath
<1>3. node \in TrieNodes(P)
  <2>1. k + 1 \in DOMAIN p /\ (k + 1) - 1 = k
    BY <1>1
  <2>2. node \in {SubSeq(p, 1, i - 1) : i \in DOMAIN p}
    BY <2>1
  <2> HIDE DEF node
  <2> QED BY <2>2 DEF TrieNodes
<1>4. ASSUME NEW q \in P PROVE IsPrefix(node, q) /\ Len(node) < Len(q) <=> q \in Begun(P, p, k)
  <2>1. APath(q) /\ Len(q) \in Nat
    BY Products!SeqLen DEF Trie, APath
  <2>2. CASE k > Len(q)
    BY <1>1, <1>2, <2>1, <2>2 DEF Begun, Agree
  <2>3. CASE k <= Len(q)
    <3>1. /\ APath(SubSeq(q, 1, k)) /\ Len(SubSeq(q, 1, k)) = k
          /\ \A i \in 1..k : SubSeq(q, 1, k)[i] = q[i]
      <4>1. 1 \in Nat \ {0}
        OBVIOUS
      <4> QED BY <2>1, <2>3, <4>1, Products!Sliced DEF APath
    <3>2. SubSeq(node, 1, k) = node
      <4>1. Agree(node, p, k)
        BY <1>1, <1>2 DEF Agree
      <4> HIDE DEF node
      <4>2. SubSeq(node, 1, k) = SubSeq(p, 1, k)
        BY <1>1, <1>2, <4>1, SameStart
      <4> QED BY <4>2 DEF node
    <3>3. node = SubSeq(q, 1, k) <=> Agree(p, q, k)
      <4>1. ASSUME node = SubSeq(q, 1, k) PROVE Agree(p, q, k)
        BY <1>1, <1>2, <2>3, <3>1, <4>1 DEF Agree
      <4>2. ASSUME Agree(p, q, k) PROVE node = SubSeq(q, 1, k)
        BY <1>1, <2>1, <4>2, SameStart
      <4> QED BY <4>1, <4>2
    <3>4. IsPrefix(node, q) <=> Agree(p, q, k)
      <4> HIDE DEF node
      <4> QED BY <1>2, <2>1, <2>3, <3>2, <3>3 DEF IsPrefix
    <3>5. ASSUME Agree(p, q, k) PROVE k < Len(q)
      BY <3>5, GoesOn
    <3> HIDE DEF node
    <3> QED BY <1>2, <3>4, <3>5 DEF Begun
  <2> QED BY <1>1, <2>1, <2>2, <2>3
<1>5. {q \in P : IsPrefix(node, q) /\ Len(node) < Len(q)} = Begun(P, p, k)
  <2> HIDE DEF node
  <2>1. Begun(P, p, k) \subseteq P
    BY DEF Begun
  <2> QED BY <1>4, <2>1
<1>6. Children(P, node) = {q[k + 1] : q \in Begun(P, p, k)}
  <2> HIDE DEF node
  <2> QED BY <1>2, <1>5 DEF Children
<1> QED BY <1>3, <1>6

LEMMA SharesAreNumbers ==
  ASSUME NEW P, NEW longest, Trie(P, longest), NEW table, Distributes(P, table), NEW p \in P
  PROVE  /\ \A k \in Nat : k < Len(p) => ShareAt(p, table, k + 1) \in Nat
         /\ \A k \in Nat : k <= Len(p) => UpTo(p, table, k) \in Nat
<1>0. APath(p) /\ Len(p) \in Nat /\ DOMAIN p = 1..Len(p)
  BY Products!SeqLen DEF Trie, APath
<1>1. ASSUME NEW k \in Nat, k < Len(p) PROVE ShareAt(p, table, k + 1) \in Nat
  <2>1. /\ SubSeq(p, 1, k) \in TrieNodes(P)
        /\ Children(P, SubSeq(p, 1, k)) = {q[k + 1] : q \in Begun(P, p, k)}
    BY <1>1, NodeIs
  <2>2. p \in Begun(P, p, k)
    BY <1>0, <1>1 DEF Begun, Agree
  <2>3. p[k + 1] \in Children(P, SubSeq(p, 1, k))
    BY <2>1, <2>2
  <2>4. (k + 1) - 1 = k
    OBVIOUS
  <2> QED BY <2>1, <2>3, <2>4 DEF Distributes, Products!Numbers, ShareAt
<1> DEFINE A == {k \in Nat : k <= Len(p) => UpTo(p, table, k) \in Nat}
<1>2. 0 \in A
  BY UpToNone
<1>3. ASSUME NEW k \in Nat, k \in A PROVE k + 1 \in A
  <2> SUFFICES ASSUME k + 1 <= Len(p) PROVE UpTo(p, table, k + 1) \in Nat
    OBVIOUS
  <2>1. UpTo(p, table, k) \in Nat /\ ShareAt(p, table, k + 1) \in Nat
    BY <1>0, <1>1, <1>3
  <2>2. UpTo(p, table, k + 1) = UpTo(p, table, k) * ShareAt(p, table, k + 1)
    BY UpToMore
  <2> HIDE DEF A
  <2> QED BY <2>1, <2>2
<1> HIDE DEF A
<1>4. Nat \subseteq A
  BY <1>2, <1>3, Products!SetInduction
<1> QED BY <1>1, <1>4 DEF A

(* The likelihoods of the paths of P, and their sums. *)
Likelihoods(P, table, longest) == [p \in P |-> Scaled(p, longest, table)]

Adding(P, table, longest, g) == Products!Sums(g, Likelihoods(P, table, longest), P)

LEMMA LikelihoodsAreNumbers ==
  ASSUME NEW P, NEW longest, Trie(P, longest), NEW table, Distributes(P, table)
  PROVE  /\ Products!Numbers(Likelihoods(P, table, longest), P)
         /\ \A p \in P : Likelihoods(P, table, longest)[p] =
                         UpTo(p, table, Len(p)) * Wholes(longest - Len(p))
<1> SUFFICES ASSUME NEW p \in P
             PROVE  /\ Likelihoods(P, table, longest)[p] \in Nat
                    /\ Likelihoods(P, table, longest)[p] =
                         UpTo(p, table, Len(p)) * Wholes(longest - Len(p))
  BY DEF Products!Numbers
<1>1. APath(p) /\ Len(p) \in Nat /\ longest - Len(p) \in Nat
  BY Products!SeqLen DEF Trie, APath
<1>2. UpTo(p, table, Len(p)) \in Nat
  BY <1>1, SharesAreNumbers
<1>3. Wholes(longest - Len(p)) \in Nat
  BY <1>1, WholesOfMore
<1>4. Likelihoods(P, table, longest)[p] = UpTo(p, table, Len(p)) * Wholes(longest - Len(p))
  BY <1>1, LikelihoodIs DEF Likelihoods, Scaled
<1> QED BY <1>2, <1>3, <1>4

(* The paths that begin as p does share what is left of the whole there.   *)
ShareOf(P, table, longest, g, p, k) ==
  g[Begun(P, p, k)] <= UpTo(p, table, k) * Wholes(longest - k)

LEMMA LeafShares ==
  ASSUME NEW P, NEW longest, Trie(P, longest), NEW table, Distributes(P, table),
         NEW g, Adding(P, table, longest, g), NEW p \in P
  PROVE  ShareOf(P, table, longest, g, p, Len(p))
<1> DEFINE f == Likelihoods(P, table, longest)
<1>1. APath(p) /\ Len(p) \in Nat /\ longest - Len(p) \in Nat
  BY Products!SeqLen DEF Trie, APath
<1>2. Begun(P, p, Len(p)) = {p}
  BY <1>1 DEF Begun, Agree, Trie, PrefixFree
<1>3. Products!Numbers(f, P) /\ f[p] = UpTo(p, table, Len(p)) * Wholes(longest - Len(p))
  BY LikelihoodsAreNumbers
<1> HIDE DEF f
<1>4. Products!Added(g, f, P)
  <2>1. Products!IsFiniteSet(P) /\ Products!Sums(g, f, P)
    BY FiniteIs DEF Trie, Adding, f
  <2> QED BY <1>3, <2>1, Products!SumOfMore
<1>5. {p} \in SUBSET P /\ p \in {p} /\ {p} \ {p} = {}
  OBVIOUS
<1>6. g[{p}] = f[p] + g[{}] /\ g[{}] = 0
  BY <1>4, <1>5 DEF Products!Added
<1>7. f[p] \in Nat
  BY <1>3 DEF Products!Numbers
<1> QED BY <1>2, <1>3, <1>6, <1>7 DEF ShareOf

(* The paths that go on from p's first k tokens with c begin as one of     *)
(* them does.                                                              *)
LEMMA TwigIs ==
  ASSUME NEW P, NEW longest, Trie(P, longest), NEW p \in P, NEW k \in Nat, k < Len(p),
         NEW q \in Begun(P, p, k)
  PROVE  /\ {r \in Begun(P, p, k) : r[k + 1] = q[k + 1]} = Begun(P, q, k + 1)
         /\ k + 1 <= Len(q)
<1>1. \A r \in P : Len(r) \in Nat
  BY Products!SeqLen DEF Trie, APath
<1>2. \A r \in Begun(P, p, k) : r \in P /\ Agree(p, r, k) /\ k < Len(r)
  BY GoesOn DEF Begun
<1>3. k + 1 <= Len(q)
  BY <1>1, <1>2
<1>4. ASSUME NEW r \in Begun(P, p, k), r[k + 1] = q[k + 1] PROVE r \in Begun(P, q, k + 1)
  <2>1. k + 1 <= Len(r) /\ k + 1 <= Len(q)
    BY <1>1, <1>2
  <2>2. ASSUME NEW i \in 1..(k + 1) PROVE q[i] = r[i]
    <3>1. CASE i = k + 1
      BY <1>4, <3>1
    <3>2. CASE i # k + 1
      <4>1. i \in 1..k
        BY <3>2
      <4> QED BY <1>2, <4>1 DEF Agree
    <3> QED BY <3>1, <3>2
  <2> QED BY <1>2, <2>1, <2>2 DEF Begun, Agree
<1>5. ASSUME NEW r \in Begun(P, q, k + 1) PROVE r \in Begun(P, p, k) /\ r[k + 1] = q[k + 1]
  <2>1. r \in P /\ Agree(q, r, k + 1)
    BY DEF Begun
  <2>2. k + 1 \in 1..(k + 1) /\ \A i \in 1..k : i \in 1..(k + 1)
    OBVIOUS
  <2>3. \A i \in 1..k : p[i] = r[i]
    BY <1>2, <2>1, <2>2 DEF Agree
  <2>4. k <= Len(p) /\ k <= Len(r)
    BY <1>1, <2>1 DEF Agree
  <2> QED BY <2>1, <2>2, <2>3, <2>4 DEF Begun, Agree
<1> QED BY <1>3, <1>4, <1>5

LEMMA ChildrenAreFinite ==
  ASSUME NEW P, NEW longest, Trie(P, longest), NEW p \in P, NEW k \in Nat, k < Len(p)
  PROVE  Products!IsFiniteSet(Children(P, SubSeq(p, 1, k)))
<1> DEFINE B == Begun(P, p, k)
           C == Children(P, SubSeq(p, 1, k))
           next == [q \in B |-> q[k + 1]]
<1>1. C = {q[k + 1] : q \in B}
  BY NodeIs
<1>2. Products!IsFiniteSet(P) /\ B \in SUBSET P
  BY FiniteIs DEF Trie, Begun
<1>3. Products!IsFiniteSet(B)
  <2> HIDE DEF B
  <2> QED BY <1>2, Products!FS_Subset
<1>4. next \in Products!Surjection(B, C)
  <2> HIDE DEF B, C
  <2>1. next \in [B -> C]
    BY <1>1
  <2>2. \A c \in C : \E q \in B : next[q] = c
    BY <1>1
  <2> HIDE DEF next
  <2> QED BY <2>1, <2>2 DEF Products!Surjection
<1> HIDE DEF B, C, next
<1>5. Products!IsFiniteSet(C)
  BY <1>3, <1>4, Products!FS_Surjection
<1> QED BY <1>5 DEF C

(* The sum of the shares after a node is a sum. *)
LEMMA SumAfterIs ==
  ASSUME NEW P, NEW table, NEW node, Products!IsFiniteSet(Children(P, node))
  PROVE  \E h : /\ Products!Sums(h, table[node], Children(P, node))
                /\ SumAfter(P, table, node) = h[Children(P, node)]
<1> DEFINE C == Children(P, node)
           f == table[node]
           IsSum(h) == h = [s \in SUBSET C |->
                              IF s = {} THEN 0
                              ELSE f[CHOOSE x \in s : TRUE] + h[s \ {CHOOSE x \in s : TRUE}]]
           h == CHOOSE h : IsSum(h)
<1>1. SumAfter(P, table, node) = h[C]
  BY DEF SumAfter, MapThenSumSet, MapThenFoldSet
<1>2. \E j : IsSum(j)
  <2> HIDE DEF C, f
  <2>1. PICK j : Products!Sums(j, f, C)
    BY Products!SumEquation DEF C
  <2> QED BY <2>1 DEF Products!Sums, Products!SumStep
<1>3. IsSum(h)
  <2> HIDE DEF IsSum
  <2> QED BY <1>2
<1>4. Products!Sums(h, f, C)
  <2> HIDE DEF h, C, f
  <2> QED BY <1>3 DEF Products!Sums, Products!SumStep
<1> HIDE DEF h
<1> QED BY <1>1, <1>4

(* A path that goes on shares what the paths it goes on to share.          *)
LEMMA BranchShares ==
  ASSUME NEW P, NEW longest, Trie(P, longest), NEW table, Distributes(P, table),
         NEW g, Adding(P, table, longest, g), NEW p \in P, NEW k \in Nat, k < Len(p),
         \A q \in Begun(P, p, k) : ShareOf(P, table, longest, g, q, k + 1)
  PROVE  ShareOf(P, table, longest, g, p, k)
<1> DEFINE f == Likelihoods(P, table, longest)
           node == SubSeq(p, 1, k)
           C == Children(P, node)
           B == Begun(P, p, k)
           M == UpTo(p, table, k)
           R == Wholes(longest - (k + 1))
           Z == M * R
           U(D) == {q \in B : q[k + 1] \in D}
<1>1. APath(p) /\ Len(p) \in Nat /\ Len(p) <= longest /\ longest \in Nat
  BY Products!SeqLen DEF Trie, APath
<1>2. M \in Nat /\ R \in Nat /\ Wholes(longest - k) = R * Whole /\ Z \in Nat
  <2>1. longest - (k + 1) \in Nat /\ (longest - (k + 1)) + 1 = longest - k
    BY <1>1
  <2>2. R \in Nat /\ Wholes(longest - k) = R * Whole
    BY <2>1, WholesOfMore
  <2>3. M \in Nat
    BY <1>1, SharesAreNumbers
  <2> QED BY <2>2, <2>3
<1>3. node \in TrieNodes(P) /\ C = {q[k + 1] : q \in B}
  BY NodeIs
<1>4. Products!IsFiniteSet(C)
  BY ChildrenAreFinite
<1>5. Products!Numbers(table[node], C) /\ SumAfter(P, table, node) <= Whole
  BY <1>3 DEF Distributes
<1>6. PICK h : Products!Sums(h, table[node], C) /\ SumAfter(P, table, node) = h[C]
  BY <1>4, SumAfterIs
<1>7. Products!Added(h, table[node], C)
  <2> HIDE DEF C, node
  <2> QED BY <1>4, <1>5, <1>6, Products!SumOfMore
<1>8. Products!IsFiniteSet(P) /\ Products!Numbers(f, P) /\ Products!Sums(g, f, P)
  BY FiniteIs, LikelihoodsAreNumbers DEF Trie, Adding
<1>9. Products!Added(g, f, P)
  <2> HIDE DEF f
  <2> QED BY <1>8, Products!SumOfMore
<1>10. B \in SUBSET P
  BY DEF Begun
<1>11. ASSUME NEW q \in B
       PROVE  /\ U({q[k + 1]}) = Begun(P, q, k + 1)
              /\ UpTo(q, table, k + 1) = M * table[node][q[k + 1]]
  <2>1. {r \in B : r[k + 1] = q[k + 1]} = Begun(P, q, k + 1)
    BY TwigIs
  <2>2. U({q[k + 1]}) = {r \in B : r[k + 1] = q[k + 1]}
    OBVIOUS
  <2>3. APath(q) /\ Agree(p, q, k)
    BY DEF Trie, Begun
  <2>4. UpTo(q, table, k) = M
    BY <1>1, <2>3, SameUpTo
  <2>5. SubSeq(q, 1, k) = node
    BY <1>1, <2>3, SameStart
  <2>6. ShareAt(q, table, k + 1) = table[node][q[k + 1]]
    <3>1. (k + 1) - 1 = k
      OBVIOUS
    <3> HIDE DEF node
    <3> QED BY <2>5, <3>1 DEF ShareAt
  <2>7. UpTo(q, table, k + 1) = UpTo(q, table, k) * ShareAt(q, table, k + 1)
    BY UpToMore
  <2> HIDE DEF node, M, B
  <2> QED BY <2>1, <2>2, <2>4, <2>6, <2>7
<1> DEFINE Good == {D \in SUBSET C : g[U(D)] <= h[D] * Z}
<1>12. {} \in Good
  <2>1. U({}) = {}
    OBVIOUS
  <2>2. g[{}] = 0 /\ h[{}] = 0
    BY <1>7, <1>9 DEF Products!Added
  <2>3. g[U({})] = 0
    BY <2>1, <2>2
  <2> HIDE DEF Z, U
  <2>4. h[{}] * Z = 0
    BY <1>2, <2>2
  <2> QED BY <2>3, <2>4
<1>13. ASSUME NEW D \in SUBSET C, NEW c \in C \ D, D \in Good PROVE D \cup {c} \in Good
  <2>1. PICK q \in B : q[k + 1] = c
    BY <1>3
  <2>2. U(D \cup {c}) = U(D) \cup U({c}) /\ U(D) \cap U({c}) = {}
        /\ U(D) \in SUBSET P /\ U({c}) \in SUBSET P
    BY <1>10
  <2>3. g[U(D) \cup U({c})] = g[U(D)] + g[U({c})]
    <3> DEFINE a == U(D)
               b == U({c})
    <3>1. a \in SUBSET P /\ b \in SUBSET P /\ a \cap b = {}
      BY <2>2
    <3> HIDE DEF a, b, f
    <3>2. g[a \cup b] = g[a] + g[b]
      BY <1>8, <3>1, Products!SumOfBoth
    <3> QED BY <3>2 DEF a, b
  <2>4. g[U({c})] <= (M * table[node][c]) * R
    <3>1. ShareOf(P, table, longest, g, q, k + 1)
      OBVIOUS
    <3> HIDE DEF U, M, R, node, B
    <3> QED BY <1>11, <2>1, <3>1 DEF ShareOf, R
  <2>5. h[D \cup {c}] = table[node][c] + h[D]
    <3>1. D \cup {c} \in SUBSET C /\ c \in D \cup {c} /\ (D \cup {c}) \ {c} = D
      BY <1>13
    <3> HIDE DEF C, node
    <3> QED BY <1>7, <3>1 DEF Products!Added
  <2>6. g[U(D)] <= h[D] * Z
    BY <1>13
  <2>7. /\ table[node][c] \in Nat /\ h[D] \in Nat
        /\ g[U(D)] \in Nat /\ g[U({c})] \in Nat
    <3> HIDE DEF U, C, node
    <3> QED BY <1>5, <1>7, <1>9, <2>2 DEF Products!Added, Products!Numbers
  <2>8. (M * table[node][c]) * R = table[node][c] * Z
    <3> HIDE DEF M, R, node
    <3> QED BY <1>2, <2>7
  <2>9. g[U(D \cup {c})] <= h[D \cup {c}] * Z
    <3> HIDE DEF U, Z, M, R, node, C
    <3>1. g[U(D \cup {c})] <= h[D] * Z + table[node][c] * Z
      <4>1. h[D] * Z \in Nat /\ table[node][c] * Z \in Nat
        BY <1>2, <2>7
      <4>2. g[U(D \cup {c})] = g[U(D)] + g[U({c})]
        BY <2>2, <2>3
      <4>3. g[U({c})] <= table[node][c] * Z
        BY <2>4, <2>8
      <4> DEFINE x == g[U(D)]
                 y == g[U({c})]
                 v == h[D] * Z
                 w == table[node][c] * Z
      <4>4. x \in Nat /\ y \in Nat /\ v \in Nat /\ w \in Nat /\ x <= v /\ y <= w
        BY <2>6, <2>7, <4>1, <4>3
      <4> HIDE DEF x, y, v, w
      <4>5. x + y <= v + w
        BY <4>4
      <4> QED BY <4>2, <4>5 DEF x, y, v, w
    <3>2. h[D] * Z + table[node][c] * Z = (table[node][c] + h[D]) * Z
      BY <1>2, <2>7
    <3> QED BY <2>5, <3>1, <3>2
  <2> HIDE DEF U, Z, node
  <2> QED BY <2>9
<1>14. g[B] <= h[C] * Z
  <2> HIDE DEF Good, C
  <2>1. C \in Good
    BY <1>4, <1>12, <1>13, Products!SubsetInduction
  <2>2. U(C) = B
    BY <1>3
  <2> HIDE DEF U, Z
  <2> QED BY <2>1, <2>2 DEF Good
<1>15. h[C] * Z <= Whole * Z /\ Whole * Z = M * (R * Whole)
  <2>1. h[C] \in Nat /\ Whole \in Nat
    <3> HIDE DEF C, node
    <3> QED BY <1>7 DEF Products!Added, Whole
  <2>2. h[C] <= Whole
    BY <1>5, <1>6
  <2> HIDE DEF C, M, R, node
  <2>3. h[C] * (M * R) <= Whole * (M * R)
    <3> HIDE DEF Z
    <3>1. Z \in Nat
      BY <1>2
    <3> QED BY <2>1, <2>2, <3>1 DEF Z
  <2> QED BY <1>2, <2>1, <2>3
<1>16. g[B] \in Nat /\ h[C] * Z \in Nat
  <2>1. g[B] \in Nat
    <3> HIDE DEF B, f
    <3> QED BY <1>9, <1>10 DEF Products!Added
  <2>2. h[C] \in Nat
    <3> HIDE DEF C, node
    <3> QED BY <1>7 DEF Products!Added
  <2> HIDE DEF C, B, Z, M, R
  <2> QED BY <1>2, <2>1, <2>2
<1> HIDE DEF B, C, Z, M, R, node
<1>17. g[B] <= M * (R * Whole)
  <2>1. Whole * Z \in Nat
    BY <1>2 DEF Whole
  <2> QED BY <1>14, <1>15, <1>16, <2>1
<1> QED BY <1>2, <1>17 DEF ShareOf, B, M

(* Down from the ends of the paths to the node they all begin at. *)
LEMMA EachShares ==
  ASSUME NEW P, NEW longest, Trie(P, longest), NEW table, Distributes(P, table),
         NEW g, Adding(P, table, longest, g)
  PROVE  \A p \in P : ShareOf(P, table, longest, g, p, 0)
<1> DEFINE Shared(n) == \A p \in P : \A k \in 0..Len(p) :
                          longest - k = n => ShareOf(P, table, longest, g, p, k)
           A == {n \in Nat : Shared(n)}
<1>1. longest \in Nat /\ \A p \in P : APath(p) /\ Len(p) \in Nat /\ Len(p) <= longest
  BY Products!SeqLen DEF Trie, APath
<1>2. \A p \in P : ShareOf(P, table, longest, g, p, Len(p))
  BY LeafShares
<1>3. Shared(0)
  <2> SUFFICES ASSUME NEW p \in P, NEW k \in 0..Len(p), longest - k = 0
               PROVE  ShareOf(P, table, longest, g, p, k)
    OBVIOUS
  <2>1. k = Len(p)
    BY <1>1
  <2> QED BY <1>2, <2>1
<1>4. ASSUME NEW n \in Nat, Shared(n) PROVE Shared(n + 1)
  <2> SUFFICES ASSUME NEW p \in P, NEW k \in 0..Len(p), longest - k = n + 1
               PROVE  ShareOf(P, table, longest, g, p, k)
    OBVIOUS
  <2>1. CASE k = Len(p)
    BY <1>2, <2>1
  <2>2. CASE k # Len(p)
    <3>1. k \in Nat /\ k < Len(p)
      BY <1>1, <2>2
    <3>2. ASSUME NEW q \in Begun(P, p, k) PROVE ShareOf(P, table, longest, g, q, k + 1)
      <4>1. q \in P
        BY DEF Begun
      <4>2. k + 1 <= Len(q)
        BY <3>1, TwigIs
      <4>3. k + 1 \in 0..Len(q) /\ longest - (k + 1) = n
        BY <1>1, <3>1, <4>1, <4>2
      <4> QED BY <1>4, <4>1, <4>3
    <3> QED BY <3>1, <3>2, BranchShares
  <2> QED BY <2>1, <2>2
<1>5. \A n \in Nat : Shared(n)
  <2>1. 0 \in A /\ \A n \in Nat : n \in A => n + 1 \in A
    BY <1>3, <1>4
  <2> HIDE DEF A, Shared
  <2>2. Nat \subseteq A
    BY <2>1, Products!SetInduction
  <2> QED BY <2>2 DEF A
<1> SUFFICES ASSUME NEW p \in P PROVE ShareOf(P, table, longest, g, p, 0)
  OBVIOUS
<1>6. longest \in Nat /\ 0 \in 0..Len(p) /\ longest - 0 = longest
  BY <1>1
<1>7. Shared(longest)
  BY <1>5, <1>6
<1> QED BY <1>6, <1>7

LEMMA AllShare ==
  ASSUME NEW P, NEW longest, Trie(P, longest), NEW table, Distributes(P, table),
         NEW g, Adding(P, table, longest, g)
  PROVE  g[P] <= Wholes(longest)
<1>1. longest \in Nat /\ \A p \in P : Len(p) \in Nat
  BY Products!SeqLen DEF Trie, APath
<1>2. Wholes(longest) \in Nat
  BY <1>1, WholesOfMore
<1>3. CASE P = {}
  <2> DEFINE f == Likelihoods(P, table, longest)
  <2>1. Products!IsFiniteSet(P) /\ Products!Numbers(f, P) /\ Products!Sums(g, f, P)
    BY FiniteIs, LikelihoodsAreNumbers DEF Trie, Adding
  <2> HIDE DEF f
  <2>2. Products!Added(g, f, P)
    BY <2>1, Products!SumOfMore
  <2> QED BY <1>2, <1>3, <2>2 DEF Products!Added
<1>4. CASE P # {}
  <2>1. PICK p \in P : TRUE
    BY <1>4
  <2>2. g[Begun(P, p, 0)] <= UpTo(p, table, 0) * Wholes(longest - 0)
    BY EachShares DEF ShareOf
  <2>3. Begun(P, p, 0) = P
    BY <1>1 DEF Begun, Agree
  <2>4. UpTo(p, table, 0) = 1 /\ longest - 0 = longest
    BY <1>1, UpToNone
  <2> QED BY <1>2, <2>2, <2>3, <2>4
<1> QED BY <1>3, <1>4

(* The likelihood of each key, and the sum of them the property speaks of. *)
Keyed(paths, longest, table) == [key \in DOMAIN paths |-> Scaled(paths[key], longest, table)]

LEMMA CoverageIs ==
  ASSUME NEW paths, NEW table, NEW longest, Products!IsFiniteSet(DOMAIN paths)
  PROVE  \E h : /\ Products!Sums(h, Keyed(paths, longest, table), DOMAIN paths)
                /\ Coverage(paths, longest, table) = h[DOMAIN paths]
<1> DEFINE K == DOMAIN paths
           f == Keyed(paths, longest, table)
           IsSum(h) == h = [s \in SUBSET K |->
                              IF s = {} THEN 0
                              ELSE Scaled(paths[CHOOSE x \in s : TRUE], longest, table)
                                     + h[s \ {CHOOSE x \in s : TRUE}]]
           h == CHOOSE h : IsSum(h)
<1>1. Coverage(paths, longest, table) = h[K]
  BY DEF Coverage, MapThenSumSet, MapThenFoldSet
<1>2. \A j : IsSum(j) <=> Products!Sums(j, f, K)
  <2> TAKE j
  <2>1. ASSUME NEW s \in SUBSET K
        PROVE  Products!SumStep(j, f, s)
                 = IF s = {} THEN 0
                   ELSE Scaled(paths[CHOOSE x \in s : TRUE], longest, table)
                          + j[s \ {CHOOSE x \in s : TRUE}]
    <3>1. CASE s = {}
      BY <3>1 DEF Products!SumStep
    <3>2. CASE s # {}
      <4> DEFINE c == CHOOSE x \in s : TRUE
      <4>1. c \in K
        BY <3>2
      <4> HIDE DEF c
      <4>2. f[c] = Scaled(paths[c], longest, table)
        BY <4>1 DEF Keyed
      <4> HIDE DEF f
      <4> QED BY <3>2, <4>2 DEF c, Products!SumStep
    <3> QED BY <3>1, <3>2
  <2>2. [s \in SUBSET K |-> Products!SumStep(j, f, s)]
          = [s \in SUBSET K |-> IF s = {} THEN 0
                   ELSE Scaled(paths[CHOOSE x \in s : TRUE], longest, table)
                          + j[s \ {CHOOSE x \in s : TRUE}]]
    <3> HIDE DEF f
    <3> QED BY <2>1, Zenon
  <2> HIDE DEF f
  <2> QED BY <2>2, Zenon DEF Products!Sums
<1>3. \E j : IsSum(j)
  <2> HIDE DEF IsSum, f
  <2>1. PICK j : Products!Sums(j, f, K)
    BY Products!SumEquation
  <2> QED BY <1>2, <2>1
<1>4. IsSum(h)
  <2> HIDE DEF IsSum
  <2> QED BY <1>3
<1>5. Products!Sums(h, f, K)
  <2> HIDE DEF IsSum, h, f
  <2> QED BY <1>2, <1>4
<1> HIDE DEF h
<1> QED BY <1>1, <1>5

(* Keys of different paths add up to what their paths do. *)
LEMMA KeyedIs ==
  ASSUME NEW paths, IsFiniteSet(DOMAIN paths), IsInjective(paths),
         NEW longest, Trie(Range(paths), longest),
         NEW table, Distributes(Range(paths), table),
         NEW g, Adding(Range(paths), table, longest, g),
         NEW h, Products!Sums(h, Keyed(paths, longest, table), DOMAIN paths)
  PROVE  h[DOMAIN paths] = g[Range(paths)]
<1> DEFINE K == DOMAIN paths
           P == Range(paths)
           e == Keyed(paths, longest, table)
           f == Likelihoods(P, table, longest)
           Of(D) == {paths[k] : k \in D}
           Good == {D \in SUBSET K : h[D] = g[Of(D)]}
<1>1. Products!IsFiniteSet(K) /\ Products!IsFiniteSet(P)
  BY FiniteIs DEF Trie
<1>2. P = Of(K) /\ \A k \in K : paths[k] \in P
  BY DEF Range
<1>3. Products!Numbers(f, P)
  BY LikelihoodsAreNumbers
<1>4. \A k \in K : e[k] = f[paths[k]]
  <2> HIDE DEF P, K
  <2> QED BY <1>2 DEF Likelihoods, Keyed, K
<1>5. Products!Added(g, f, P)
  <2>1. Products!Sums(g, f, P)
    BY DEF Adding
  <2> HIDE DEF f, P
  <2> QED BY <1>1, <1>3, <2>1, Products!SumOfMore
<1>6. Products!Added(h, e, K)
  <2>1. Products!Numbers(e, K)
    <3> HIDE DEF e, f, P, K
    <3> QED BY <1>2, <1>3, <1>4 DEF Products!Numbers
  <2> HIDE DEF e, K
  <2> QED BY <1>1, <2>1, Products!SumOfMore DEF e, K
<1>7. \A k, l \in K : paths[k] = paths[l] => k = l
  BY DEF IsInjective
<1> HIDE DEF e, f, P, K
<1>8. {} \in Good
  <2>1. Of({}) = {}
    OBVIOUS
  <2> HIDE DEF Of
  <2> QED BY <1>5, <1>6, <2>1 DEF Products!Added
<1>9. ASSUME NEW D \in SUBSET K, NEW k \in K \ D, D \in Good PROVE D \cup {k} \in Good
  <2>1. D \cup {k} \in SUBSET K /\ k \in D \cup {k} /\ (D \cup {k}) \ {k} = D
    BY <1>9
  <2>2. /\ Of(D \cup {k}) \in SUBSET P /\ paths[k] \in Of(D \cup {k})
        /\ Of(D \cup {k}) \ {paths[k]} = Of(D)
    BY <1>2, <1>7, <1>9, <2>1
  <2>3. h[D] = g[Of(D)]
    BY <1>9
  <2> HIDE DEF Of
  <2>4. h[D \cup {k}] = e[k] + h[D]
    BY <1>6, <2>1 DEF Products!Added
  <2>5. g[Of(D \cup {k})] = f[paths[k]] + g[Of(D)]
    BY <1>5, <2>2 DEF Products!Added
  <2> QED BY <1>4, <2>1, <2>3, <2>4, <2>5
<1>10. K \in Good
  <2> HIDE DEF Good
  <2> QED BY <1>1, <1>8, <1>9, Products!SubsetInduction
<1> QED BY <1>2, <1>10 DEF K, P

(* Whatever shares a server measures, those of the keys add up to no more  *)
(* than the whole: no path ends where another goes on (foldJudgment,       *)
(* src/dialects/token_trie.ts).                                            *)
THEOREM CoverageOfAnyShares ==
  ASSUME NEW paths, IsFiniteSet(DOMAIN paths), IsInjective(paths),
         NEW longest, Trie(Range(paths), longest),
         NEW table, Distributes(Range(paths), table)
  PROVE  Coverage(paths, longest, table) <= Wholes(longest)
<1> DEFINE P == Range(paths)
<1>1. PICK g : Adding(P, table, longest, g)
  <2>1. Products!IsFiniteSet(P)
    BY FiniteIs DEF Trie
  <2> HIDE DEF P
  <2> QED BY <2>1, Products!SumEquation DEF Adding
<1>2. PICK h : /\ Products!Sums(h, Keyed(paths, longest, table), DOMAIN paths)
               /\ Coverage(paths, longest, table) = h[DOMAIN paths]
  BY FiniteIs, CoverageIs
<1>3. g[P] <= Wholes(longest)
  BY <1>1, AllShare
<1>4. h[DOMAIN paths] = g[P]
  BY <1>1, <1>2, KeyedIs
<1> QED BY <1>2, <1>3, <1>4

LEMMA EvenShares ==
  \A n \in Nat \ {0} : Whole \div n \in Nat /\ n * (Whole \div n) <= Whole
BY DEF Whole

(* Even shares of the whole add up to no more than the whole. *)
LEMMA EvenSum ==
  ASSUME NEW C, Products!IsFiniteSet(C), NEW h, NEW f, Products!Sums(h, f, C),
         \A c \in C : f[c] = Whole \div Cardinality(C)
  PROVE  Products!Numbers(f, C) /\ h[C] <= Whole
<1> DEFINE n == Products!Cardinality(C)
           e == Whole \div n
           Good == {D \in SUBSET C : h[D] = Products!Cardinality(D) * e}
<1>0. Cardinality(C) = n
  BY DEF Cardinality, Products!Cardinality
<1>1. n \in Nat /\ (C = {} <=> n = 0)
  BY Products!FS_CardinalityType, Products!FS_EmptySet
<1>2. CASE C = {}
  <2>1. Products!Numbers(f, C)
    BY <1>2 DEF Products!Numbers
  <2>2. Products!Added(h, f, C)
    BY <2>1, Products!SumOfMore
  <2>3. h[C] = 0
    BY <1>2, <2>2 DEF Products!Added
  <2> QED BY <2>1, <2>3 DEF Whole
<1>3. CASE C # {}
  <2>1. e \in Nat /\ n * e <= Whole
    BY <1>1, <1>3, EvenShares
  <2>2. \A c \in C : f[c] = e
    BY <1>0
  <2> HIDE DEF e, n
  <2>3. Products!Numbers(f, C)
    BY <2>1, <2>2 DEF Products!Numbers
  <2>4. Products!Added(h, f, C)
    BY <2>3, Products!SumOfMore
  <2>5. {} \in Good
    <3>1. Products!Cardinality({}) = 0
      BY Products!FS_EmptySet
    <3> QED BY <2>1, <2>4, <3>1 DEF Products!Added
  <2>6. ASSUME NEW D \in SUBSET C, NEW c \in C \ D, D \in Good PROVE D \cup {c} \in Good
    <3>1. Products!IsFiniteSet(D)
      BY Products!FS_Subset
    <3>2. Products!Cardinality(D) \in Nat /\ Products!Cardinality(D \cup {c}) = Products!Cardinality(D) + 1
      BY <2>6, <3>1, Products!FS_CardinalityType, Products!FS_AddElement
    <3>3. D \cup {c} \in SUBSET C /\ c \in D \cup {c} /\ (D \cup {c}) \ {c} = D
      BY <2>6
    <3>4. h[D \cup {c}] = f[c] + h[D]
      BY <2>4, <3>3 DEF Products!Added
    <3>5. h[D] = Products!Cardinality(D) * e
      BY <2>6
    <3> DEFINE m == Products!Cardinality(D)
    <3>6. h[D \cup {c}] = e + m * e /\ m \in Nat
      BY <2>2, <3>2, <3>4, <3>5
    <3> HIDE DEF m
    <3>7. e + m * e = (m + 1) * e
      BY <2>1, <3>6
    <3> QED BY <3>2, <3>3, <3>6, <3>7 DEF m
  <2> HIDE DEF Good
  <2>7. C \in Good
    BY <2>5, <2>6, Products!SubsetInduction
  <2>8. h[C] = n * e
    BY <2>7 DEF Good, n
  <2> QED BY <2>1, <2>3, <2>8
<1> QED BY <1>2, <1>3

LEMMA TableDistributes ==
  ASSUME NEW P, NEW longest, Trie(P, longest)
  PROVE  Distributes(P, Table(P))
<1> SUFFICES ASSUME NEW node \in TrieNodes(P)
             PROVE  /\ Products!Numbers(Table(P)[node], Children(P, node))
                    /\ SumAfter(P, Table(P), node) <= Whole
  BY DEF Distributes
<1> DEFINE C == Children(P, node)
           f == Table(P)[node]
<1>1. PICK p \in P : \E i \in DOMAIN p : node = SubSeq(p, 1, i - 1)
  BY DEF TrieNodes
<1>2. Products!IsFiniteSet(C)
  <2>1. PICK i \in DOMAIN p : node = SubSeq(p, 1, i - 1)
    BY <1>1
  <2>2. DOMAIN p = 1..Len(p) /\ Len(p) \in Nat
    BY Products!SeqLen DEF Trie, APath
  <2>3. i - 1 \in Nat /\ i - 1 < Len(p)
    BY <2>2
  <2> QED BY <2>1, <2>3, ChildrenAreFinite
<1>3. PICK h : Products!Sums(h, f, C) /\ SumAfter(P, Table(P), node) = h[C]
  BY <1>2, SumAfterIs
<1>4. \A c \in C : f[c] = Whole \div Cardinality(C)
  BY DEF Table
<1> HIDE DEF C, f
<1>5. Products!Numbers(f, C) /\ h[C] <= Whole
  BY <1>2, <1>3, <1>4, EvenSum
<1> QED BY <1>3, <1>5 DEF C, f

(* The length of the longest path. *)
LEMMA LongestIs ==
  ASSUME NEW P, IsFiniteSet(P), P # {}, \A p \in P : APath(p)
  PROVE  Longest(P) \in Nat /\ \A p \in P : Len(p) <= Longest(P)
<1> DEFINE S(D) == {Len(p) : p \in D}
           Good == {D \in SUBSET P : D # {} => \E m \in S(D) : \A x \in S(D) : m >= x}
<1>1. \A p \in P : Len(p) \in Nat
  BY Products!SeqLen DEF APath
<1>2. {} \in Good
  OBVIOUS
<1>3. ASSUME NEW D \in SUBSET P, NEW q \in P \ D, D \in Good PROVE D \cup {q} \in Good
  <2>1. CASE D = {}
    <3>1. S(D \cup {q}) = {Len(q)} /\ Len(q) >= Len(q)
      BY <1>1, <2>1
    <3> QED BY <1>3, <3>1
  <2>2. CASE D # {}
    <3>1. PICK m \in S(D) : \A x \in S(D) : m >= x
      BY <1>3, <2>2
    <3>2. S(D \cup {q}) = S(D) \cup {Len(q)} /\ S(D) \subseteq Nat /\ Len(q) \in Nat
      BY <1>1, <1>3
    <3> HIDE DEF S
    <3>3. CASE m >= Len(q)
      BY <1>3, <3>1, <3>2, <3>3
    <3>4. CASE ~(m >= Len(q))
      <4>1. \A x \in S(D \cup {q}) : Len(q) >= x
        BY <3>1, <3>2, <3>4
      <4> QED BY <1>3, <3>2, <4>1
    <3> QED BY <3>3, <3>4
  <2> QED BY <2>1, <2>2
<1>4. P \in Good
  <2>1. Products!IsFiniteSet(P)
    BY FiniteIs
  <2> HIDE DEF Good
  <2> QED BY <1>2, <1>3, <2>1, Products!SubsetInduction
<1>5. \E m \in S(P) : \A x \in S(P) : m >= x
  BY <1>4
<1>6. Max(S(P)) \in S(P) /\ \A x \in S(P) : Max(S(P)) >= x
  <2> HIDE DEF S
  <2> QED BY <1>5 DEF Max
<1> QED BY <1>1, <1>6 DEF Longest

-----------------------------------------------------------------------------
(* The paths of the keys of a judgment. *)
PathsOf(keys) ==
  [key \in DOMAIN keys |-> KeyPath(keys[key].prefix, keys[key].open, keys[key].closed)]

(* A key's own tokens, then the token that ends the turn.                  *)
LEMMA KeyPathIs ==
  ASSUME NEW key, {key.prefix, key.open, key.closed} \subseteq Seq(Nat),
         KeyPath(key.prefix, key.open, key.closed) # Null
  PROVE  /\ Len(key.open) < Len(key.closed) /\ APath(Own(key))
         /\ KeyPath(key.prefix, key.open, key.closed)
              = Append(Own(key), key.closed[Len(key.open) + 1])
<1> DEFINE last == key.closed[Len(key.open) + 1]
           path == KeyPath(key.prefix, key.open, key.closed)
           m == Len(key.prefix) + 1
           n == Len(key.open)
<1>1. APath(key.open) /\ n \in Nat /\ Len(key.prefix) \in Nat /\ Len(key.closed) \in Nat
  <2>1. key.prefix \in Seq(Nat) /\ key.open \in Seq(Nat) /\ key.closed \in Seq(Nat)
    OBVIOUS
  <2> QED BY <2>1, Products!SeqOfSet DEF APath
<1>2. /\ IsPrefix(key.prefix, key.open) /\ IsPrefix(key.open, key.closed)
      /\ n # Len(key.prefix) /\ Len(key.closed) # n
      /\ path = Own(key) \o <<last>>
  BY DEF KeyPath, Own
<1>3. n < Len(key.closed)
  BY <1>1, <1>2 DEF IsPrefix
<1>4. APath(Own(key))
  <2>1. m \in Nat \ {0} /\ n \in Nat /\ n <= Len(key.open) /\ Own(key) = SubSeq(key.open, m, n)
    BY <1>1 DEF Own
  <2> HIDE DEF m, n
  <2> QED BY <1>1, <2>1, Products!Sliced DEF APath
<1> HIDE DEF last
<1>5. path = Append(Own(key), last)
  BY <1>2, <1>4, Products!OneAdded DEF APath
<1> QED BY <1>3, <1>4, <1>5 DEF last

(* Each key has a path of its own, and none goes on where another ends. *)
LEMMA PathsAreATrie ==
  ASSUME NEW keys \in Tokenizers, Null \notin Range(PathsOf(keys))
  PROVE  /\ IsFiniteSet(DOMAIN PathsOf(keys)) /\ IsInjective(PathsOf(keys))
         /\ Trie(Range(PathsOf(keys)), Longest(Range(PathsOf(keys))))
<1> DEFINE K == DOMAIN keys
           path(k) == KeyPath(keys[k].prefix, keys[k].open, keys[k].closed)
           own(k) == Own(keys[k])
           last(k) == keys[k].closed[Len(keys[k].open) + 1]
           n(k) == Len(own(k))
           P == Range(PathsOf(keys))
<1>1. /\ P = {path(k) : k \in K} /\ K = DOMAIN PathsOf(keys)
      /\ \A k \in K : PathsOf(keys)[k] = path(k)
  BY DEF Range, PathsOf
<1>2. K # {} /\ IsFiniteSet(K) /\ \A k, l \in K : own(k) = own(l) => k = l
  BY TokenizersAssumption
<1>3. ASSUME NEW k \in K
      PROVE  Len(keys[k].open) < Len(keys[k].closed) /\ APath(own(k)) /\ path(k) = Append(own(k), last(k))
  <2>1. {keys[k].prefix, keys[k].open, keys[k].closed} \subseteq Seq(Nat)
    BY TokenizersAssumption
  <2>2. path(k) # Null
    BY <1>1
  <2> QED BY <2>1, <2>2, KeyPathIs
<1>4. ASSUME NEW k \in K, NEW l \in K PROVE \A i \in 1..n(l) : last(k) # own(l)[i]
  <2>1. last(k) \notin ToSet(own(l))
    BY <1>3, TokenizersAssumption
  <2>2. DOMAIN own(l) = 1..n(l)
    BY <1>3, Products!SeqLen DEF APath
  <2> HIDE DEF own, last
  <2> QED BY <2>1, <2>2 DEF ToSet
<1> HIDE DEF path, own, last, P, K
<1>5. ASSUME NEW k \in K
      PROVE  /\ n(k) \in Nat /\ APath(path(k)) /\ Len(path(k)) = n(k) + 1
             /\ \A i \in 1..n(k) : path(k)[i] = own(k)[i]
             /\ path(k)[n(k) + 1] = last(k)
  <2>1. Products!ASeq(own(k)) /\ path(k) = Append(own(k), last(k))
    BY <1>3 DEF APath
  <2>2. n(k) \in Nat
    BY <2>1, Products!SeqLen
  <2>3. /\ Products!ASeq(path(k)) /\ Len(path(k)) = Len(own(k)) + 1
        /\ \A i \in 1..Len(own(k)) : path(k)[i] = own(k)[i]
        /\ path(k)[Len(own(k)) + 1] = last(k)
    BY <2>1, Products!Appended
  <2> QED BY <2>2, <2>3 DEF APath
<1> HIDE DEF n
<1>6. ASSUME NEW k \in K, NEW l \in K, Agree(path(k), path(l), Len(path(k)))
      PROVE  k = l
  <2>1. n(k) + 1 <= n(l) + 1 /\ \A i \in 1..(n(k) + 1) : path(k)[i] = path(l)[i]
    BY <1>5, <1>6 DEF Agree
  <2>2. n(k) \in Nat /\ n(l) \in Nat
    BY <1>5
  <2>3. CASE n(k) = n(l)
    <3>1. \A i \in 1..n(k) : i \in 1..(n(k) + 1)
      BY <2>2
    <3>2. \A i \in 1..n(k) : own(k)[i] = own(l)[i]
      BY <1>5, <2>1, <2>3, <3>1
    <3>3. own(k) = own(l)
      BY <1>3, <2>3, <3>2, Products!SameSeq DEF APath, n
    <3> QED BY <1>2, <3>3
  <2>4. CASE n(k) # n(l)
    <3>1. n(k) + 1 \in 1..(n(k) + 1) /\ n(k) + 1 \in 1..n(l)
      BY <2>1, <2>2, <2>4
    <3>2. last(k) = own(l)[n(k) + 1]
      BY <1>5, <2>1, <3>1
    <3> QED BY <1>4, <3>1, <3>2
  <2> QED BY <2>3, <2>4
<1>7. PrefixFree(P)
  BY <1>1, <1>6 DEF PrefixFree
<1>8. IsInjective(PathsOf(keys))
  <2>1. \A k, l \in K : path(k) = path(l) => k = l
    BY <1>5, <1>6 DEF Agree
  <2> QED BY <1>1, <2>1 DEF IsInjective
<1>9. IsFiniteSet(P)
  <2>1. [k \in K |-> path(k)] \in Products!Surjection(K, P)
    <3>1. \A k \in K : path(k) \in P
      BY <1>1
    <3>2. \A p \in P : \E k \in K : path(k) = p
      BY <1>1
    <3> QED BY <3>1, <3>2 DEF Products!Surjection
  <2>2. Products!IsFiniteSet(P)
    BY <1>2, <2>1, FiniteIs, Products!FS_Surjection
  <2> QED BY <2>2, FiniteIs
<1>10. P # {} /\ \A p \in P : APath(p)
  BY <1>1, <1>2, <1>5
<1>11. Longest(P) \in Nat /\ \A p \in P : Len(p) <= Longest(P)
  BY <1>9, <1>10, LongestIs
<1>12. Trie(P, Longest(P))
  BY <1>7, <1>9, <1>10, <1>11 DEF Trie
<1> QED BY <1>1, <1>2, <1>8, <1>12 DEF P

(* A measured call measured the paths of a judgment's keys, and failed if  *)
(* one of them had none.                                                   *)
MeasuredInv ==
  call # Null /\ call.how = "measured" =>
    \E keys \in Tokenizers :
      call.paths = PathsOf(keys) /\ (Null \in Range(call.paths) => call.failed # Null)

LEMMA ScoreKeepsMeasured ==
  ASSUME Score
  PROVE  MeasuredInv'
<1>1. PICK under \in Policies, keys \in Tokenizers, measured \in BOOLEAN :
        call' = CallOf(UnsupportedIf(Null \in Range(PathsOf(keys)),
                         JudgmentComplete(Asking(request, under), measured), "response_format"),
                       IF measured THEN "measured" ELSE "ignored", PathsOf(keys))
  BY DEF Score, PathsOf
<1> DEFINE x == Asking(request, under)
           b == JudgmentAdaptations(x)
           paths == PathsOf(keys)
           c == UnsupportedIf(Null \in Range(paths), b, "response_format")
<1>2. CASE ~measured
  <2>1. call'.how = "ignored"
    BY <1>1, <1>2 DEF CallOf
  <2> QED BY <2>1 DEF MeasuredInv
<1>3. CASE measured
  <2>1. call' = CallOf(c, "measured", paths)
    BY <1>1, <1>3 DEF JudgmentComplete
  <2>2. Builder(b)
    <3>1. Builder(x) /\ Alike(Asking(request, "note"), x)
      BY PoliciesAssumption, AskingAlike
    <3> HIDE DEF x
    <3> QED BY <3>1, JudgmentAdaptationsKeeps, SteadyAtAll DEF Steady
  <2>3. Null \in Range(paths) => c.failed # Null
    <3> HIDE DEF b, paths
    <3> SUFFICES ASSUME Null \in Range(paths) PROVE c.failed # Null
      OBVIOUS
    <3>1. CASE b.failed = Null
      <4>1. c = [b EXCEPT !.failed = "response_format"]
        BY <3>1 DEF UnsupportedIf, Unsupported
      <4> HIDE DEF c
      <4>2. c.failed = "response_format"
        BY <2>2, <4>1, Failing DEF Builder
      <4> QED BY <4>2, Named
    <3>2. CASE b.failed # Null
      BY <3>2 DEF UnsupportedIf, Unsupported
    <3> QED BY <3>1, <3>2
  <2>4. call'.paths = paths /\ call'.failed = c.failed
    <3> HIDE DEF c, paths
    <3> QED BY <2>1 DEF CallOf
  <2> HIDE DEF c
  <2> QED BY <2>3, <2>4 DEF MeasuredInv
<1> QED BY <1>2, <1>3

LEMMA StepKeepsMeasured == MeasuredInv /\ [Next]_vars => MeasuredInv'
<1> SUFFICES ASSUME MeasuredInv, [Next]_vars PROVE MeasuredInv'
  OBVIOUS
<1>1. CASE Plan
  BY <1>1 DEF Plan, MeasuredInv
<1>2. CASE Send(FALSE) \/ Send(TRUE)
  <2>1. \E b : call' = CallOf(b, "generated", Null)
    BY <1>2, Zenon DEF Send
  <2>2. call'.how = "generated"
    BY <2>1 DEF CallOf
  <2> QED BY <2>2 DEF MeasuredInv
<1>3. CASE Score
  BY <1>3, ScoreKeepsMeasured
<1>4. CASE UNCHANGED call
  BY <1>4 DEF MeasuredInv
<1>5. CASE Reask \/ ReadBack
  BY <1>4, <1>5 DEF Reask, ReadBack
<1>6. CASE UNCHANGED vars
  BY <1>4, <1>6 DEF vars
<1> QED BY <1>1, <1>2, <1>3, <1>5, <1>6 DEF Next

(* The coverage of every judgment that is measured is a share, however the *)
(* keys are spelled and however many begin another's (foldJudgment,        *)
(* src/dialects/token_trie.ts).                                            *)
THEOREM CoverageIsAShareHolds == Spec => []CoverageIsAShare
<1>1. Init => MeasuredInv
  BY DEF Init, MeasuredInv
<1>2. MeasuredInv => CoverageIsAShare
  <2> SUFFICES ASSUME MeasuredInv, call # Null, call.how = "measured", call.failed = Null
               PROVE  LET longest == Longest(Range(call.paths)) IN
                      Coverage(call.paths, longest, Table(Range(call.paths))) <= Wholes(longest)
    BY DEF CoverageIsAShare
  <2> DEFINE paths == call.paths
             P == Range(paths)
  <2>1. PICK keys \in Tokenizers : paths = PathsOf(keys) /\ Null \notin P
    BY DEF MeasuredInv
  <2>2. IsFiniteSet(DOMAIN paths) /\ IsInjective(paths) /\ Trie(P, Longest(P))
    BY <2>1, PathsAreATrie
  <2> HIDE DEF paths
  <2>3. Distributes(P, Table(P))
    BY <2>2, TableDistributes
  <2>4. Coverage(paths, Longest(P), Table(P)) <= Wholes(Longest(P))
    BY <2>2, <2>3, CoverageOfAnyShares
  <2> QED BY <2>4 DEF paths
<1> QED BY <1>1, <1>2, StepKeepsMeasured, PTL DEF Spec
=============================================================================
