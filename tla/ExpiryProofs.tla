---------------------------- MODULE ExpiryProofs ----------------------------
(***************************************************************************)
(* What crashes, redeliveries and expiry passes keep, for any messages,    *)
(* hypotheses, deadlines and max_redeliveries.                             *)
(*                                                                         *)
(* The argument has three parts.  A message has one delivery, whose count  *)
(* is how often the message was received (TransportInv): a crash reorders  *)
(* deliveries and copies none.  A pass is a fold over the overdue          *)
(* hypotheses; by induction over them it only expires them, returns to     *)
(* every agent what it had staked on them, and so moves no credit          *)
(* (AfterPassEffect).  And a delivery either is recorded with its effect   *)
(* in one commit or leaves the ledger alone, so what no queue holds any    *)
(* more is a row of the events table (GoneAreRecorded).                    *)
(***************************************************************************)
EXTENDS Expiry, LedgerProofs

-----------------------------------------------------------------------------
(***************************************************************************)
(* Queues of things with an id, no two with the same.                      *)
(***************************************************************************)
DistinctIds(q) == \A i, j \in 1..Len(q) : q[i].id = q[j].id => i = j

LEMMA AppendToQueue ==
  ASSUME NEW D, NEW q \in Seq(D), NEW e \in D
  PROVE  /\ ToSet(Append(q, e)) = ToSet(q) \cup {e}
         /\ DistinctIds(q) /\ (\A d \in ToSet(q) : d.id # e.id) => DistinctIds(Append(q, e))
<1>1. /\ Len(Append(q, e)) = Len(q) + 1 /\ Len(q) \in Nat
      /\ \A i \in 1..Len(q) : Append(q, e)[i] = q[i]
      /\ Append(q, e)[Len(q) + 1] = e
      /\ DOMAIN Append(q, e) = 1..Len(q) + 1 /\ DOMAIN q = 1..Len(q)
  OBVIOUS
<1> DEFINE r == Append(q, e)
<1> HIDE DEF r
<1>2. ToSet(r) = ToSet(q) \cup {e}
  BY <1>1 DEF ToSet, r
<1>3. ASSUME DistinctIds(q), \A d \in ToSet(q) : d.id # e.id
      PROVE  DistinctIds(r)
  <2>1. \A i \in 1..Len(q) : q[i].id # e.id
    BY <1>1, <1>3 DEF ToSet
  <2> QED BY <1>1, <1>3, <2>1 DEF DistinctIds, r
<1> QED BY <1>2, <1>3 DEF r

LEMMA TakeFromQueue ==
  ASSUME NEW D, NEW q \in Seq(D), q # <<>>
  PROVE  /\ Head(q) \in D /\ Tail(q) \in Seq(D)
         /\ ToSet(q) = ToSet(Tail(q)) \cup {Head(q)}
         /\ DistinctIds(q) => /\ DistinctIds(Tail(q))
                              /\ \A d \in ToSet(Tail(q)) : d.id # Head(q).id
<1>1. /\ Len(q) \in Nat \ {0} /\ Len(Tail(q)) = Len(q) - 1
      /\ \A i \in 1..Len(q) - 1 : Tail(q)[i] = q[i + 1]
      /\ Head(q) = q[1]
      /\ DOMAIN Tail(q) = 1..Len(q) - 1 /\ DOMAIN q = 1..Len(q)
      /\ Head(q) \in D /\ Tail(q) \in Seq(D)
  OBVIOUS
<1> DEFINE r == Tail(q)
           h == Head(q)
<1> HIDE DEF r, h
<1>2. ToSet(q) = ToSet(r) \cup {h}
  <2>1. \A i \in DOMAIN r : r[i] = q[i + 1] /\ i + 1 \in DOMAIN q
    BY <1>1 DEF r
  <2>2. \A i \in DOMAIN q : i = 1 \/ (i - 1 \in DOMAIN r /\ q[i] = r[i - 1])
    BY <1>1 DEF r
  <2>3. h = q[1] /\ 1 \in DOMAIN q
    BY <1>1 DEF h
  <2> QED BY <2>1, <2>2, <2>3 DEF ToSet
<1>3. ASSUME DistinctIds(q)
      PROVE  DistinctIds(r) /\ \A d \in ToSet(r) : d.id # h.id
  <2>1. DistinctIds(r)
    BY <1>1, <1>3 DEF DistinctIds, r
  <2>2. \A i \in 1..Len(q) - 1 : q[i + 1].id # q[1].id
    BY <1>1, <1>3 DEF DistinctIds
  <2>3. \A d \in ToSet(r) : \E i \in 1..Len(q) - 1 : d = q[i + 1]
    BY <1>1 DEF ToSet, r
  <2>4. h = q[1]
    BY <1>1 DEF h
  <2> QED BY <2>1, <2>2, <2>3, <2>4
<1> QED BY <1>1, <1>2, <1>3 DEF r, h

LEMMA JoinQueues ==
  ASSUME NEW D, NEW q \in Seq(D), NEW r \in Seq(D)
  PROVE  /\ q \o r \in Seq(D)
         /\ ToSet(q \o r) = ToSet(q) \cup ToSet(r)
         /\ DistinctIds(q) /\ DistinctIds(r) /\ (\A d \in ToSet(q), e \in ToSet(r) : d.id # e.id)
              => DistinctIds(q \o r)
<1>1. /\ Len(q) \in Nat /\ Len(r) \in Nat /\ Len(q \o r) = Len(q) + Len(r)
      /\ \A i \in 1..Len(q) : (q \o r)[i] = q[i]
      /\ \A i \in 1..Len(r) : (q \o r)[Len(q) + i] = r[i]
      /\ DOMAIN (q \o r) = 1..Len(q) + Len(r)
      /\ DOMAIN q = 1..Len(q) /\ DOMAIN r = 1..Len(r)
      /\ q \o r \in Seq(D)
  OBVIOUS
<1> DEFINE z == q \o r
<1> HIDE DEF z
<1>2. \A i \in DOMAIN z : \/ i \in DOMAIN q /\ z[i] = q[i]
                          \/ i - Len(q) \in DOMAIN r /\ z[i] = r[i - Len(q)]
  <2> SUFFICES ASSUME NEW i \in DOMAIN z, i \notin DOMAIN q
               PROVE  i - Len(q) \in DOMAIN r /\ z[i] = r[i - Len(q)]
    BY <1>1 DEF z
  <2>1. i \in Int /\ i - Len(q) \in 1..Len(r)
    BY <1>1 DEF z
  <2>2. z[Len(q) + (i - Len(q))] = r[i - Len(q)]
    BY <1>1, <2>1 DEF z
  <2>3. Len(q) + (i - Len(q)) = i
    BY <1>1, <2>1
  <2> QED BY <1>1, <2>1, <2>2, <2>3
<1>3. /\ \A i \in DOMAIN q : i \in DOMAIN z /\ z[i] = q[i]
      /\ \A i \in DOMAIN r : Len(q) + i \in DOMAIN z /\ z[Len(q) + i] = r[i]
  BY <1>1 DEF z
<1>4. ToSet(z) = ToSet(q) \cup ToSet(r)
  BY <1>2, <1>3 DEF ToSet
<1>5. ASSUME DistinctIds(q), DistinctIds(r),
             \A d \in ToSet(q), e \in ToSet(r) : d.id # e.id
      PROVE  DistinctIds(z)
  <2>1. \A i \in DOMAIN q, j \in DOMAIN r : q[i].id # r[j].id
    BY <1>5 DEF ToSet
  <2> SUFFICES ASSUME NEW i \in DOMAIN z, NEW j \in DOMAIN z, z[i].id = z[j].id
               PROVE  i = j
    BY <1>1 DEF DistinctIds, z
  <2>2. i \in Int /\ j \in Int
    BY <1>1 DEF z
  <2>3. CASE i \in DOMAIN q /\ z[i] = q[i] /\ j \in DOMAIN q /\ z[j] = q[j]
    BY <1>1, <1>5, <2>3 DEF DistinctIds
  <2>4. CASE /\ i - Len(q) \in DOMAIN r /\ z[i] = r[i - Len(q)]
             /\ j - Len(q) \in DOMAIN r /\ z[j] = r[j - Len(q)]
    <3>1. i - Len(q) = j - Len(q)
      BY <1>1, <1>5, <2>4 DEF DistinctIds
    <3> QED BY <1>1, <2>2, <3>1
  <2> QED BY <1>2, <2>1, <2>3, <2>4
<1> QED BY <1>1, <1>4, <1>5 DEF z

-----------------------------------------------------------------------------
(***************************************************************************)
(* The transport: every message that is held is held once, and has been    *)
(* received as often as its delivery says.                                 *)
(***************************************************************************)
Deliveries == [id : Nat, payload : Messages, count : 0..MaxRedeliveries]

TransportTypes ==
  /\ source \in Seq(Messages) /\ nextId = Len(source) + 1
  /\ received \in Seq(0..MaxRedeliveries + 1) /\ Len(received) = Len(source)
  /\ pending \in [Subjects -> Seq(Deliveries)]
  /\ inFlight \in [Subjects -> SUBSET Deliveries]
  /\ deadLetters \in [Subjects -> SUBSET Deliveries]
  /\ \A s \in Subjects : IsFiniteSet(inFlight[s])

(* A delivery carries what was published under its id, on its subject, and *)
(* its message has been received that many times.                          *)
Genuine(d, s, times) ==
  /\ d.id \in 1..Len(source) /\ d.payload = source[d.id]
  /\ SubjectOf(source[d.id]) = s /\ received[d.id] = times

DeliveriesCounted ==
  \A s \in Subjects :
    /\ \A d \in ToSet(pending[s]) : Genuine(d, s, d.count)
    /\ \A d \in inFlight[s] : Genuine(d, s, d.count + 1)
    /\ \A d \in deadLetters[s] : Genuine(d, s, MaxRedeliveries + 1)

OneDeliveryEach ==
  \A s \in Subjects :
    /\ DistinctIds(pending[s])
    /\ \A d \in ToSet(pending[s]), e \in inFlight[s] : d.id # e.id

TransportInv == TransportTypes /\ DeliveriesCounted /\ OneDeliveryEach

LEMMA InitTransportInv ==
  ASSUME Init
  PROVE  TransportInv
<1> USE DEF Init, InitTransport
<1>1. TransportTypes
  BY FS_EmptySet DEF TransportTypes
<1>2. \A s \in Subjects : /\ pending[s] = <<>>
                          /\ inFlight[s] = {} /\ deadLetters[s] = {}
  OBVIOUS
<1>3. ToSet(<<>>) = {} /\ DistinctIds(<<>>)
  BY DEF ToSet, DistinctIds
<1> QED BY <1>1, <1>2, <1>3 DEF TransportInv, DeliveriesCounted, OneDeliveryEach

LEMMA EmitKeepsTransport ==
  ASSUME TransportInv, NEW m \in Messages, Emit(m)
  PROVE  /\ TransportInv'
         /\ Len(source) + 1 \in Outstanding(SubjectOf(m))'
         /\ \A t \in Subjects : /\ GivenUp(t)' = GivenUp(t)
                               /\ Outstanding(t) \subseteq Outstanding(t)'
<1>0. PICK fresh : fresh = [id |-> nextId, payload |-> m, count |-> 0]
  OBVIOUS
<1>1. PICK s \in Subjects : s = SubjectOf(m)
  BY ExpiryAssumption
<1>2. TransportTypes /\ MaxRedeliveries \in Nat
  BY TransportAssumption DEF TransportInv
<1>3. /\ pending' = [pending EXCEPT ![s] = Append(@, fresh)]
      /\ nextId' = nextId + 1 /\ inFlight' = inFlight /\ deadLetters' = deadLetters
      /\ source' = Append(source, m) /\ received' = Append(received, 0)
  BY <1>0, <1>1 DEF Emit, Publish
<1>4. /\ fresh \in Deliveries /\ fresh.id = Len(source) + 1
      /\ fresh.count = 0 /\ fresh.payload = m
  BY <1>0, <1>2 DEF Deliveries, TransportTypes
<1>5. \A t \in Subjects :
        /\ pending[t] \in Seq(Deliveries)
        /\ pending'[t] = IF t = s THEN Append(pending[t], fresh) ELSE pending[t]
  BY <1>2, <1>3 DEF TransportTypes
<1>6. TransportTypes'
  <2>1. source' \in Seq(Messages) /\ nextId' = Len(source') + 1
    BY <1>2, <1>3 DEF TransportTypes
  <2>2. received' \in Seq(0..MaxRedeliveries + 1) /\ Len(received') = Len(source')
    BY <1>2, <1>3 DEF TransportTypes
  <2>3. pending' \in [Subjects -> Seq(Deliveries)]
    BY <1>2, <1>3, <1>4 DEF TransportTypes
  <2> QED BY <1>2, <1>3, <2>1, <2>2, <2>3 DEF TransportTypes
<1>7. /\ Len(source) \in Nat /\ Len(source') = Len(source) + 1
      /\ \A i \in 1..Len(source) : source'[i] = source[i] /\ received'[i] = received[i]
      /\ source'[Len(source) + 1] = m /\ received'[Len(source) + 1] = 0
  BY <1>2, <1>3 DEF TransportTypes
<1>8. ASSUME NEW t, NEW d, NEW times, Genuine(d, t, times)
      PROVE  Genuine(d, t, times)' /\ d.id # fresh.id
  BY <1>4, <1>7, <1>8 DEF Genuine
<1>9. Genuine(fresh, s, 0)'
  BY <1>1, <1>4, <1>7 DEF Genuine
<1>10. ASSUME NEW t \in Subjects
       PROVE  /\ ToSet(pending[t])' = ToSet(pending[t]) \cup (IF t = s THEN {fresh} ELSE {})
              /\ DistinctIds(pending[t])'
  <2>1. /\ \A d \in ToSet(pending[t]) : Genuine(d, t, d.count)
        /\ DistinctIds(pending[t])
    BY DEF TransportInv, DeliveriesCounted, OneDeliveryEach
  <2>2. CASE t # s
    BY <1>5, <2>1, <2>2
  <2>3. CASE t = s
    <3>1. pending'[t] = Append(pending[t], fresh)
      BY <1>5, <2>3
    <3>2. \A d \in ToSet(pending[t]) : d.id # fresh.id
      BY <1>8, <2>1
    <3>3. /\ ToSet(Append(pending[t], fresh)) = ToSet(pending[t]) \cup {fresh}
          /\ DistinctIds(Append(pending[t], fresh))
      BY <1>4, <1>5, <2>1, <3>2, AppendToQueue
    <3> QED BY <2>3, <3>1, <3>3
  <2> QED BY <2>2, <2>3
<1>11. ASSUME NEW t \in Subjects
       PROVE  /\ \A d \in ToSet(pending[t])' : Genuine(d, t, d.count)'
              /\ \A d \in inFlight'[t] : Genuine(d, t, d.count + 1)'
              /\ \A d \in deadLetters'[t] : Genuine(d, t, MaxRedeliveries + 1)'
              /\ \A d \in ToSet(pending[t])', e \in inFlight'[t] : d.id # e.id
  <2>1. /\ \A d \in ToSet(pending[t]) : Genuine(d, t, d.count)
        /\ \A d \in inFlight[t] : Genuine(d, t, d.count + 1)
        /\ \A d \in deadLetters[t] : Genuine(d, t, MaxRedeliveries + 1)
        /\ \A d \in ToSet(pending[t]), e \in inFlight[t] : d.id # e.id
    BY DEF TransportInv, DeliveriesCounted, OneDeliveryEach
  <2>2. inFlight'[t] = inFlight[t] /\ deadLetters'[t] = deadLetters[t]
    BY <1>3
  <2>3. \A e \in inFlight[t] : e.id # fresh.id
    BY <1>8, <2>1
  <2> QED BY <1>4, <1>8, <1>9, <1>10, <2>1, <2>2, <2>3
<1>12. TransportInv'
  BY <1>6, <1>10, <1>11 DEF TransportInv, DeliveriesCounted, OneDeliveryEach
<1>13. \A t \in Subjects : /\ GivenUp(t)' = GivenUp(t)
                         /\ Outstanding(t) \subseteq Outstanding(t)'
  BY <1>3, <1>10 DEF Outstanding, GivenUp
<1>14. Len(source) + 1 \in Outstanding(SubjectOf(m))'
  BY <1>1, <1>4, <1>10 DEF Outstanding
<1> QED BY <1>12, <1>13, <1>14

LEMMA MinOfTwo ==
  ASSUME NEW a \in Int, NEW b \in Int, a <= b
  PROVE  Min({a, b}) = a
BY DEF Min

LEMMA ReceiveKeepsTransport ==
  ASSUME TransportInv, NEW s \in Subjects, NEW acknowledged \in BOOLEAN,
         Receive(s, acknowledged), Counted(s)
  PROVE  /\ TransportInv'
         /\ Foremost(s) \in Deliveries /\ Genuine(Foremost(s), s, Foremost(s).count)
         /\ \A t \in Subjects :
              /\ GivenUp(t)' = GivenUp(t)
              /\ Outstanding(t) \subseteq Outstanding(t)' \cup
                   (IF t = s /\ acknowledged THEN {Foremost(s).id} ELSE {})
<1>1. PICK taken : taken = Foremost(s)
  OBVIOUS
<1>2. TransportTypes /\ MaxRedeliveries \in Nat
  BY TransportAssumption DEF TransportInv
<1>3. /\ pending[s] # <<>>
      /\ pending' = [pending EXCEPT ![s] = Tail(@)]
      /\ inFlight' = [inFlight EXCEPT
           ![s] = IF acknowledged THEN @ ELSE @ \cup {taken}]
      /\ deadLetters' = deadLetters /\ nextId' = nextId /\ source' = source
      /\ received' = [received EXCEPT ![taken.id] = Min({@ + 1, MaxRedeliveries + 2})]
  BY <1>1 DEF Receive, Counted, Foremost
<1>4. \A t \in Subjects :
        /\ pending[t] \in Seq(Deliveries)
        /\ inFlight[t] \in SUBSET Deliveries /\ IsFiniteSet(inFlight[t])
        /\ pending'[t] = IF t = s THEN Tail(pending[t]) ELSE pending[t]
        /\ inFlight'[t] = IF t = s /\ ~acknowledged THEN inFlight[t] \cup {taken}
                                                    ELSE inFlight[t]
  BY <1>2, <1>3 DEF TransportTypes
<1>5. /\ taken \in Deliveries /\ Tail(pending[s]) \in Seq(Deliveries)
      /\ ToSet(pending[s]) = ToSet(Tail(pending[s])) \cup {taken}
      /\ DistinctIds(Tail(pending[s]))
      /\ \A d \in ToSet(Tail(pending[s])) : d.id # taken.id
  <2>1. pending[s] \in Seq(Deliveries) /\ pending[s] # <<>> /\ DistinctIds(pending[s])
    BY <1>3, <1>4 DEF TransportInv, OneDeliveryEach
  <2>2. taken = Head(pending[s])
    BY <1>1 DEF Foremost
  <2> QED BY <2>1, <2>2, TakeFromQueue
<1>6. Genuine(taken, s, taken.count)
  BY <1>5 DEF TransportInv, DeliveriesCounted
<1>7. /\ taken.id \in 1..Len(source) /\ taken.count \in 0..MaxRedeliveries
      /\ received[taken.id] = taken.count
  BY <1>5, <1>6 DEF Genuine, Deliveries
<1>8. /\ received' \in Seq(0..MaxRedeliveries + 1) /\ Len(received') = Len(received)
      /\ received'[taken.id] = taken.count + 1
      /\ \A i \in 1..Len(source) : i # taken.id => received'[i] = received[i]
  <2>1. Min({received[taken.id] + 1, MaxRedeliveries + 2}) = taken.count + 1
    BY <1>2, <1>7, MinOfTwo
  <2>2. received' = [received EXCEPT ![taken.id] = taken.count + 1]
    BY <1>3, <2>1
  <2>3. /\ received \in Seq(0..MaxRedeliveries + 1) /\ Len(received) = Len(source)
        /\ taken.count + 1 \in 0..MaxRedeliveries + 1
    BY <1>2, <1>7 DEF TransportTypes
  <2> QED BY <1>7, <2>2, <2>3
<1>9. TransportTypes'
  <2>1. pending' \in [Subjects -> Seq(Deliveries)]
    BY <1>2, <1>3, <1>5 DEF TransportTypes
  <2>2. inFlight' \in [Subjects -> SUBSET Deliveries]
    BY <1>2, <1>3, <1>5 DEF TransportTypes
  <2>3. \A t \in Subjects : IsFiniteSet(inFlight'[t])
    <3>1. \A t \in Subjects : IsFiniteSet(inFlight[t] \cup {taken})
      BY <1>4, FS_AddElement
    <3> QED BY <1>4, <3>1
  <2> QED BY <1>2, <1>3, <1>8, <2>1, <2>2, <2>3 DEF TransportTypes
<1>10. ASSUME NEW t, NEW d, NEW times, Genuine(d, t, times), d.id # taken.id
       PROVE  Genuine(d, t, times)'
  BY <1>3, <1>8, <1>10 DEF Genuine
<1>11. ASSUME NEW t, NEW d, NEW times, Genuine(d, t, times), d.id = taken.id
       PROVE  t = s /\ times = taken.count
  BY <1>6, <1>11 DEF Genuine
<1>12. Genuine(taken, s, taken.count + 1)'
  BY <1>3, <1>6, <1>8 DEF Genuine
<1>13. ASSUME NEW t \in Subjects
       PROVE  /\ \A d \in ToSet(pending[t])' : Genuine(d, t, d.count)'
              /\ \A d \in inFlight'[t] : Genuine(d, t, d.count + 1)'
              /\ \A d \in deadLetters'[t] : Genuine(d, t, MaxRedeliveries + 1)'
              /\ DistinctIds(pending[t])'
              /\ \A d \in ToSet(pending[t])', e \in inFlight'[t] : d.id # e.id
  <2>1. /\ \A d \in ToSet(pending[t]) : Genuine(d, t, d.count)
        /\ \A d \in inFlight[t] : Genuine(d, t, d.count + 1)
        /\ \A d \in deadLetters[t] : Genuine(d, t, MaxRedeliveries + 1)
        /\ DistinctIds(pending[t])
        /\ \A d \in ToSet(pending[t]), e \in inFlight[t] : d.id # e.id
    BY DEF TransportInv, DeliveriesCounted, OneDeliveryEach
  <2>2. /\ ToSet(pending[t])' \subseteq ToSet(pending[t])
        /\ DistinctIds(pending[t])'
        /\ \A d \in ToSet(pending[t])' : d.id # taken.id
    <3>1. CASE t = s
      <4>1. pending'[t] = Tail(pending[s])
        BY <1>4, <3>1
      <4> QED BY <1>5, <3>1, <4>1
    <3>2. CASE t # s
      <4>1. pending'[t] = pending[t]
        BY <1>4, <3>2
      <4> QED BY <1>11, <2>1, <3>2, <4>1
    <3> QED BY <3>1, <3>2
  <2>3. \A d \in inFlight[t] : d.id # taken.id
    <3>1. CASE t = s
      BY <1>5, <2>1, <3>1
    <3>2. CASE t # s
      BY <1>11, <2>1, <3>2
    <3> QED BY <3>1, <3>2
  <2>4. \A d \in deadLetters[t] : d.id # taken.id
    BY <1>2, <1>7, <1>11, <2>1
  <2>5. /\ inFlight'[t] \subseteq inFlight[t] \cup (IF t = s THEN {taken} ELSE {})
        /\ deadLetters'[t] = deadLetters[t]
    BY <1>3, <1>4
  <2>6. \A d \in inFlight'[t] : Genuine(d, t, d.count + 1)'
    BY <1>10, <1>12, <2>1, <2>3, <2>5
  <2>7. \A d \in ToSet(pending[t])', e \in inFlight'[t] : d.id # e.id
    BY <2>1, <2>2, <2>5
  <2> QED BY <1>10, <2>1, <2>2, <2>4, <2>5, <2>6, <2>7
<1>14. TransportInv'
  BY <1>9, <1>13 DEF TransportInv, DeliveriesCounted, OneDeliveryEach
<1>15. ASSUME NEW t \in Subjects
       PROVE  /\ GivenUp(t)' = GivenUp(t)
              /\ Outstanding(t) \subseteq Outstanding(t)' \cup
                   (IF t = s /\ acknowledged THEN {taken.id} ELSE {})
  <2>1. GivenUp(t)' = GivenUp(t)
    BY <1>3 DEF GivenUp
  <2>2. ToSet(pending[t]) \cup inFlight[t] \subseteq
          (ToSet(pending[t])' \cup inFlight'[t])
            \cup (IF t = s /\ acknowledged THEN {taken} ELSE {})
    <3>1. CASE t = s
      <4>1. pending'[t] = Tail(pending[s])
        BY <1>4, <3>1
      <4> QED BY <1>4, <1>5, <3>1, <4>1
    <3>2. CASE t # s
      BY <1>4, <3>2
    <3> QED BY <3>1, <3>2
  <2> QED BY <2>1, <2>2 DEF Outstanding
<1> QED BY <1>1, <1>5, <1>6, <1>14, <1>15

LEMMA RedeliveryIs ==
  ASSUME NEW d \in Deliveries, ~Exhausted(d)
  PROVE  /\ Redelivery(d) \in Deliveries
         /\ Redelivery(d).id = d.id /\ Redelivery(d).payload = d.payload
         /\ Redelivery(d).count = d.count + 1
BY TransportAssumption DEF Redelivery, Exhausted, Deliveries

LEMMA RedeliverKeepsTransport ==
  ASSUME TransportInv, NEW s \in Subjects, Redeliver(s)
  PROVE  /\ TransportInv'
         /\ \A t \in Subjects :
              Outstanding(t) \cup GivenUp(t) \subseteq (Outstanding(t) \cup GivenUp(t))'
<1> DEFINE dead == {d \in inFlight[s] : Exhausted(d)}
           back == {Redelivery(d) : d \in inFlight[s] \ dead}
<1>1. TransportTypes /\ MaxRedeliveries \in Nat
  BY TransportAssumption DEF TransportInv
<1>2. PICK q \in InIdOrder(back) :
        /\ pending' = [pending EXCEPT ![s] = @ \o q]
        /\ deadLetters' = [deadLetters EXCEPT ![s] = @ \cup dead]
        /\ inFlight' = [inFlight EXCEPT ![s] = {}]
        /\ nextId' = nextId /\ source' = source /\ received' = received
  BY DEF Redeliver, SimulateCrash
<1>3. inFlight[s] \in SUBSET Deliveries /\ IsFiniteSet(inFlight[s])
  BY <1>1 DEF TransportTypes
<1>4. /\ back \subseteq Deliveries
      /\ \A e \in back : \E d \in inFlight[s] : e.id = d.id /\ e.count = d.count + 1
      /\ \A d \in inFlight[s] \ dead : \E e \in back : e.id = d.id
  BY <1>3, RedeliveryIs
<1>5. IsFiniteSet(back)
  <2> DEFINE left == inFlight[s] \ dead
             redelivered == [d \in left |-> Redelivery(d)]
  <2>1. IsFiniteSet(left)
    BY <1>3, FS_Subset
  <2>2. redelivered \in Surjection(left, back)
    BY DEF Surjection
  <2> HIDE DEF left, redelivered, back
  <2> QED BY <2>1, <2>2, FS_Surjection
<1>6. \A d \in dead : d.count = MaxRedeliveries
  BY <1>1, <1>3 DEF Exhausted, Deliveries
<1>7. dead \subseteq inFlight[s] /\ dead \subseteq Deliveries
  BY <1>3
<1>8. PICK gone, again : gone = dead /\ again = back
  OBVIOUS
<1> HIDE DEF dead, back
<1>9. /\ q \in Seq(Deliveries) /\ ToSet(q) = again /\ DistinctIds(q)
  <2>1. /\ q \in [1..Cardinality(back) -> back] /\ ToSet(q) = back
        /\ \A i, j \in DOMAIN q : i < j => q[i].id < q[j].id
    BY <1>2 DEF InIdOrder
  <2>2. Cardinality(back) \in Nat
    BY <1>5, FS_CardinalityType
  <2>3. q \in Seq(Deliveries) /\ Len(q) = Cardinality(back) /\ DOMAIN q = 1..Len(q)
    BY <1>4, <2>1, <2>2
  <2>4. \A i \in DOMAIN q : q[i].id \in Nat
    BY <1>4, <2>1 DEF Deliveries
  <2>5. DistinctIds(q)
    <3> SUFFICES ASSUME NEW i \in DOMAIN q, NEW j \in DOMAIN q, q[i].id = q[j].id, i # j
                 PROVE  FALSE
      BY <2>3 DEF DistinctIds
    <3>1. i \in Nat /\ j \in Nat
      BY <2>2, <2>3
    <3>2. CASE i < j
      BY <2>1, <2>4, <3>2
    <3>3. CASE j < i
      BY <2>1, <2>4, <3>3
    <3> QED BY <3>1, <3>2, <3>3
  <2> QED BY <1>8, <2>1, <2>3, <2>5
<1>10. \A t \in Subjects :
         /\ pending[t] \in Seq(Deliveries)
         /\ pending'[t] = IF t = s THEN pending[t] \o q ELSE pending[t]
         /\ inFlight'[t] = IF t = s THEN {} ELSE inFlight[t]
         /\ deadLetters'[t] = IF t = s THEN deadLetters[t] \cup gone ELSE deadLetters[t]
  BY <1>1, <1>2, <1>8 DEF TransportTypes
<1>11. TransportTypes'
  <2>1. pending[s] \o q \in Seq(Deliveries)
    BY <1>9, <1>10, JoinQueues
  <2>2. pending' \in [Subjects -> Seq(Deliveries)]
    BY <1>1, <1>2, <2>1 DEF TransportTypes
  <2>3. inFlight' \in [Subjects -> SUBSET Deliveries]
    BY <1>1, <1>2 DEF TransportTypes
  <2>4. deadLetters' \in [Subjects -> SUBSET Deliveries]
    BY <1>1, <1>2, <1>7 DEF TransportTypes
  <2>5. \A t \in Subjects : IsFiniteSet(inFlight'[t])
    BY <1>1, <1>10, FS_EmptySet DEF TransportTypes
  <2> QED BY <1>1, <1>2, <2>2, <2>3, <2>4, <2>5 DEF TransportTypes
<1>12. \A d, t, times : Genuine(d, t, times) => Genuine(d, t, times)'
  BY <1>2 DEF Genuine
<1>13. \A e \in again : Genuine(e, s, e.count)
  <2> SUFFICES ASSUME NEW e \in again PROVE Genuine(e, s, e.count)
    OBVIOUS
  <2>1. PICK d \in inFlight[s] \ dead : e = Redelivery(d)
    BY <1>8 DEF back
  <2>2. e.id = d.id /\ e.payload = d.payload /\ e.count = d.count + 1
    BY <1>3, <2>1, RedeliveryIs DEF dead
  <2>3. Genuine(d, s, d.count + 1)
    BY <2>1 DEF TransportInv, DeliveriesCounted
  <2> QED BY <2>2, <2>3 DEF Genuine
<1>14. ASSUME NEW t \in Subjects
       PROVE  /\ \A d \in ToSet(pending[t])' : Genuine(d, t, d.count)'
              /\ \A d \in inFlight'[t] : Genuine(d, t, d.count + 1)'
              /\ \A d \in deadLetters'[t] : Genuine(d, t, MaxRedeliveries + 1)'
              /\ DistinctIds(pending[t])'
              /\ \A d \in ToSet(pending[t])', e \in inFlight'[t] : d.id # e.id
  <2>1. /\ \A d \in ToSet(pending[t]) : Genuine(d, t, d.count)
        /\ \A d \in inFlight[t] : Genuine(d, t, d.count + 1)
        /\ \A d \in deadLetters[t] : Genuine(d, t, MaxRedeliveries + 1)
        /\ DistinctIds(pending[t])
        /\ \A d \in ToSet(pending[t]), e \in inFlight[t] : d.id # e.id
    BY DEF TransportInv, DeliveriesCounted, OneDeliveryEach
  <2>2. CASE t = s
    <3>1. /\ ToSet(pending[s] \o q) = ToSet(pending[s]) \cup again
          /\ DistinctIds(pending[s] \o q)
      <4>1. \A d \in ToSet(pending[s]), e \in ToSet(q) : d.id # e.id
        BY <1>4, <1>8, <1>9, <2>1, <2>2
      <4>2. pending[s] \in Seq(Deliveries) /\ DistinctIds(pending[s])
        BY <1>10, <2>1, <2>2
      <4> QED BY <1>9, <4>1, <4>2, JoinQueues
    <3>2. /\ pending'[t] = pending[s] \o q /\ inFlight'[t] = {}
          /\ deadLetters'[t] = deadLetters[s] \cup gone
      BY <1>10, <2>2
    <3>3. \A d \in gone : Genuine(d, t, MaxRedeliveries + 1)
      BY <1>6, <1>7, <1>8, <2>1, <2>2
    <3> QED BY <1>12, <1>13, <2>1, <2>2, <3>1, <3>2, <3>3
  <2>3. CASE t # s
    <3>1. /\ pending'[t] = pending[t] /\ inFlight'[t] = inFlight[t]
          /\ deadLetters'[t] = deadLetters[t]
      BY <1>10, <2>3
    <3> QED BY <1>12, <2>1, <3>1
  <2> QED BY <2>2, <2>3
<1>15. TransportInv'
  BY <1>11, <1>14 DEF TransportInv, DeliveriesCounted, OneDeliveryEach
<1>16. ASSUME NEW t \in Subjects
       PROVE  Outstanding(t) \cup GivenUp(t) \subseteq (Outstanding(t) \cup GivenUp(t))'
  <2>1. CASE t = s
    <3>1. /\ pending'[t] = pending[t] \o q
          /\ deadLetters'[t] = deadLetters[t] \cup gone
      BY <1>10, <2>1
    <3>2. \A d \in inFlight[s] : d \in gone \/ \E e \in again : e.id = d.id
      BY <1>4, <1>8
    <3>3. ToSet(pending[t] \o q) = ToSet(pending[t]) \cup again
      <4>1. pending[t] \in Seq(Deliveries)
        BY <1>10
      <4>2. ToSet(pending[t] \o q) = ToSet(pending[t]) \cup ToSet(q)
        BY <1>9, <4>1, JoinQueues
      <4> QED BY <1>9, <4>2
    <3> QED BY <2>1, <3>1, <3>2, <3>3 DEF Outstanding, GivenUp
  <2>2. CASE t # s
    <3>1. /\ pending'[t] = pending[t] /\ inFlight'[t] = inFlight[t]
          /\ deadLetters'[t] = deadLetters[t]
      BY <1>10, <2>2
    <3> QED BY <3>1 DEF Outstanding, GivenUp
  <2> QED BY <2>1, <2>2
<1> QED BY <1>15, <1>16

-----------------------------------------------------------------------------
(***************************************************************************)
(* The loop of a pass is a fold.  Its recursion has a solution, any two    *)
(* agree where both are defined, and so a pass over some hypotheses is one *)
(* over all but one of them and then that one.                             *)
(***************************************************************************)
AfterPass(base, hs) == FoldSet(LAMBDA h, before : ReturnStakes(before, h), base, hs)

Passes(iter, base, S) ==
  iter = [s \in SUBSET S |->
            IF s = {} THEN base ELSE ReturnStakes(iter[s \ {Chosen(s)}], Chosen(s))]

LEMMA AfterPassIs ==
  ASSUME NEW base, NEW S
  PROVE  AfterPass(base, S) = (CHOOSE iter : Passes(iter, base, S))[S]
<1> USE DEF Passes, Chosen
<1> HIDE DEF ReturnStakes
<1> QED BY DEF AfterPass, FoldSet, MapThenFoldSet

LEMMA PassesEmpty ==
  ASSUME NEW base, NEW S, NEW iter, Passes(iter, base, S)
  PROVE  iter[{}] = base
BY DEF Passes

LEMMA PassesNext ==
  ASSUME NEW base, NEW S, NEW iter, Passes(iter, base, S), NEW s \in SUBSET S, s # {}
  PROVE  iter[s] = ReturnStakes(iter[s \ {Chosen(s)}], Chosen(s))
BY DEF Passes

LEMMA PassesAgree ==
  ASSUME NEW base, NEW S, NEW g, Passes(g, base, S),
         NEW T \in SUBSET S, IsFiniteSet(T), NEW h, Passes(h, base, T)
  PROVE  g[T] = h[T]
<1> DEFINE P == {U \in SUBSET T : g[U] = h[U]}
<1>1. ASSUME NEW U \in SUBSET T, \A V \in SUBSET U : V # U => V \in P
      PROVE  U \in P
  <2>1. CASE U = {}
    <3>1. g[{}] = base /\ h[{}] = base
      BY PassesEmpty
    <3> QED BY <2>1, <3>1
  <2>2. CASE U # {}
    <3>1. Chosen(U) \in U
      BY <2>2, ChosenIn
    <3>2. U \ {Chosen(U)} \in P
      BY <1>1, <3>1
    <3>3. U \in SUBSET S
      OBVIOUS
    <3>4. g[U] = ReturnStakes(g[U \ {Chosen(U)}], Chosen(U))
      BY <2>2, <3>3, PassesNext
    <3>5. h[U] = ReturnStakes(h[U \ {Chosen(U)}], Chosen(U))
      BY <2>2, PassesNext
    <3> QED BY <3>2, <3>4, <3>5
  <2> QED BY <2>1, <2>2
<1>2. T \in P
  <2> HIDE DEF P
  <2> QED BY <1>1, SubsetInduction
<1> QED BY <1>2

LEMMA PassesExists ==
  ASSUME NEW base, NEW S, IsFiniteSet(S)
  PROVE  \E iter : Passes(iter, base, S)
<1> DEFINE P == {T \in SUBSET S : \E iter : Passes(iter, base, T)}
           end(s) == AfterPass(base, s)
<1>1. ASSUME NEW T \in SUBSET S, \A U \in SUBSET T : U # T => U \in P
      PROVE  T \in P
  <2>1. ASSUME NEW U \in SUBSET T, U # T
        PROVE  \E iter : Passes(iter, base, U) /\ end(U) = iter[U]
    <3>1. U \in P
      BY <1>1, <2>1
    <3> QED BY <3>1, AfterPassIs
  <2>2. ASSUME NEW U \in SUBSET T, U # T, U # {}
        PROVE  end(U) = ReturnStakes(end(U \ {Chosen(U)}), Chosen(U))
    <3>1. PICK g : Passes(g, base, U) /\ end(U) = g[U]
      BY <2>1, <2>2
    <3>2. Chosen(U) \in U
      BY <2>2, ChosenIn
    <3>3. /\ U \ {Chosen(U)} \in SUBSET T /\ U \ {Chosen(U)} # T
          /\ U \ {Chosen(U)} \in SUBSET U
      BY <2>2, <3>2
    <3>4. PICK h : /\ Passes(h, base, U \ {Chosen(U)})
                   /\ end(U \ {Chosen(U)}) = h[U \ {Chosen(U)}]
      BY <2>1, <3>3
    <3>5. IsFiniteSet(U \ {Chosen(U)})
      BY FS_Subset
    <3>6. g[U \ {Chosen(U)}] = h[U \ {Chosen(U)}]
      BY <3>1, <3>3, <3>4, <3>5, PassesAgree
    <3>7. g[U] = ReturnStakes(g[U \ {Chosen(U)}], Chosen(U))
      BY <2>2, <3>1, PassesNext
    <3> QED BY <3>1, <3>4, <3>6, <3>7
  <2>3. ASSUME {} # T
        PROVE  end({}) = base
    <3>1. PICK g : Passes(g, base, {}) /\ end({}) = g[{}]
      BY <2>1, <2>3
    <3> QED BY <3>1, PassesEmpty
  <2> HIDE DEF end
  <2> DEFINE iter == [s \in SUBSET T |->
                        IF s = {} THEN base
                        ELSE ReturnStakes(end(s \ {Chosen(s)}), Chosen(s))]
  <2>4. ASSUME NEW s \in SUBSET T, s # {}
        PROVE  iter[s \ {Chosen(s)}] = end(s \ {Chosen(s)})
    <3>1. Chosen(s) \in s
      BY <2>4, ChosenIn
    <3>2. s \ {Chosen(s)} \in SUBSET T /\ s \ {Chosen(s)} # T
      BY <3>1
    <3>3. CASE s \ {Chosen(s)} = {}
      BY <2>3, <3>2, <3>3
    <3>4. CASE s \ {Chosen(s)} # {}
      BY <2>2, <3>2, <3>4
    <3> QED BY <3>3, <3>4
  <2>5. iter = [s \in SUBSET T |->
                  IF s = {} THEN base
                  ELSE ReturnStakes(iter[s \ {Chosen(s)}], Chosen(s))]
    BY <2>4
  <2>6. Passes(iter, base, T)
    BY <2>5 DEF Passes
  <2> HIDE DEF iter
  <2> QED BY <2>6
<1>2. S \in P
  <2> HIDE DEF P
  <2> QED BY <1>1, SubsetInduction
<1> QED BY <1>2

LEMMA PassStep ==
  ASSUME NEW base, NEW S, IsFiniteSet(S)
  PROVE  /\ S = {} => AfterPass(base, S) = base
         /\ S # {} => AfterPass(base, S) =
                        ReturnStakes(AfterPass(base, S \ {Chosen(S)}), Chosen(S))
<1>1. PICK g : Passes(g, base, S) /\ AfterPass(base, S) = g[S]
  BY PassesExists, AfterPassIs
<1>2. CASE S = {}
  BY <1>1, <1>2, PassesEmpty
<1>3. CASE S # {}
  <2>1. /\ IsFiniteSet(S \ {Chosen(S)}) /\ S \ {Chosen(S)} \in SUBSET S
    BY FS_Subset
  <2>2. PICK h : /\ Passes(h, base, S \ {Chosen(S)})
                 /\ AfterPass(base, S \ {Chosen(S)}) = h[S \ {Chosen(S)}]
    BY <2>1, PassesExists, AfterPassIs
  <2>3. g[S \ {Chosen(S)}] = h[S \ {Chosen(S)}]
    BY <1>1, <2>1, <2>2, PassesAgree
  <2>4. g[S] = ReturnStakes(g[S \ {Chosen(S)}], Chosen(S))
    BY <1>1, <1>3, PassesNext
  <2> QED BY <1>1, <1>3, <2>2, <2>3, <2>4
<1> QED BY <1>2, <1>3

(***************************************************************************)
(* What a pass over some hypotheses leaves: they are expired, every agent  *)
(* has what it had and no less of it available, and nothing else moved.    *)
(***************************************************************************)
ExpiredOnly(before, after, hs) ==
  /\ after \in Ledgers
  /\ after.events = before.events /\ after.agents = before.agents
  /\ after.reputation = before.reputation /\ after.forecast = before.forecast
  /\ after.outcome = before.outcome /\ after.settled = before.settled
  /\ after.delta = before.delta
  /\ \A g \in HypothesisIds :
       after.status[g] = IF g \in hs THEN "expired" ELSE before.status[g]
  /\ \A a \in AgentIds : /\ Total(after, a) = Total(before, a)
                         /\ after.available[a] >= before.available[a]

LEMMA ReturnStakesEffect ==
  ASSUME NEW before \in Ledgers, NEW h \in HypothesisIds
  PROVE  ExpiredOnly(before, ReturnStakes(before, h), {h})
<1> DEFINE after == ReturnStakes(before, h)
           stake(a) == before.forecast[h][a].stake
<1>1. \A a \in AgentIds : /\ stake(a) \in Nat
                          /\ before.available[a] \in Int /\ before.staked[a] \in Int
  BY LedgerAssumption DEF Ledgers, Forecasts
<1>2. after = [before EXCEPT
                 !.status = [before.status EXCEPT ![h] = "expired"],
                 !.available = [a \in AgentIds |-> before.available[a] + stake(a)],
                 !.staked = [a \in AgentIds |-> before.staked[a] - stake(a)]]
  BY DEF ReturnStakes, Ledgers
<1> HIDE DEF after, stake
<1>3. /\ [before.status EXCEPT ![h] = "expired"] \in [HypothesisIds -> Statuses]
      /\ [a \in AgentIds |-> before.available[a] + stake(a)] \in [AgentIds -> Int]
      /\ [a \in AgentIds |-> before.staked[a] - stake(a)] \in [AgentIds -> Int]
  BY <1>1 DEF Ledgers, Statuses
<1>4. after \in Ledgers
  BY <1>2, <1>3 DEF Ledgers
<1>5. /\ after.events = before.events /\ after.agents = before.agents
      /\ after.reputation = before.reputation /\ after.forecast = before.forecast
      /\ after.outcome = before.outcome /\ after.settled = before.settled
      /\ after.delta = before.delta
      /\ after.status = [before.status EXCEPT ![h] = "expired"]
      /\ after.available = [a \in AgentIds |-> before.available[a] + stake(a)]
      /\ after.staked = [a \in AgentIds |-> before.staked[a] - stake(a)]
  BY <1>2 DEF Ledgers
<1>6. \A g \in HypothesisIds :
        after.status[g] = IF g \in {h} THEN "expired" ELSE before.status[g]
  BY <1>5 DEF Ledgers
<1>7. \A a \in AgentIds : /\ Total(after, a) = Total(before, a)
                          /\ after.available[a] >= before.available[a]
  BY <1>1, <1>5 DEF Total
<1> QED BY <1>4, <1>5, <1>6, <1>7 DEF ExpiredOnly, after

LEMMA AfterPassEffect ==
  ASSUME NEW before \in Ledgers, NEW hs \in SUBSET HypothesisIds
  PROVE  ExpiredOnly(before, AfterPass(before, hs), hs)
<1> DEFINE P == {gs \in SUBSET hs : ExpiredOnly(before, AfterPass(before, gs), gs)}
<1>1. IsFiniteSet(hs)
  BY LedgerAssumption, FS_Subset
<1>2. ASSUME NEW gs \in SUBSET hs, \A fs \in SUBSET gs : fs # gs => fs \in P
      PROVE  gs \in P
  <2>1. IsFiniteSet(gs)
    BY <1>1, FS_Subset
  <2>2. CASE gs = {}
    <3>1. AfterPass(before, gs) = before
      BY <2>1, <2>2, PassStep
    <3>2. \A a \in AgentIds : before.available[a] >= before.available[a]
      BY DEF Ledgers
    <3> QED BY <2>2, <3>1, <3>2 DEF ExpiredOnly
  <2>3. CASE gs # {}
    <3> DEFINE fs == gs \ {Chosen(gs)}
               middle == AfterPass(before, fs)
               after == AfterPass(before, gs)
    <3>1. Chosen(gs) \in gs
      BY <2>3, ChosenIn
    <3>2. fs \in P
      BY <1>2, <3>1
    <3>3. after = ReturnStakes(middle, Chosen(gs))
      BY <2>1, <2>3, PassStep
    <3>4. gs = fs \cup {Chosen(gs)}
      BY <3>1
    <3> HIDE DEF middle, after
    <3>5. ExpiredOnly(before, middle, fs)
      BY <3>2 DEF middle
    <3> HIDE DEF fs
    <3>6. ExpiredOnly(middle, after, {Chosen(gs)})
      BY <3>1, <3>3, <3>5, ReturnStakesEffect DEF ExpiredOnly
    <3>7. ExpiredOnly(before, after, gs)
      <4>1. \A a \in AgentIds : /\ before.available[a] \in Int
                                /\ middle.available[a] \in Int /\ after.available[a] \in Int
        BY <3>5, <3>6 DEF ExpiredOnly, Ledgers
      <4>2. \A a \in AgentIds : /\ Total(after, a) = Total(before, a)
                                /\ after.available[a] >= before.available[a]
        BY <3>5, <3>6, <4>1 DEF ExpiredOnly
      <4>3. \A g \in HypothesisIds :
              after.status[g] = IF g \in gs THEN "expired" ELSE before.status[g]
        BY <3>4, <3>5, <3>6 DEF ExpiredOnly
      <4> QED BY <3>5, <3>6, <4>2, <4>3 DEF ExpiredOnly
    <3> QED BY <3>7 DEF after
  <2> QED BY <2>2, <2>3
<1>3. hs \in P
  <2> HIDE DEF P
  <2> QED BY <1>1, <1>2, SubsetInduction
<1> QED BY <1>3

-----------------------------------------------------------------------------
(***************************************************************************)
(* The books.  After an expiry the rows of the hypothesis are still there  *)
(* without their stakes, so the staked columns are no longer backed by     *)
(* them; all else of the worker's invariant holds, whatever is missing.    *)
(***************************************************************************)
Books(l) == \E missing : BooksInv(l, missing)

LEMMA PassKeepsBooks ==
  ASSUME NEW before, Books(before), NEW after, NEW hs \in SUBSET HypothesisIds, hs # {},
         \A h \in hs : before.status[h] = "open",
         ExpiredOnly(before, after, hs)
  PROVE  Books(after) /\ KeepsResolutions(before, after) /\ Conserves(before, after)
<1>1. PICK missing : BooksInv(before, missing)
  BY DEF Books
<1>2. before \in Ledgers /\ after \in Ledgers
  BY <1>1 DEF BooksInv, ExpiredOnly
<1>3. \A h \in HypothesisIds : before.outcome[h] # NoOutcome =>
        before.status[h] = "resolved" /\ h \notin hs
  BY <1>1 DEF BooksInv, OutcomesResolve
<1>4. Replayable(after)
  <2>1. \A h \in HypothesisIds, a \in AgentIds :
          <<h, a>> \in before.settled => before.outcome[h] # NoOutcome
    BY <1>1 DEF BooksInv, Replayable, NoOutcome
  <2> QED BY <1>1, <1>3, <2>1 DEF BooksInv, Replayable, ExpiredOnly
<1>5. OutcomesResolve(after)
  BY <1>3 DEF OutcomesResolve, ExpiredOnly
<1>6. ReputationsInRange(after)
  BY <1>1 DEF BooksInv, ReputationsInRange, ExpiredOnly
<1>7. Solvent(after)
  <2>1. \A a \in AgentIds : /\ before.available[a] \in Int /\ after.available[a] \in Int
                            /\ before.available[a] >= 0
                            /\ after.available[a] >= before.available[a]
    BY <1>1, <1>2 DEF BooksInv, Solvent, ExpiredOnly, Ledgers
  <2> QED BY <2>1 DEF Solvent
<1>8. Books(after)
  <2> DEFINE short == [a \in AgentIds |->
                         Cardinality(LockedCredits(after, a)) - after.staked[a]]
  <2>1. \A a \in AgentIds : /\ Cardinality(LockedCredits(after, a)) \in Nat
                            /\ after.staked[a] \in Int
    BY <1>2, LockedCreditsFinite DEF Ledgers
  <2>2. short \in [AgentIds -> Int] /\ BackedBut(after, short)
    BY <2>1 DEF BackedBut
  <2> HIDE DEF short
  <2>3. BooksInv(after, short)
    BY <1>2, <1>4, <1>5, <1>6, <1>7, <2>2 DEF BooksInv
  <2> QED BY <2>3 DEF Books
<1>9. KeepsResolutions(before, after)
  BY <1>3 DEF KeepsResolutions, ExpiredOnly
<1>10. Conserves(before, after)
  <2>1. Seeded(before)
    BY DEF Seeded
  <2>2. \A a \in AgentIds : FreshlySettled(before, after, a) = {}
    BY DEF FreshlySettled, ExpiredOnly
  <2>3. \A a \in AgentIds : Total(after, a) - Total(before, a) = 0
    BY <1>2 DEF ExpiredOnly, Total, Ledgers
  <2> QED BY <2>1, <2>2, <2>3 DEF Conserves
<1> QED BY <1>8, <1>9, <1>10

LEMMA AppliedKeepsBooks ==
  ASSUME Books(ledger), NEW m \in Messages, ~Fails(m)
  PROVE  /\ Books(Applied(m))
         /\ KeepsResolutions(ledger, Applied(m)) /\ Conserves(ledger, Applied(m))
         /\ Applied(m).events = ledger.events \cup {m.id}
<1>1. PICK missing : BooksInv(ledger, missing)
  BY DEF Books
<1>2. ledger \in Ledgers /\ m \in AllMessages
  BY <1>1, ExpiryAssumption DEF BooksInv
<1>3. CASE IsNew(ledger, m)
  <2>1. Applied(m) = Process(ledger, m) /\ ~Raises(ledger, m)
    BY <1>3 DEF Applied, Fails
  <2>2. /\ BooksInv(Process(ledger, m), missing)
        /\ KeepsResolutions(ledger, Process(ledger, m))
        /\ Conserves(ledger, Process(ledger, m))
    BY <1>1, <1>2, <2>1, ProcessKeepsBooks
  <2>3. Process(ledger, m).events = ledger.events \cup {m.id}
    BY <1>2, HandleEvents, WithEventEvents, WithEventType DEF Process
  <2> QED BY <2>1, <2>2, <2>3 DEF Books
<1>4. CASE ~IsNew(ledger, m)
  <2>1. Applied(m) = ledger /\ m.id \in ledger.events
    BY <1>4 DEF Applied, IsNew
  <2>2. SameBooks(ledger, ledger)
    BY <1>2 DEF SameBooks
  <2>3. KeepsResolutions(ledger, ledger) /\ Conserves(ledger, ledger)
    BY <1>1, <2>2, SameBooksKeep
  <2> QED BY <2>1, <2>3
<1> QED BY <1>3, <1>4

LEMMA ExpireKeepsBooks ==
  ASSUME Books(ledger), Expire
  PROVE  /\ Books(ledger') /\ KeepsResolutions(ledger, ledger') /\ Conserves(ledger, ledger')
         /\ ledger'.events = ledger.events
<1>1. PICK missing : BooksInv(ledger, missing)
  BY DEF Books
<1>2. ledger \in Ledgers
  BY <1>1 DEF BooksInv
<1>3. PICK overdue \in SUBSET HypothesisIds : overdue = Overdue
  BY DEF Overdue
<1>4. overdue # {} /\ ledger' = AfterPass(ledger, overdue)
  BY <1>3 DEF Expire, AfterPass
<1>5. ExpiredOnly(ledger, ledger', overdue)
  BY <1>2, <1>4, AfterPassEffect
<1>6. \A h \in overdue : ledger.status[h] = "open"
  BY <1>3 DEF Overdue
<1>7. /\ Books(ledger') /\ KeepsResolutions(ledger, ledger') /\ Conserves(ledger, ledger')
  BY <1>4, <1>5, <1>6, PassKeepsBooks
<1> QED BY <1>5, <1>7 DEF ExpiredOnly

-----------------------------------------------------------------------------
(***************************************************************************)
(* The inductive invariant, and the theorems.                              *)
(***************************************************************************)
ExpiryInv == TransportInv /\ Books(ledger) /\ GoneAreRecorded

Held(id) == id \in Outstanding(SubjectOf(source[id])) \cup GivenUp(SubjectOf(source[id]))

LEMMA InitExpiryInv ==
  ASSUME Init
  PROVE  ExpiryInv
<1>1. TransportInv
  BY InitTransportInv
<1>2. LedgerInv(ledger)
  BY EmptyLedgerInv, SeedKeeps DEF Init
<1>3. Books(ledger)
  BY <1>2 DEF Books, LedgerInv
<1>4. GoneAreRecorded
  BY DEF Init, GoneAreRecorded
<1> QED BY <1>1, <1>3, <1>4 DEF ExpiryInv

LEMMA NextExpiryInv ==
  ASSUME ExpiryInv, [Next]_vars
  PROVE  ExpiryInv' /\ KeepsResolutions(ledger, ledger') /\ Conserves(ledger, ledger')
<1> USE DEF ExpiryInv
<1>1. PICK missing : BooksInv(ledger, missing)
  BY DEF Books
<1>2. KeepsResolutions(ledger, ledger) /\ Conserves(ledger, ledger)
  <2>1. SameBooks(ledger, ledger)
    BY <1>1 DEF SameBooks, BooksInv
  <2> QED BY <1>1, <2>1, SameBooksKeep
<1>3. \A id \in DOMAIN source : source[id] \in Messages /\ SubjectOf(source[id]) \in Subjects
  BY ExpiryAssumption DEF TransportInv, TransportTypes
<1>4. ASSUME UNCHANGED <<transport, source, received>>
      PROVE  TransportInv' /\ \A id \in DOMAIN source : Held(id) => Held(id)'
  BY <1>4 DEF transport, TransportInv, TransportTypes, DeliveriesCounted, OneDeliveryEach,
             Genuine, Held, Outstanding, GivenUp
<1>5. ASSUME source' = source, ledger.events \subseteq ledger'.events,
             \A id \in DOMAIN source : Held(id) => Held(id)' \/ source[id].id \in ledger'.events
      PROVE  GoneAreRecorded'
  BY <1>5 DEF GoneAreRecorded, Held
<1>6. CASE Tick \/ UNCHANGED vars
  <2>1. UNCHANGED <<ledger, transport, source, received>>
    BY <1>6 DEF Tick, vars
  <2> QED BY <1>2, <1>4, <1>5, <2>1
<1>7. CASE Expire
  <2>1. UNCHANGED <<transport, source, received>>
    BY <1>7 DEF Expire
  <2>2. /\ Books(ledger') /\ KeepsResolutions(ledger, ledger') /\ Conserves(ledger, ledger')
        /\ ledger'.events = ledger.events
    BY <1>7, ExpireKeepsBooks
  <2> QED BY <1>4, <1>5, <2>1, <2>2
<1>8. ASSUME NEW m \in Messages, Emit(m)
      PROVE  ExpiryInv' /\ ledger' = ledger
  <2>1. /\ TransportInv'
        /\ Len(source) + 1 \in Outstanding(SubjectOf(m))'
        /\ \A t \in Subjects : /\ GivenUp(t)' = GivenUp(t)
                               /\ Outstanding(t) \subseteq Outstanding(t)'
    BY <1>8, EmitKeepsTransport
  <2>2. ledger' = ledger /\ source' = Append(source, m) /\ source \in Seq(Messages)
    BY <1>8 DEF Emit, TransportInv, TransportTypes
  <2>3. /\ DOMAIN source' = DOMAIN source \cup {Len(source) + 1}
        /\ source'[Len(source) + 1] = m
        /\ \A id \in DOMAIN source : source'[id] = source[id]
    BY <2>2
  <2>4. GoneAreRecorded'
    BY <1>3, <2>1, <2>2, <2>3 DEF GoneAreRecorded
  <2> QED BY <2>1, <2>2, <2>4
<1>9. ASSUME NEW s \in Subjects, Redeliver(s)
      PROVE  ExpiryInv' /\ ledger' = ledger
  <2>1. /\ TransportInv' /\ ledger' = ledger /\ source' = source
        /\ \A t \in Subjects :
             Outstanding(t) \cup GivenUp(t) \subseteq (Outstanding(t) \cup GivenUp(t))'
    BY <1>9, RedeliverKeepsTransport DEF Redeliver
  <2> QED BY <1>3, <1>5, <2>1 DEF Held
<1>10. ASSUME NEW s \in Subjects, DieBeforeCommit(s)
       PROVE  ExpiryInv' /\ KeepsResolutions(ledger, ledger') /\ Conserves(ledger, ledger')
  <2>1. PICK d : d = Foremost(s)
    OBVIOUS
  <2>2. /\ Receive(s, FALSE) /\ Counted(s) /\ source' = source
        /\ ledger' = ledger \/ ledger' = WithEvent(ledger, d.payload)
    BY <1>10, <2>1 DEF DieBeforeCommit, Counted
  <2>3. /\ TransportInv' /\ d \in Deliveries
        /\ \A t \in Subjects : /\ GivenUp(t)' = GivenUp(t)
                               /\ Outstanding(t) \subseteq Outstanding(t)'
    BY <2>1, <2>2, ReceiveKeepsTransport
  <2>4. ledger \in Ledgers /\ d.payload \in AllMessages
    BY <1>1, <2>3, ExpiryAssumption DEF BooksInv, Deliveries
  <2>5. /\ SameBooks(ledger, WithEvent(ledger, d.payload))
        /\ WithEvent(ledger, d.payload).events = ledger.events \cup {d.payload.id}
    BY <2>4, WithEventSameBooks, WithEventEvents
  <2>6. /\ Books(WithEvent(ledger, d.payload))
        /\ KeepsResolutions(ledger, WithEvent(ledger, d.payload))
        /\ Conserves(ledger, WithEvent(ledger, d.payload))
    BY <1>1, <2>5, SameBooksKeep DEF Books
  <2>7. /\ Books(ledger') /\ KeepsResolutions(ledger, ledger') /\ Conserves(ledger, ledger')
        /\ ledger.events \subseteq ledger'.events
    BY <1>2, <2>2, <2>5, <2>6
  <2>8. GoneAreRecorded'
    BY <1>3, <1>5, <2>2, <2>3, <2>7 DEF Held
  <2> QED BY <2>3, <2>7, <2>8
<1>11. ASSUME NEW s \in Subjects, NEW acknowledged \in BOOLEAN, Deliver(s, acknowledged)
       PROVE  ExpiryInv' /\ KeepsResolutions(ledger, ledger') /\ Conserves(ledger, ledger')
  <2>1. PICK d : d = Foremost(s)
    OBVIOUS
  <2>2. /\ Receive(s, acknowledged) /\ Counted(s) /\ source' = source
        /\ ~Fails(d.payload) /\ ledger' = Applied(d.payload)
    BY <1>11, <2>1 DEF Deliver, Counted
  <2>3. /\ TransportInv' /\ d \in Deliveries /\ Genuine(d, s, d.count)
        /\ \A t \in Subjects :
              /\ GivenUp(t)' = GivenUp(t)
              /\ Outstanding(t) \subseteq Outstanding(t)' \cup
                   (IF t = s /\ acknowledged THEN {d.id} ELSE {})
    BY <2>1, <2>2, ReceiveKeepsTransport
  <2>4. d.payload \in Messages /\ source[d.id] = d.payload
    BY <2>3 DEF Deliveries, Genuine
  <2>5. /\ Books(ledger') /\ KeepsResolutions(ledger, ledger') /\ Conserves(ledger, ledger')
        /\ ledger'.events = ledger.events \cup {d.payload.id}
    BY <2>2, <2>4, AppliedKeepsBooks
  <2>6. \A id \in DOMAIN source : Held(id) => Held(id)' \/ source[id].id \in ledger'.events
    BY <1>3, <2>2, <2>3, <2>4, <2>5 DEF Held
  <2>7. GoneAreRecorded'
    BY <1>5, <2>2, <2>5, <2>6
  <2> QED BY <2>3, <2>5, <2>7
<1>12. CASE Next
  BY <1>2, <1>6, <1>7, <1>8, <1>9, <1>10, <1>11, <1>12 DEF Next, Consume
<1> QED BY <1>6, <1>12

(***************************************************************************)
(* At every step of publishers, consumers, crashes and expiry passes: each *)
(* message has at most one delivery with its true count, the ledger's      *)
(* books balance up to what expiry left in the rows, and nothing is lost.  *)
(***************************************************************************)
THEOREM ExpiryInvariant == Spec => []ExpiryInv
<1>1. Init => ExpiryInv
  BY InitExpiryInv
<1>2. ExpiryInv /\ [Next]_vars => ExpiryInv'
  BY NextExpiryInv
<1> QED BY <1>1, <1>2, PTL DEF Spec

(***************************************************************************)
(* Nothing is lost: a message that no subject holds, and that was not      *)
(* given up, is in the events table.                                       *)
(***************************************************************************)
THEOREM NothingIsLost == Spec => []GoneAreRecorded
<1>1. ExpiryInv => GoneAreRecorded
  BY DEF ExpiryInv
<1> QED BY <1>1, ExpiryInvariant, PTL

(***************************************************************************)
(* The dead letters are what was received max_redeliveries + 1 times.      *)
(***************************************************************************)
THEOREM DeadLettersAreExhausted == Spec => []GivenUpInTime
<1>1. ASSUME ExpiryInv
      PROVE  GivenUpInTime
  <2>1. TransportTypes /\ MaxRedeliveries \in Nat
    BY <1>1, TransportAssumption DEF ExpiryInv, TransportInv
  <2>2. \A id \in DOMAIN source : received[id] \in 0..MaxRedeliveries + 1
    BY <2>1 DEF TransportTypes
  <2>3. \A id \in DOMAIN source : SubjectOf(source[id]) \in Subjects
    BY <2>1, ExpiryAssumption DEF TransportTypes
  <2>4. \A s \in Subjects : \A id \in GivenUp(s) : received[id] = MaxRedeliveries + 1
    BY <1>1 DEF ExpiryInv, TransportInv, DeliveriesCounted, GivenUp, Genuine
  <2> QED BY <2>1, <2>2, <2>3, <2>4 DEF GivenUpInTime
<1> QED BY <1>1, ExpiryInvariant, PTL

(***************************************************************************)
(* Neither a pass nor a delivery makes or destroys a credit.               *)
(***************************************************************************)
THEOREM ExpiryConserves == Spec => CreditsAreConserved
<1>1. ExpiryInv /\ [Next]_vars => [Conserves(ledger, ledger')]_vars
  BY NextExpiryInv
<1> QED BY <1>1, ExpiryInvariant, PTL DEF Spec, CreditsAreConserved

(***************************************************************************)
(* A pass after a resolution leaves it and its settlements as they were.   *)
(***************************************************************************)
THEOREM ExpiryKeepsResolutions == Spec => ResolutionIsFinal
<1>1. ExpiryInv /\ [Next]_vars => [KeepsResolutions(ledger, ledger')]_vars
  BY NextExpiryInv
<1> QED BY <1>1, ExpiryInvariant, PTL DEF Spec, ResolutionIsFinal
=============================================================================
