--------------------------- MODULE MemoryTransport ---------------------------
(***************************************************************************)
(* transport/memory.py: the in-process stand-in for JetStream.  A message  *)
(* taken from a subject's queue is in flight until it is acknowledged;     *)
(* simulate_crash puts what is in flight back at the end of the queue, or  *)
(* with the dead letters once it has been redelivered often enough.        *)
(***************************************************************************)
EXTENDS Integers, SequencesExt

CONSTANTS Subjects,
          MaxRedeliveries, \* max_redeliveries
          MaxPublished     \* bound: messages published

ASSUME TransportAssumption == MaxRedeliveries \in Nat /\ MaxPublished \in Nat

VARIABLES
  pending,     \* _pending: per subject the queue of deliveries to come
  inFlight,    \* _in_flight: deliveries received and not acknowledged
  deadLetters, \* _dead_letter: deliveries given up
  nextId       \* _next_id

transport == <<pending, inFlight, deadLetters, nextId>>

InitTransport ==
  /\ pending = [s \in Subjects |-> <<>>]
  /\ inFlight = [s \in Subjects |-> {}]
  /\ deadLetters = [s \in Subjects |-> {}]
  /\ nextId = 1

Publish(s, payload) ==
  /\ nextId <= MaxPublished
  /\ pending' = [pending EXCEPT
       ![s] = Append(@, [id |-> nextId, payload |-> payload, count |-> 0])]
  /\ nextId' = nextId + 1
  /\ UNCHANGED <<inFlight, deadLetters>>

(* One turn of the loop in subscribe, acknowledged by its consumer or not. *)
Receive(s, acknowledged) ==
  /\ pending[s] # <<>>
  /\ pending' = [pending EXCEPT ![s] = Tail(@)]
  /\ inFlight' = [inFlight EXCEPT
       ![s] = IF acknowledged THEN @ ELSE @ \cup {Head(pending[s])}]
  /\ UNCHANGED <<deadLetters, nextId>>

ExhaustedLate(d) == d.count > MaxRedeliveries                      \* mutant
Exhausted(d) == d.count >= MaxRedeliveries

UncountedRedelivery(d) == d                                        \* mutant
Redelivery(d) == [d EXCEPT !.count = @ + 1]

(* sorted(in_flight): the one sequence of these deliveries in which the    *)
(* message ids ascend.                                                     *)
InIdOrder(deliveries) ==
  {q \in [1..Cardinality(deliveries) -> deliveries] :
     /\ ToSet(q) = deliveries
     /\ \A i, j \in DOMAIN q : i < j => q[i].id < q[j].id}

SimulateCrash(s) ==
  LET dead == {d \in inFlight[s] : Exhausted(d)}
      back == {Redelivery(d) : d \in inFlight[s] \ dead}
  IN /\ inFlight[s] # {}
     /\ \E q \in InIdOrder(back) : pending' = [pending EXCEPT ![s] = @ \o q]
     /\ deadLetters' = [deadLetters EXCEPT ![s] = @ \cup dead]
     /\ inFlight' = [inFlight EXCEPT ![s] = {}]
     /\ UNCHANGED nextId

(* Messages a subject still holds for somebody.                            *)
Outstanding(s) == {d.id : d \in ToSet(pending[s]) \cup inFlight[s]}
GivenUp(s) == {d.id : d \in deadLetters[s]}
=============================================================================
