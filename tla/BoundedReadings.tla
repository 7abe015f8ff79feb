-------------------------- MODULE BoundedReadings --------------------------
(***************************************************************************)
(* What the readings store promises its callers: of every sensor the last  *)
(* Size readings, in the order they came, whatever is asked in between.    *)
(* ReadingsStorage implements it with ring buffers made on demand.         *)
(***************************************************************************)
EXTENDS Naturals, Sequences

CONSTANTS IDs,       \* sensor identifiers
          Reading,   \* readings
          Size,      \* readings kept per sensor
          Void       \* what a call that answers nothing returns

VARIABLES kept,      \* the readings kept of each sensor, oldest first
          json       \* the answer of the last call

vars == <<kept, json>>

\* The last n elements of s, or all of s when it is shorter.
Newest(s, n) == IF Len(s) <= n THEN s
                ELSE SubSeq(s, Len(s) - n + 1, Len(s))

Answer(id, values) == [identifier |-> id, values |-> values]

Init == /\ kept = [id \in IDs |-> <<>>]
        /\ json = Void

Add(id, reading) ==
  /\ kept' = [kept EXCEPT ![id] = Newest(Append(@, reading), Size)]
  /\ json' = Void

AskAll(id) ==
  /\ json' = Answer(id, kept[id])
  /\ UNCHANGED kept

AskLast(id) ==
  /\ json' = Answer(id, Newest(kept[id], 1))
  /\ UNCHANGED kept

Next == \E id \in IDs :
           \/ \E reading \in Reading : Add(id, reading)
           \/ AskAll(id)
           \/ AskLast(id)

Spec == Init /\ [][Next]_vars
============================================================================
