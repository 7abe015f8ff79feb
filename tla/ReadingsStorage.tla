-------------------------- MODULE ReadingsStorage --------------------------
(***************************************************************************)
(* ReadingsStorage (src/src/host/ReadingsStorage.cpp): a map from sensor   *)
(* identifiers to ring buffers, each made by the first call that names it, *)
(* and the three calls of its interface.                                   *)
(***************************************************************************)
EXTENDS RingBuffer

CONSTANTS IDs,       \* identifiers callers may name, paired or not
          Void       \* no answer

VARIABLES m_readingBuffers,   \* the map: only identifiers already named
          json                \* the answer of the last call

vars == <<m_readingBuffers, json>>

Answers == [identifier : IDs, values : Seq(Reading)] \cup {Void}

Init == /\ m_readingBuffers = [id \in {} |-> NewBuffer]
        /\ json = Void

\* m_readingBuffers[id]: operator[] of std::map makes a missing entry.
Entry(id) == IF id \in DOMAIN m_readingBuffers THEN m_readingBuffers[id]
                                               ELSE NewBuffer

\* The map once buffer is the entry of id.
WithEntry(id, buffer) ==
  [i \in DOMAIN m_readingBuffers \cup {id} |->
     IF i = id THEN buffer ELSE m_readingBuffers[i]]

addReading(id, reading) ==
  /\ m_readingBuffers' = WithEntry(id, put(Entry(id), reading))
  /\ json' = Void

getReadingsAsJsonStr(id) ==
  /\ m_readingBuffers' = WithEntry(id, Entry(id))
  /\ json' = [identifier |-> id, values |-> Iterate(Entry(id))]

\* Mutation: no check for an empty buffer.
lastWithoutCheck(id) ==
  /\ m_readingBuffers' = WithEntry(id, Entry(id))
  /\ json' = [identifier |-> id, values |-> <<getLast(Entry(id))>>]

getLastReadingAsJsonStr(id) ==
  LET buffer == Entry(id)
  IN  /\ m_readingBuffers' = WithEntry(id, buffer)
      /\ json' = [identifier |-> id,
                  values     |-> IF begin(buffer) # end(buffer)
                                 THEN <<getLast(buffer)>> ELSE <<>>]

Next == \E id \in IDs :
           \/ \E reading \in Reading : addReading(id, reading)
           \/ getReadingsAsJsonStr(id)
           \/ getLastReadingAsJsonStr(id)

Spec == Init /\ [][Next]_vars

----------------------------------------------------------------------------
\* The map holds well-formed ring buffers under known identifiers, and an
\* answer lists readings: no call hands out the blank of a slot that was never
\* written (getLast() of an empty buffer reads one, ReadingsStorage.cpp:37).
TypeOK ==
  /\ DOMAIN m_readingBuffers \subseteq IDs
  /\ \A id \in DOMAIN m_readingBuffers : m_readingBuffers[id] \in Buffer
  /\ json \in Answers

\* The slots between begin() and end() are exactly those that were written, so
\* a loop over the buffer never meets a blank, also after the indices wrapped.
WrittenSlots ==
  \A id \in DOMAIN m_readingBuffers :
     LET values == Iterate(m_readingBuffers[id])
     IN  \A k \in DOMAIN values : values[k] \in Reading

\* The ring buffers keep what BoundedReadings promises: of every sensor the
\* last Size readings oldest first, unharmed by reads, by other sensors and by
\* the entries that reads make.
Kept == INSTANCE BoundedReadings WITH
          kept <- [id \in IDs |-> Iterate(Entry(id))]

KeepsBoundedReadings == Kept!Spec
============================================================================
