---------------------------- MODULE ReadingsRace ----------------------------
(***************************************************************************)
(* Calls on one ReadingsStorage that overlap: the Wi-Fi task puts a        *)
(* reading while the web task goes through the same buffer for an answer.  *)
(* There is no lock and nothing atomic, so the stores of put() and the     *)
(* loads of begin() and end() come in any order the compiler likes; a slot *)
(* read while it is written is a mixture.                                  *)
(*                                                                         *)
(* m_readingBuffers holds a buffer as it is before a put and after it, and *)
(* json the last answer that no put of its sensor overlapped.  The two     *)
(* tasks never make entries of the map at once.                            *)
(***************************************************************************)
EXTENDS ReadingsStorage

CONSTANTS NoID,      \* no sensor
          Torn       \* a reading with fields of two

ASSUME RaceAssumption == NoID \notin IDs

VARIABLES
  written,    \* the sensor of the put under way, or NoID
  newest,     \* the reading it puts
  unstored,   \* the fields it has not stored yet
  asked,      \* the sensor of the answer under way, or NoID
  loaded,     \* the fields that begin() and end() have loaded
  values,     \* the slots visited so far
  before,     \* history: what was kept when the answer was begun
  puts        \* history: how many puts overlapped the answer, up to Many

putVars == <<written, newest, unstored>>
askVars == <<asked, loaded, values, before, puts>>

raceVars == <<vars, putVars, askVars>>

\* Bound of the history: two puts are many.
Many == 2

Nothing == [field \in {} |-> 0]

RaceInit ==
  /\ Init
  /\ written = NoID /\ newest = Blank /\ unstored = {}
  /\ asked = NoID /\ loaded = Nothing
  /\ values = <<>> /\ before = <<>> /\ puts = 0

\* The memory of a buffer while some fields of a put are stored and some not.
Memory(id) ==
  LET b == Entry(id)
  IN  IF id = written
      THEN [field \in DOMAIN b |->
              IF field \in unstored THEN b[field] ELSE put(b, newest)[field]]
      ELSE b

----------------------------------------------------------------------------
\* The Wi-Fi task: addReading(), and getLastReadingAsJsonStr() for the event.

BeginPut(id, reading) ==
  /\ written = NoID
  /\ written' = id /\ newest' = reading
  /\ unstored' = {"m_head", "m_buffer", "m_tailId"}
  /\ m_readingBuffers' = WithEntry(id, Entry(id))
  /\ puts' = IF id = asked /\ puts < Many THEN puts + 1 ELSE puts
  /\ before' = IF puts' = Many THEN <<>> ELSE before
  /\ UNCHANGED <<json, asked, loaded, values>>

Store(field) ==
  /\ field \in unstored /\ unstored # {field}
  /\ unstored' = unstored \ {field}
  /\ UNCHANGED <<vars, written, newest, askVars>>

EndPut ==
  /\ \E field \in unstored : unstored = {field}
  /\ addReading(written, newest)
  /\ written' = NoID /\ newest' = Blank /\ unstored' = {}
  /\ UNCHANGED askVars

LastReading(id) ==
  /\ written = NoID
  /\ getLastReadingAsJsonStr(id)
  /\ UNCHANGED <<putVars, askVars>>

----------------------------------------------------------------------------
\* The web task: getReadingsAsJsonStr().

BeginAnswer(id) ==
  /\ asked = NoID
  /\ asked' = id
  /\ loaded' = Nothing /\ values' = <<>>
  /\ m_readingBuffers' = WithEntry(id, Entry(id))
  /\ before' = Iterate(Entry(id))
  /\ puts' = IF id = written THEN 1 ELSE 0
  /\ UNCHANGED <<json, putVars>>

Load(field) ==
  /\ asked # NoID /\ field \notin DOMAIN loaded
  /\ loaded' = [f \in DOMAIN loaded \cup {field} |->
                  IF f = field THEN Memory(asked)[field] ELSE loaded[f]]
  /\ UNCHANGED <<vars, putVars, asked, values, before, puts>>

Looping == asked # NoID /\ DOMAIN loaded = {"m_tailId", "m_head"}

\* The iterator, and the one it is compared with.
Here == (modInc(loaded.m_tailId) + Len(values)) % bufferLenght
There == modInc(loaded.m_head)

\* What a load of a slot may give.
InSlot(slot) ==
  {Memory(asked).m_buffer[slot]}
    \cup IF /\ asked = written /\ "m_buffer" \in unstored
            /\ slot = modInc(Entry(asked).m_head)
         THEN {Torn} ELSE {}

\* Mutation: end() is evaluated in each turn of the loop.
VisitUpToHead ==
  /\ Looping /\ Here # end(Memory(asked))
  /\ \E value \in InSlot(Here) : values' = Append(values, value)
  /\ UNCHANGED <<vars, putVars, asked, loaded, before, puts>>

Visit ==
  /\ Looping /\ Here # There
  /\ \E value \in InSlot(Here) : values' = Append(values, value)
  /\ UNCHANGED <<vars, putVars, asked, loaded, before, puts>>

Send ==
  /\ Looping /\ Here = There
  /\ json' = IF puts = 0 THEN [identifier |-> asked, values |-> values] ELSE json
  /\ asked' = NoID /\ loaded' = Nothing
  /\ values' = <<>> /\ before' = <<>> /\ puts' = 0
  /\ UNCHANGED <<m_readingBuffers, putVars>>

----------------------------------------------------------------------------
Put == \/ \E id \in IDs, reading \in Reading : BeginPut(id, reading)
       \/ \E field \in unstored : Store(field)
       \/ EndPut
       \/ \E id \in IDs : LastReading(id)

Answer == \/ \E field \in {"m_tailId", "m_head"} : Load(field)
          \/ Visit \/ Send

RaceNext == Put \/ Answer \/ \E id \in IDs : BeginAnswer(id)

\* The web task goes on with its answer, whatever the Wi-Fi task does.
RaceSpec == RaceInit /\ [][RaceNext]_raceVars /\ WF_raceVars(Answer)

----------------------------------------------------------------------------
Done == Looping /\ Here = There

\* What is between the tasks is well formed; no answer has more than Size
\* readings, however many were put meanwhile.
RaceTypeOK ==
  /\ written \in IDs \cup {NoID} /\ asked \in IDs \cup {NoID}
  /\ newest \in Reading \cup {Blank}
  /\ unstored \subseteq {"m_head", "m_buffer", "m_tailId"}
  /\ written # NoID <=> unstored # {}
  /\ DOMAIN loaded \subseteq {"m_tailId", "m_head"}
  /\ \A field \in DOMAIN loaded : loaded[field] \in Slot
  /\ values \in Seq(Reading \cup {Blank, Torn}) /\ Len(values) <= Size
  /\ before \in Seq(Reading) /\ puts \in 0..Many

\* An answer that a single put of the sensor overlapped lacks the oldest reading
\* of a full buffer at most and has one more at most, which is old, new, torn or
\* blank; or it is empty, although the buffer was full: then begin() was loaded
\* before the put and end() after it (RingBuffer.hpp:75-99).
OnePut ==
  Done /\ puts = 1 =>
    \/ values = <<>> /\ Len(before) = Size
    \/ \E kept \in {before} \cup
                   IF Len(before) = Size THEN {Tail(before)} ELSE {} :
         /\ Len(values) \in Len(kept)..(Len(kept) + 1)
         /\ SubSeq(values, 1, Len(kept)) = kept

\* Puts may come faster than the loop goes on, but end() was taken before it:
\* every answer is sent (ReadingsStorage.cpp:22-25).
EveryAnswerEnds == asked # NoID ~> asked = NoID
============================================================================
