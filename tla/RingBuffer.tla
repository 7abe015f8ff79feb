---------------------------- MODULE RingBuffer ----------------------------
(***************************************************************************)
(* RingBuffer<T, size> of src/src/host/RingBuffer.hpp as operators on a    *)
(* record of its three fields.  One slot is always kept free: it tells a   *)
(* full buffer from an empty one, so the array has size + 1 slots.         *)
(***************************************************************************)
EXTENDS Naturals, Sequences

CONSTANTS Size,      \* template parameter size: the readings kept
          Reading,   \* template parameter T: the values that are put
          Blank      \* the value-initialised T in a slot never written

\* The two static_asserts.  65534 is numeric_limits<uint16_t>::max() - 1: one
\* more and bufferLenght, a uint16_t, would wrap to 0.
ASSUME SizeAssumption == Size \in 1..65534

\* sic, the source's spelling
bufferLenght == Size + 1

Slot == 0..Size

Buffer == [m_buffer : [Slot -> Reading \cup {Blank}],
           m_head   : Slot,
           m_tailId : Slot]

NewBuffer == [m_buffer |-> [s \in Slot |-> Blank],
              m_head   |-> 0,
              m_tailId |-> 0]

modInc(value) == (value + 1) % bufferLenght

\* Mutation: the tail is not pushed on when the buffer is full.
putKeepingTail(b, reading) ==
  LET head == modInc(b.m_head)
  IN  [b EXCEPT !.m_buffer[head] = reading, !.m_head = head]

\* Mutation: the reading is stored before the head moves.
putBeforeMoving(b, reading) ==
  LET head == modInc(b.m_head)
  IN  [m_buffer |-> [b.m_buffer EXCEPT ![b.m_head] = reading],
       m_head   |-> head,
       m_tailId |-> IF head = b.m_tailId THEN modInc(b.m_tailId)
                                         ELSE b.m_tailId]

put(b, reading) ==
  LET head == modInc(b.m_head)
  IN  [m_buffer |-> [b.m_buffer EXCEPT ![head] = reading],
       m_head   |-> head,
       m_tailId |-> IF head = b.m_tailId THEN modInc(b.m_tailId)
                                         ELSE b.m_tailId]

getLast(b) == b.m_buffer[b.m_head]

begin(b) == modInc(b.m_tailId)

end(b) == modInc(b.m_head)

\* How often ++ turns an iterator at slot from into one at slot to.
Distance(from, to) == (to + bufferLenght - from) % bufferLenght

\* What "for (reading : buffer)" visits, in order: ++ from begin() to end().
Iterate(b) ==
  [k \in 1..Distance(begin(b), end(b)) |->
     b.m_buffer[(begin(b) + k - 1) % bufferLenght]]
============================================================================
