----------------------- MODULE ReadingsStorageProofs -----------------------
(***************************************************************************)
(* For every buffer size up to 65534 and any sets of identifiers and       *)
(* readings, the ring buffers of ReadingsStorage implement                 *)
(* BoundedReadings.  The lemmas reduce the indices modulo Size + 1 to a    *)
(* position in the array, and put to an append that drops the oldest.      *)
(*                                                                         *)
(* The second half is about ReadingsRace: the answers that no put overlaps *)
(* are still those of BoundedReadings, and an answer that one put overlaps *)
(* is as OnePut says, whichever fields were loaded before it and after.    *)
(***************************************************************************)
EXTENDS ReadingsRace, TLAPS

\* The slot that x stands for, x at most one turn past the last slot.
Turn(x) == IF x <= Size THEN x ELSE x - bufferLenght

\* How many slots lie after slot t up to slot h.
Gap(t, h) == IF h >= t THEN h - t ELSE h + bufferLenght - t

Count(b) == Gap(b.m_tailId, b.m_head)

----------------------------------------------------------------------------
LEMMA SizeIsPositive == Size \in Nat /\ Size >= 1
  BY SizeAssumption, SMTT(60)

\* The modulus of a number below twice the divisor.
LEMMA ModTwice ==
  ASSUME NEW L \in Nat \ {0}, NEW x \in 0..(2 * L - 1)
  PROVE  x % L = IF x < L THEN x ELSE x - L
  OBVIOUS

\* One conditional subtraction is the modulus within two turns.
LEMMA Wrap ==
  ASSUME NEW x \in 0..(2 * bufferLenght - 1)
  PROVE  x % bufferLenght = Turn(x)
<1>1. /\ Size \in Nat
      /\ bufferLenght \in Nat \ {0}
      /\ bufferLenght = Size + 1
  BY SizeIsPositive DEF bufferLenght
<1>2. x % bufferLenght = IF x < bufferLenght THEN x ELSE x - bufferLenght
  BY <1>1, ModTwice
<1> QED
  BY <1>1, <1>2 DEF Turn

\* Slots after the tail: how many, which, and which one a put takes.
LEMMA Turns ==
  ASSUME NEW t \in 0..Size, NEW h \in 0..Size
  PROVE  /\ Turn(t + 1) = IF t = Size THEN 0 ELSE t + 1
         /\ Turn(h + 1) = IF h = Size THEN 0 ELSE h + 1
         /\ Gap(t, h) \in 0..Size
         /\ Gap(Turn(t + 1), Turn(h + 1)) = Gap(t, h)
         /\ \A k \in 1..Size : Turn(t + k) \in 0..Size
         /\ Turn(t + Gap(t, h) + 1) = Turn(h + 1)
<1>1. Size \in Nat /\ Size >= 1
  BY SizeIsPositive
<1>2. /\ Turn(t + 1) = IF t = Size THEN 0 ELSE t + 1
      /\ Turn(h + 1) = IF h = Size THEN 0 ELSE h + 1
      /\ Gap(t, h) \in 0..Size
      /\ \A k \in 1..Size : Turn(t + k) \in 0..Size
  BY <1>1 DEF Turn, Gap, bufferLenght
<1>3. Gap(Turn(t + 1), Turn(h + 1)) = Gap(t, h)
  <2>1. CASE t = Size
    BY <1>1, <1>2, <2>1 DEF Gap, bufferLenght
  <2>2. CASE t # Size /\ h = Size
    BY <1>1, <1>2, <2>2 DEF Gap, bufferLenght
  <2>3. CASE t # Size /\ h # Size
    BY <1>1, <1>2, <2>3 DEF Gap, bufferLenght
  <2> QED
    BY <2>1, <2>2, <2>3
<1>4. Turn(t + Gap(t, h) + 1) = Turn(h + 1)
  <2>1. CASE h >= t
    BY <1>1, <2>1 DEF Turn, Gap, bufferLenght
  <2>2. CASE h < t
    BY <1>1, <2>2 DEF Turn, Gap, bufferLenght
  <2> QED
    BY <1>1, <2>1, <2>2
<1> QED
  BY <1>2, <1>3, <1>4

\* A put into a buffer that is not full takes a slot of none of its readings.
LEMMA TurnsNotFull ==
  ASSUME NEW t \in 0..Size, NEW h \in 0..Size, Gap(t, h) < Size
  PROVE  /\ Turn(h + 1) # t
         /\ Gap(t, Turn(h + 1)) = Gap(t, h) + 1
         /\ \A k \in 1..Gap(t, h) : Turn(t + k) # Turn(h + 1)
<1>1. Size \in Nat /\ Size >= 1
  BY SizeIsPositive
<1>2. Turn(h + 1) = IF h = Size THEN 0 ELSE h + 1
  BY Turns
<1>3. Turn(h + 1) # t
  BY <1>1, <1>2 DEF Gap, bufferLenght
<1>4. Gap(t, Turn(h + 1)) = Gap(t, h) + 1
  BY <1>1, <1>2, <1>3 DEF Gap, bufferLenght
<1>5. ASSUME NEW k \in 1..Gap(t, h)
      PROVE  Turn(t + k) # Turn(h + 1)
  <2>1. CASE h >= t
    BY <1>1, <1>2, <2>1 DEF Turn, Gap, bufferLenght
  <2>2. CASE h < t
    BY <1>1, <1>2, <2>2 DEF Turn, Gap, bufferLenght
  <2> QED
    BY <1>1, <2>1, <2>2
<1> QED
  BY <1>3, <1>4, <1>5

\* A put into a full buffer takes the free slot and frees the oldest's.
LEMMA TurnsFull ==
  ASSUME NEW t \in 0..Size, NEW h \in 0..Size, Gap(t, h) = Size
  PROVE  /\ Turn(h + 1) = t
         /\ Turn(t + 1) # t
         /\ Gap(Turn(t + 1), t) = Size
         /\ Turn(Turn(t + 1) + Size) = t
         /\ \A k \in 1..(Size - 1) :
               /\ Turn(Turn(t + 1) + k) = Turn(t + (k + 1))
               /\ Turn(t + (k + 1)) # t
<1>1. Size \in Nat /\ Size >= 1
  BY SizeIsPositive
<1>2. /\ Turn(h + 1) = IF h = Size THEN 0 ELSE h + 1
      /\ Turn(t + 1) = IF t = Size THEN 0 ELSE t + 1
  BY Turns
<1>3. Turn(h + 1) = t
  BY <1>1, <1>2 DEF Gap, bufferLenght
<1>4. Turn(t + 1) # t /\ Gap(Turn(t + 1), t) = Size
  BY <1>1, <1>2 DEF Gap, bufferLenght
<1>5. Turn(Turn(t + 1) + Size) = t
  BY <1>1, <1>2 DEF Turn, bufferLenght
<1>6. ASSUME NEW k \in 1..(Size - 1)
      PROVE  /\ Turn(Turn(t + 1) + k) = Turn(t + (k + 1))
             /\ Turn(t + (k + 1)) # t
  <2>1. CASE t = Size
    BY <1>1, <1>2, <2>1 DEF Turn, bufferLenght
  <2>2. CASE t # Size
    BY <1>1, <1>2, <2>2 DEF Turn, bufferLenght
  <2> QED
    BY <2>1, <2>2
<1> QED
  BY <1>3, <1>4, <1>5, <1>6

----------------------------------------------------------------------------
\* The loop over a buffer visits the Count(b) slots that follow the tail.
LEMMA IterateForm ==
  ASSUME NEW b \in Buffer
  PROVE  /\ Count(b) \in 0..Size
         /\ Distance(begin(b), end(b)) = Count(b)
         /\ Iterate(b) = [k \in 1..Count(b) |-> b.m_buffer[Turn(b.m_tailId + k)]]
<1>0. /\ b.m_head \in 0..Size
      /\ b.m_tailId \in 0..Size
      /\ Size \in Nat
  BY SizeIsPositive DEF Buffer, Slot
<1> DEFINE h == b.m_head
           t == b.m_tailId
<1>1. /\ h \in 0..Size
      /\ t \in 0..Size
  BY <1>0
<1>2. /\ begin(b) = Turn(t + 1)
      /\ end(b) = Turn(h + 1)
  <2>1. /\ t + 1 \in 0..(2 * bufferLenght - 1)
        /\ h + 1 \in 0..(2 * bufferLenght - 1)
    BY <1>0 DEF bufferLenght
  <2> QED
    BY <2>1, Wrap DEF begin, end, modInc
<1>3. Count(b) = Gap(t, h)
  BY DEF Count
<1> HIDE DEF h, t
<1>4. /\ begin(b) \in 0..Size
      /\ end(b) \in 0..Size
      /\ Count(b) \in 0..Size
      /\ Gap(begin(b), end(b)) = Count(b)
  <2>1. /\ Turn(t + 1) = IF t = Size THEN 0 ELSE t + 1
        /\ Turn(h + 1) = IF h = Size THEN 0 ELSE h + 1
        /\ Gap(t, h) \in 0..Size
        /\ Gap(Turn(t + 1), Turn(h + 1)) = Gap(t, h)
    BY <1>1, Turns
  <2>2. begin(b) \in 0..Size /\ end(b) \in 0..Size
    BY <1>0, <1>1, <1>2, <2>1
  <2> QED
    BY <1>2, <1>3, <2>1, <2>2
<1>5. Distance(begin(b), end(b)) = Count(b)
  <2>1. end(b) + bufferLenght - begin(b) \in 0..(2 * bufferLenght - 1)
    BY <1>0, <1>4 DEF bufferLenght
  <2>2. Distance(begin(b), end(b)) = Turn(end(b) + bufferLenght - begin(b))
    BY <2>1, Wrap DEF Distance
  <2> QED
    BY <1>0, <1>4, <2>2 DEF Turn, Gap, bufferLenght
<1>6. ASSUME NEW k \in 1..Count(b)
      PROVE  (begin(b) + k - 1) % bufferLenght = Turn(t + k)
  <2>1. begin(b) + k - 1 \in 0..(2 * bufferLenght - 1)
    BY <1>0, <1>4 DEF bufferLenght
  <2>2. (begin(b) + k - 1) % bufferLenght = Turn(begin(b) + k - 1)
    BY <2>1, Wrap
  <2>3. begin(b) = IF t = Size THEN 0 ELSE t + 1
    BY <1>1, <1>2, Turns
  <2> QED
    BY <1>0, <1>1, <1>4, <2>2, <2>3 DEF Turn, bufferLenght
<1>7. Iterate(b) = [k \in 1..Count(b) |-> b.m_buffer[Turn(t + k)]]
  BY <1>5, <1>6 DEF Iterate
<1> QED
  BY <1>4, <1>5, <1>7 DEF t

\* The readings of a buffer, as a sequence.
LEMMA IterateSeq ==
  ASSUME NEW b \in Buffer
  PROVE  /\ Iterate(b) \in Seq(Reading \cup {Blank})
         /\ Len(Iterate(b)) = Count(b)
         /\ \A k \in 1..Count(b) : Iterate(b)[k] = b.m_buffer[Turn(b.m_tailId + k)]
<1>1. /\ b.m_head \in 0..Size
      /\ b.m_tailId \in 0..Size
      /\ b.m_buffer \in [0..Size -> Reading \cup {Blank}]
  BY DEF Buffer, Slot
<1>2. /\ Count(b) \in 0..Size
      /\ Iterate(b) = [k \in 1..Count(b) |-> b.m_buffer[Turn(b.m_tailId + k)]]
  BY IterateForm
<1>3. Size \in Nat
  BY SizeIsPositive
<1>4. \A k \in 1..Size : Turn(b.m_tailId + k) \in 0..Size
  BY <1>1, Turns
<1>5. \A k \in 1..Count(b) : k \in 1..Size
  BY <1>2, <1>3
<1>6. Iterate(b) \in [1..Count(b) -> Reading \cup {Blank}]
  BY <1>1, <1>2, <1>4, <1>5
<1> QED
  BY <1>2, <1>3, <1>6

\* put appends a reading and, when Size are there already, drops the oldest.
LEMMA PutForm ==
  ASSUME NEW b \in Buffer, NEW r \in Reading
  PROVE  /\ put(b, r) \in Buffer
         /\ Iterate(put(b, r)) = Kept!Newest(Append(Iterate(b), r), Size)
<1> DEFINE h == b.m_head
           t == b.m_tailId
           n == Count(b)
           p == put(b, r)
           it == Iterate(b)
           s == Append(it, r)
<1>0. /\ h \in 0..Size
      /\ t \in 0..Size
      /\ b.m_buffer \in [0..Size -> Reading \cup {Blank}]
  BY DEF Buffer, Slot
<1>1. Size \in Nat /\ Size >= 1
  BY SizeIsPositive
<1>2. n = Gap(t, h)
  BY DEF Count
<1>3. /\ modInc(h) = Turn(h + 1)
      /\ modInc(t) = Turn(t + 1)
  <2>1. /\ h + 1 \in 0..(2 * bufferLenght - 1)
        /\ t + 1 \in 0..(2 * bufferLenght - 1)
    BY <1>0, <1>1 DEF bufferLenght
  <2> QED
    BY <2>1, Wrap DEF modInc
<1>4. /\ p.m_head = Turn(h + 1)
      /\ p.m_buffer = [b.m_buffer EXCEPT ![Turn(h + 1)] = r]
      /\ p.m_tailId = IF Turn(h + 1) = t THEN Turn(t + 1) ELSE t
      /\ p = [m_buffer |-> p.m_buffer, m_head |-> p.m_head, m_tailId |-> p.m_tailId]
  BY <1>3 DEF put
<1>5. /\ it \in Seq(Reading \cup {Blank})
      /\ Len(it) = n
      /\ n \in 0..Size
      /\ \A k \in 1..n : it[k] = b.m_buffer[Turn(t + k)]
  BY IterateSeq, IterateForm
<1> HIDE DEF h, t, n, it, p
<1>6. /\ Turn(h + 1) \in 0..Size
      /\ Turn(t + 1) \in 0..Size
      /\ \A k \in 1..Size : Turn(t + k) \in 0..Size
  <2>1. /\ Turn(t + 1) = IF t = Size THEN 0 ELSE t + 1
        /\ Turn(h + 1) = IF h = Size THEN 0 ELSE h + 1
        /\ \A k \in 1..Size : Turn(t + k) \in 0..Size
    BY <1>0, Turns
  <2> QED
    BY <1>0, <1>1, <2>1
<1>7. p \in Buffer
  <2>1. p.m_head \in 0..Size /\ p.m_tailId \in 0..Size
    BY <1>0, <1>4, <1>6
  <2>2. p.m_buffer \in [0..Size -> Reading \cup {Blank}]
    BY <1>0, <1>4, <1>6
  <2> QED
    BY <1>4, <2>1, <2>2 DEF Buffer, Slot
<1>8. /\ Count(p) = Gap(p.m_tailId, p.m_head)
      /\ Iterate(p) = [k \in 1..Count(p) |-> p.m_buffer[Turn(p.m_tailId + k)]]
  BY <1>7, IterateForm DEF Count
<1>9. /\ s \in Seq(Reading \cup {Blank})
      /\ Len(s) = n + 1
      /\ \A k \in 1..n : s[k] = b.m_buffer[Turn(t + k)]
      /\ s[n + 1] = r
  BY <1>5
<1> HIDE DEF s
<1>10. CASE n < Size
  <2>1. /\ Turn(h + 1) # t
        /\ Gap(t, Turn(h + 1)) = n + 1
        /\ \A k \in 1..n : Turn(t + k) # Turn(h + 1)
        /\ Turn(t + n + 1) = Turn(h + 1)
    BY <1>0, <1>2, <1>10, Turns, TurnsNotFull
  <2>2. p.m_tailId = t /\ Count(p) = n + 1
    BY <1>4, <1>8, <2>1
  <2>3. ASSUME NEW k \in 1..(n + 1)
        PROVE  p.m_buffer[Turn(t + k)] = s[k]
    <3>1. CASE k = n + 1
      <4>1. Turn(t + k) = Turn(h + 1)
        BY <1>0, <1>5, <2>1, <3>1
      <4> QED
        BY <1>0, <1>4, <1>6, <1>9, <3>1, <4>1
    <3>2. CASE k \in 1..n
      <4>1. Turn(t + k) \in 0..Size
        BY <1>1, <1>5, <1>6, <3>2
      <4> QED
        BY <1>0, <1>4, <1>9, <2>1, <3>2, <4>1
    <3> QED
      BY <1>5, <3>1, <3>2
  <2>4. Iterate(p) = [k \in 1..(n + 1) |-> s[k]]
    BY <1>8, <2>2, <2>3
  <2>5. s = [k \in 1..(n + 1) |-> s[k]]
    BY <1>9
  <2>6. Kept!Newest(s, Size) = s
    BY <1>1, <1>5, <1>9, <1>10 DEF Kept!Newest
  <2> QED
    BY <1>7, <2>4, <2>5, <2>6 DEF p, s, it
<1>11. CASE n = Size
  <2>1. /\ Turn(h + 1) = t
        /\ Gap(Turn(t + 1), t) = Size
        /\ Turn(Turn(t + 1) + Size) = t
        /\ \A k \in 1..(Size - 1) :
              /\ Turn(Turn(t + 1) + k) = Turn(t + (k + 1))
              /\ Turn(t + (k + 1)) # t
    BY <1>0, <1>2, <1>11, TurnsFull
  <2>2. p.m_tailId = Turn(t + 1) /\ Count(p) = Size
    BY <1>4, <1>8, <2>1
  <2>3. ASSUME NEW k \in 1..Size
        PROVE  p.m_buffer[Turn(Turn(t + 1) + k)] = s[k + 1]
    <3>1. CASE k = Size
      BY <1>0, <1>4, <1>9, <1>11, <2>1, <3>1
    <3>2. CASE k \in 1..(Size - 1)
      <4>1. k + 1 \in 1..n
        BY <1>1, <1>11, <3>2
      <4>2. Turn(t + (k + 1)) \in 0..Size
        BY <1>6, <1>11, <4>1
      <4> QED
        BY <1>0, <1>4, <1>9, <2>1, <3>2, <4>1, <4>2
    <3> QED
      BY <1>1, <3>1, <3>2
  <2>4. Iterate(p) = [k \in 1..Size |-> s[k + 1]]
    BY <1>8, <2>2, <2>3
  <2>5. Kept!Newest(s, Size) = SubSeq(s, 2, Size + 1)
    <3>1. Len(s) = Size + 1 /\ ~(Len(s) <= Size) /\ Len(s) - Size + 1 = 2
      BY <1>1, <1>9, <1>11
    <3>2. Kept!Newest(s, Size) = SubSeq(s, Len(s) - Size + 1, Len(s))
      BY <3>1, Zenon DEF Kept!Newest
    <3> QED
      BY <3>1, <3>2
  <2>6. SubSeq(s, 2, Size + 1) = [k \in 1..Size |-> s[k + 1]]
    BY <1>1, <1>9, <1>11
  <2> QED
    BY <1>7, <2>4, <2>5, <2>6 DEF p, s, it
<1> QED
  BY <1>1, <1>5, <1>10, <1>11 DEF p, s, it

----------------------------------------------------------------------------
\* What every entry of the map is: a ring buffer whose loop meets readings.
Good(b) == b \in Buffer /\ Iterate(b) \in Seq(Reading)

\* The inductive invariant: WrittenSlots is what makes the answers readings.
IInv == /\ DOMAIN m_readingBuffers \subseteq IDs
        /\ \A id \in DOMAIN m_readingBuffers : Good(m_readingBuffers[id])
        /\ json \in Answers

\* A buffer made on demand is good and empty.
LEMMA NewGood == Good(NewBuffer) /\ Iterate(NewBuffer) = <<>>
<1>1. NewBuffer \in Buffer
  BY SizeIsPositive DEF NewBuffer, Buffer, Slot
<1>2. Count(NewBuffer) = 0
  BY DEF Count, Gap, NewBuffer
<1>3. Iterate(NewBuffer) = <<>>
  BY <1>1, <1>2, IterateForm
<1> QED
  BY <1>1, <1>3 DEF Good

\* The newest readings are readings.
LEMMA NewestSeq ==
  ASSUME NEW s \in Seq(Reading), NEW n \in Nat
  PROVE  Kept!Newest(s, n) \in Seq(Reading)
<1>1. CASE Len(s) <= n
  BY <1>1 DEF Kept!Newest
<1>2. CASE ~(Len(s) <= n)
  BY <1>2 DEF Kept!Newest
<1> QED
  BY <1>1, <1>2

\* A put keeps a buffer good.
LEMMA PutGood ==
  ASSUME NEW b, Good(b), NEW r \in Reading
  PROVE  Good(put(b, r))
<1>1. /\ put(b, r) \in Buffer
      /\ Iterate(put(b, r)) = Kept!Newest(Append(Iterate(b), r), Size)
      /\ Size \in Nat
  BY PutForm, SizeIsPositive DEF Good
<1> DEFINE s == Append(Iterate(b), r)
<1>2. s \in Seq(Reading)
  BY DEF Good
<1> HIDE DEF s
<1>3. Kept!Newest(s, Size) \in Seq(Reading)
  BY <1>1, <1>2, NewestSeq
<1> QED
  BY <1>1, <1>3 DEF Good, s

\* getLast() behind the check for an empty buffer is the newest reading.
LEMMA LastForm ==
  ASSUME NEW b, Good(b)
  PROVE  (IF begin(b) # end(b) THEN <<getLast(b)>> ELSE <<>>)
           = Kept!Newest(Iterate(b), 1)
<1> DEFINE h == b.m_head
           t == b.m_tailId
           n == Count(b)
           s == Iterate(b)
<1>1. /\ h \in 0..Size
      /\ t \in 0..Size
      /\ b \in Buffer
  BY DEF Good, Buffer, Slot
<1>2. Size \in Nat /\ Size >= 1
  BY SizeIsPositive
<1>3. /\ n \in 0..Size
      /\ n = Gap(t, h)
      /\ s \in Seq(Reading)
      /\ Len(s) = n
      /\ \A k \in 1..n : s[k] = b.m_buffer[Turn(t + k)]
  BY <1>1, IterateForm, IterateSeq DEF Good, Count
<1>4. /\ begin(b) = Turn(t + 1)
      /\ end(b) = Turn(h + 1)
      /\ getLast(b) = b.m_buffer[h]
  <2>1. /\ h + 1 \in 0..(2 * bufferLenght - 1)
        /\ t + 1 \in 0..(2 * bufferLenght - 1)
    BY <1>1, <1>2 DEF bufferLenght
  <2> QED
    BY <2>1, Wrap DEF begin, end, modInc, getLast
<1> HIDE DEF h, t, n, s
<1>5. /\ Turn(t + 1) = IF t = Size THEN 0 ELSE t + 1
      /\ Turn(h + 1) = IF h = Size THEN 0 ELSE h + 1
  BY <1>1, Turns
<1>6. CASE n = 0
  <2>1. h = t
    BY <1>1, <1>2, <1>3, <1>6 DEF Gap, bufferLenght
  <2>2. s = <<>>
    BY <1>3, <1>6
  <2>3. Kept!Newest(s, 1) = <<>>
    BY <2>2 DEF Kept!Newest
  <2> QED
    BY <1>4, <2>1, <2>3 DEF s
<1>7. CASE n # 0
  <2>1. h # t
    BY <1>1, <1>2, <1>3, <1>7 DEF Gap, bufferLenght
  <2>2. begin(b) # end(b)
    BY <1>1, <1>2, <1>4, <1>5, <2>1
  <2>3. Turn(t + n) = h
    BY <1>1, <1>2, <1>3 DEF Turn, Gap, bufferLenght
  <2>4. n \in 1..n
    BY <1>2, <1>3, <1>7
  <2>5. s[n] = getLast(b)
    BY <1>3, <1>4, <2>3, <2>4
  <2>6. Kept!Newest(s, 1) = <<s[n]>>
    <3>1. CASE n = 1
      BY <1>3, <3>1 DEF Kept!Newest
    <3>2. CASE n # 1
      <4> DEFINE u == SubSeq(s, n, n)
                 v == <<s[n]>>
      <4>1. Kept!Newest(s, 1) = u
        <5>1. /\ ~(Len(s) <= 1)
              /\ Len(s) - 1 + 1 = n
          BY <1>2, <1>3, <1>7, <3>2
        <5> HIDE DEF u
        <5>2. Kept!Newest(s, 1) = SubSeq(s, Len(s) - 1 + 1, Len(s))
          BY <5>1 DEF Kept!Newest
        <5> QED
          BY <1>3, <5>1, <5>2 DEF u
      <4>2. /\ u \in Seq(Reading)
            /\ Len(u) = 1
            /\ u[1] = s[n]
        BY <1>2, <1>3, <1>7
      <4> HIDE DEF u
      <4>3. u = [k \in 1..1 |-> s[n]]
        BY <4>2
      <4>4. v = [k \in 1..1 |-> s[n]]
        OBVIOUS
      <4> QED
        BY <4>1, <4>3, <4>4
    <3> QED
      BY <3>1, <3>2
  <2> QED
    BY <2>2, <2>5, <2>6 DEF s
<1> QED
  BY <1>6, <1>7

----------------------------------------------------------------------------
\* The entry a call works on, existing or made by it.
LEMMA EntryGood ==
  ASSUME IInv, NEW id \in IDs
  PROVE  Good(Entry(id))
  BY NewGood DEF IInv, Entry

\* Storing a good buffer changes the entry of one identifier only.
LEMMA WithEntryForm ==
  ASSUME IInv, NEW id \in IDs, NEW b, Good(b),
         m_readingBuffers' = WithEntry(id, b)
  PROVE  /\ DOMAIN m_readingBuffers' \subseteq IDs
         /\ \A i \in DOMAIN m_readingBuffers' : Good(m_readingBuffers'[i])
         /\ Entry(id)' = b
         /\ \A i \in IDs \ {id} : Entry(i)' = Entry(i)
  BY DEF IInv, WithEntry, Entry

LEMMA InitIInv == Init => IInv
  BY DEF Init, IInv, Answers

\* Every call keeps the invariant and is the call of BoundedReadings that it
\* stands for.
LEMMA NextIInv == ASSUME IInv, Next PROVE IInv' /\ Kept!Next
<1> USE DEF Good
<1> SUFFICES ASSUME NEW id \in IDs,
                    \/ \E reading \in Reading : addReading(id, reading)
                    \/ getReadingsAsJsonStr(id)
                    \/ getLastReadingAsJsonStr(id)
             PROVE  IInv' /\ Kept!Next
  BY DEF Next
<1>1. Good(Entry(id))
  BY EntryGood
<1>2. ASSUME NEW reading \in Reading, addReading(id, reading)
      PROVE  IInv' /\ Kept!Add(id, reading)
  <2>1. Good(put(Entry(id), reading))
    BY <1>1, PutGood
  <2>2. /\ m_readingBuffers' = WithEntry(id, put(Entry(id), reading))
        /\ json' = Void
    BY <1>2 DEF addReading
  <2>3. Iterate(put(Entry(id), reading))
          = Kept!Newest(Append(Iterate(Entry(id)), reading), Size)
    BY <1>1, PutForm
  <2>4. /\ DOMAIN m_readingBuffers' \subseteq IDs
        /\ \A i \in DOMAIN m_readingBuffers' : Good(m_readingBuffers'[i])
        /\ Entry(id)' = put(Entry(id), reading)
        /\ \A i \in IDs \ {id} : Entry(i)' = Entry(i)
    BY <2>1, <2>2, WithEntryForm
  <2>5. IInv'
    BY <2>2, <2>4 DEF IInv, Answers
  <2> QED
    BY <2>2, <2>3, <2>4, <2>5 DEF Kept!Add
<1>3. ASSUME m_readingBuffers' = WithEntry(id, Entry(id)),
             NEW answer \in Seq(Reading),
             json' = [identifier |-> id, values |-> answer]
      PROVE  /\ IInv'
             /\ UNCHANGED [i \in IDs |-> Iterate(Entry(i))]
  <2>1. /\ DOMAIN m_readingBuffers' \subseteq IDs
        /\ \A i \in DOMAIN m_readingBuffers' : Good(m_readingBuffers'[i])
        /\ Entry(id)' = Entry(id)
        /\ \A i \in IDs \ {id} : Entry(i)' = Entry(i)
    BY <1>1, <1>3, WithEntryForm
  <2>2. json' \in Answers
    BY <1>3 DEF Answers
  <2> QED
    BY <2>1, <2>2 DEF IInv
<1>4. ASSUME getReadingsAsJsonStr(id)
      PROVE  IInv' /\ Kept!AskAll(id)
  <2>1. Iterate(Entry(id)) \in Seq(Reading)
    BY <1>1
  <2> QED
    BY <1>3, <1>4, <2>1 DEF getReadingsAsJsonStr, Kept!AskAll, Kept!Answer
<1>5. ASSUME getLastReadingAsJsonStr(id)
      PROVE  IInv' /\ Kept!AskLast(id)
  <2> DEFINE last == IF begin(Entry(id)) # end(Entry(id))
                     THEN <<getLast(Entry(id))>> ELSE <<>>
  <2>1. last = Kept!Newest(Iterate(Entry(id)), 1)
    BY <1>1, LastForm
  <2>2. last \in Seq(Reading)
    BY <1>1, <2>1, NewestSeq
  <2>3. /\ m_readingBuffers' = WithEntry(id, Entry(id))
        /\ json' = [identifier |-> id, values |-> last]
    BY <1>5 DEF getLastReadingAsJsonStr
  <2> HIDE DEF last
  <2>4. IInv' /\ UNCHANGED [i \in IDs |-> Iterate(Entry(i))]
    BY <1>3, <2>2, <2>3
  <2> QED
    BY <2>1, <2>3, <2>4 DEF Kept!AskLast, Kept!Answer
<1> QED
  BY <1>2, <1>4, <1>5 DEF Kept!Next

\* No history of calls makes the map ill-formed or an answer anything but a
\* list of readings that were added (ReadingsStorage.cpp:9-53).
THEOREM TypeCorrect == Spec => []TypeOK
<1>1. IInv /\ [Next]_vars => IInv'
  BY NextIInv DEF IInv, Good, vars
<1>2. IInv => TypeOK
  BY DEF IInv, Good, TypeOK
<1> QED
  BY InitIInv, <1>1, <1>2, PTL DEF Spec

\* The loop over a buffer meets only slots that were written, however often
\* the indices wrapped (RingBuffer.hpp:75-99).
THEOREM WrittenSlotsOnly == Spec => []WrittenSlots
<1>1. IInv /\ [Next]_vars => IInv'
  BY NextIInv DEF IInv, Good, vars
<1>2. IInv => WrittenSlots
  BY DEF IInv, Good, WrittenSlots
<1> QED
  BY InitIInv, <1>1, <1>2, PTL DEF Spec

\* The map of ring buffers implements the last-Size-readings abstraction, for
\* every Size the static_asserts of RingBuffer.hpp:16-17 admit.
THEOREM Refinement == Spec => KeepsBoundedReadings
<1>1. Init => Kept!Init
  BY NewGood DEF Init, Kept!Init, Entry
<1>2. IInv /\ [Next]_vars => IInv' /\ [Kept!Next]_Kept!vars
  <2>1. ASSUME IInv, UNCHANGED vars
        PROVE  IInv' /\ UNCHANGED Kept!vars
    BY <2>1 DEF IInv, Good, vars, Kept!vars, Entry
  <2> QED
    BY NextIInv, <2>1
<1> QED
  BY InitIInv, <1>1, <1>2, PTL DEF Spec, Kept!Spec, KeepsBoundedReadings

----------------------------------------------------------------------------
\* Calls that overlap (ReadingsRace).

\* The buffer of each sensor, made or not.
Buffers == [id \in IDs |-> Entry(id)]

\* The put under way.
Writing ==
  /\ written \in IDs \cup {NoID}
  /\ unstored \subseteq {"m_head", "m_buffer", "m_tailId"}
  /\ newest \in Reading \cup {Blank}
  /\ written # NoID <=> unstored # {}
  /\ written # NoID => newest \in Reading

\* The answer under way: the loop stops after as many slots as lie between the
\* tail and the head it has loaded, wherever the buffer's own have gone.
Answering ==
  /\ asked \in IDs \cup {NoID}
  /\ DOMAIN loaded \subseteq {"m_tailId", "m_head"}
  /\ \A field \in DOMAIN loaded : loaded[field] \in Slot
  /\ values \in Seq(Reading \cup {Blank, Torn})
  /\ before \in Seq(Reading) /\ puts \in 0..Many
  /\ asked = NoID => DOMAIN loaded = {}
  /\ values # <<>> => /\ DOMAIN loaded = {"m_tailId", "m_head"}
                      /\ Len(values) <= Gap(loaded["m_tailId"], loaded["m_head"])

\* An answer that no put has overlapped yet goes through the buffer as it is.
Undisturbed ==
  asked # NoID /\ puts = 0 =>
    /\ written # asked
    /\ before = Iterate(Buffers[asked])
    /\ \A field \in DOMAIN loaded : loaded[field] = Buffers[asked][field]
    /\ \A k \in DOMAIN values :
          values[k] = Buffers[asked].m_buffer[Turn(loaded["m_tailId"] + k)]

\* The loop from tail t has found in s the slots of b, except in the slot that
\* a put takes.
AsBefore(b, t, s) ==
  \A k \in DOMAIN s : \/ Turn(t + k) = modInc(b.m_head)
                     \/ s[k] = b.m_buffer[Turn(t + k)]

\* The answer, begun on buffer b, and the put of reading: each field loaded is
\* the one before the put or the one after it, and each slot is as it was,
\* except the one that the put takes.
Overlapped(b, reading) ==
  /\ before = Iterate(b)
  /\ \/ written = asked /\ newest = reading /\ Buffers[asked] = b
     \/ written # asked /\ Buffers[asked] = put(b, reading)
  /\ \A field \in DOMAIN loaded : loaded[field] \in {b[field], put(b, reading)[field]}
  /\ AsBefore(b, loaded["m_tailId"], values)

Once == asked # NoID /\ puts = 1 =>
           \E b \in Buffer, reading \in Reading : Good(b) /\ Overlapped(b, reading)

\* The inductive invariant of the race.
RaceIInv == IInv /\ Writing /\ Answering /\ Undisturbed /\ Once

----------------------------------------------------------------------------
LEMMA NextSlot ==
  ASSUME NEW x \in Slot
  PROVE  modInc(x) = Turn(x + 1) /\ modInc(x) \in Slot
<1>1. Size \in Nat /\ Size >= 1
  BY SizeIsPositive
<1>2. x + 1 \in 0..(2 * bufferLenght - 1)
  BY <1>1 DEF bufferLenght, Slot
<1>3. Turn(x + 1) = IF x = Size THEN 0 ELSE x + 1
  BY Turns DEF Slot
<1> QED
  BY <1>1, <1>2, <1>3, Wrap DEF modInc, Slot

\* The loop meets no slot twice: before the last it is not at its end.
LEMMA TurnsShort ==
  ASSUME NEW t \in 0..Size, NEW h \in 0..Size, NEW k \in 1..Gap(t, h)
  PROVE  Turn(t + k) # Turn(h + 1)
<1>1. Size \in Nat /\ Size >= 1 /\ Gap(t, h) \in 0..Size
  BY SizeIsPositive, Turns
<1>2. Turn(h + 1) = IF h = Size THEN 0 ELSE h + 1
  BY Turns
<1>3. CASE h >= t
  BY <1>1, <1>2, <1>3 DEF Turn, Gap, bufferLenght
<1>4. CASE h < t
  BY <1>1, <1>2, <1>4 DEF Turn, Gap, bufferLenght
<1> QED
  BY <1>1, <1>3, <1>4

\* The fields of a buffer after a put.
LEMMA PutFields ==
  ASSUME NEW b \in Buffer, NEW r \in Reading
  PROVE  /\ put(b, r) \in Buffer
         /\ b["m_head"] \in Slot /\ b["m_tailId"] \in Slot
         /\ put(b, r)["m_head"] = Turn(b.m_head + 1)
         /\ put(b, r)["m_tailId"] = IF Turn(b.m_head + 1) = b.m_tailId
                                    THEN Turn(b.m_tailId + 1) ELSE b.m_tailId
         /\ \A slot \in Slot : slot # modInc(b.m_head)
              => put(b, r).m_buffer[slot] = b.m_buffer[slot]
<1>1. put(b, r) \in Buffer
  BY PutForm
<1>2. b.m_head \in Slot /\ b.m_tailId \in Slot
  BY DEF Buffer
<1>3. /\ modInc(b.m_head) = Turn(b.m_head + 1)
      /\ modInc(b.m_tailId) = Turn(b.m_tailId + 1)
  BY <1>2, NextSlot
<1> QED
  BY <1>1, <1>2, <1>3 DEF put, Buffer

LEMMA BuffersForm ==
  ASSUME IInv, NEW id \in IDs
  PROVE  Buffers[id] = Entry(id) /\ Good(Buffers[id])
  BY EntryGood DEF Buffers

\* A call stores one buffer.
LEMMA BuffersStep ==
  ASSUME IInv, NEW id \in IDs, NEW b, Good(b),
         m_readingBuffers' = WithEntry(id, b), json' \in Answers
  PROVE  IInv' /\ Buffers' = [Buffers EXCEPT ![id] = b]
<1>1. /\ DOMAIN m_readingBuffers' \subseteq IDs
      /\ \A i \in DOMAIN m_readingBuffers' : Good(m_readingBuffers'[i])
  BY WithEntryForm
<1>2. IInv'
  BY <1>1 DEF IInv
<1>3. Buffers' = [Buffers EXCEPT ![id] = b]
  BY DEF Buffers, Entry, WithEntry, IInv
<1> QED
  BY <1>2, <1>3

\* A call that only makes its entry changes no buffer.
LEMMA BuffersKept ==
  ASSUME IInv, NEW id \in IDs,
         m_readingBuffers' = WithEntry(id, Entry(id)), json' \in Answers
  PROVE  IInv' /\ Buffers' = Buffers
<1>1. Buffers[id] = Entry(id) /\ Good(Entry(id))
  BY BuffersForm
<1>2. IInv' /\ Buffers' = [Buffers EXCEPT ![id] = Entry(id)]
  BY <1>1, BuffersStep
<1> QED
  BY <1>1, <1>2 DEF Buffers

\* What is kept is what the buffers hold.
LEMMA KeptForm ==
  ASSUME Buffers' = Buffers
  PROVE  UNCHANGED [id \in IDs |-> Iterate(Entry(id))]
  BY DEF Buffers

\* The memory of a buffer that is not written, or is.
LEMMA MemoryForm ==
  ASSUME IInv, Writing, NEW id \in IDs, NEW b, b = Buffers[id]
  PROVE  /\ b \in Buffer
         /\ id # written => Memory(id) = b
         /\ id = written => /\ newest \in Reading
                            /\ \A field \in {"m_tailId", "m_head", "m_buffer"} :
                                 Memory(id)[field] \in {b[field], put(b, newest)[field]}
<1>1. b = Entry(id) /\ b \in Buffer
  BY BuffersForm DEF Good
<1>2. DOMAIN b = {"m_buffer", "m_head", "m_tailId"}
  BY <1>1 DEF Buffer
<1>3. id = written => newest \in Reading
  BY RaceAssumption DEF Writing
<1> QED
  BY <1>1, <1>2, <1>3 DEF Memory

\* What a load of a slot gives: its contents, or any mixture if the put under
\* way takes it.
LEMMA InSlotForm ==
  ASSUME IInv, Writing, asked \in IDs, NEW b, b = Buffers[asked],
         NEW slot \in Slot, NEW value \in InSlot(slot)
  PROVE  /\ value \in Reading \cup {Blank, Torn}
         /\ written # asked => value = b.m_buffer[slot]
         /\ slot # modInc(b.m_head) => value = b.m_buffer[slot]
<1> DEFINE M == Memory(asked)
<1>1. /\ b \in Buffer /\ b = Entry(asked)
      /\ asked # written => M = b
      /\ asked = written => /\ newest \in Reading
                            /\ M["m_buffer"] \in {b["m_buffer"], put(b, newest)["m_buffer"]}
  BY MemoryForm, BuffersForm
<1>2. \/ value = M.m_buffer[slot]
      \/ asked = written /\ slot = modInc(b.m_head) /\ value = Torn
  BY <1>1 DEF InSlot
<1> HIDE DEF M
<1>3. CASE asked # written
  BY <1>1, <1>2, <1>3 DEF Buffer
<1>4. CASE asked = written
  <2>1. /\ put(b, newest) \in Buffer
        /\ slot # modInc(b.m_head) => put(b, newest).m_buffer[slot] = b.m_buffer[slot]
    BY <1>1, <1>4, PutFields
  <2> QED
    BY <1>1, <1>2, <1>4, <2>1 DEF Buffer
<1> QED
  BY <1>3, <1>4

\* Where the loop is, and that it is at its end when it has visited what lies
\* between the tail and the head it loaded.
LEMMA HereForm ==
  ASSUME Answering, Looping
  PROVE  /\ asked \in IDs
         /\ loaded["m_tailId"] \in 0..Size /\ loaded["m_head"] \in 0..Size
         /\ Gap(loaded["m_tailId"], loaded["m_head"]) \in 0..Size
         /\ Len(values) \in Nat
         /\ Len(values) <= Gap(loaded["m_tailId"], loaded["m_head"])
         /\ Here = Turn(loaded["m_tailId"] + (Len(values) + 1)) /\ Here \in Slot
         /\ Here = There <=> Len(values) = Gap(loaded["m_tailId"], loaded["m_head"])
<1> DEFINE t == loaded["m_tailId"]
           h == loaded["m_head"]
           n == Len(values)
<1>1. Size \in Nat /\ Size >= 1
  BY SizeIsPositive
<1>2. t \in 0..Size /\ h \in 0..Size /\ asked \in IDs
  BY DEF Answering, Looping, Slot
<1>3. Gap(t, h) \in 0..Size /\ n \in Nat /\ n <= Gap(t, h)
  <2>1. Gap(t, h) \in 0..Size
    BY <1>2, Turns
  <2>2. n \in Nat /\ (values = <<>> => n = 0)
    BY DEF Answering
  <2> QED
    BY <2>1, <2>2 DEF Answering
<1>4. /\ Here = (modInc(t) + n) % bufferLenght
      /\ There = modInc(h)
  BY DEF Here, There
<1> HIDE DEF t, h, n
<1>5. /\ modInc(t) = Turn(t + 1) /\ modInc(h) = Turn(h + 1)
      /\ Turn(t + 1) = IF t = Size THEN 0 ELSE t + 1
  BY <1>2, NextSlot, Turns DEF Slot
<1>6. Here = Turn(t + (n + 1)) /\ Here \in Slot
  <2>1. modInc(t) + n \in 0..(2 * bufferLenght - 1)
    BY <1>1, <1>2, <1>3, <1>5 DEF bufferLenght
  <2>2. Here = Turn(modInc(t) + n)
    BY <1>4, <2>1, Wrap
  <2> QED
    BY <1>1, <1>2, <1>3, <1>5, <2>2 DEF Turn, bufferLenght, Slot
<1>7. CASE n = Gap(t, h)
  <2>1. Turn(t + Gap(t, h) + 1) = Turn(h + 1)
    BY <1>2, Turns
  <2>2. t + (n + 1) = t + Gap(t, h) + 1
    BY <1>2, <1>3, <1>7
  <2> QED
    BY <1>2, <1>3, <1>4, <1>5, <1>6, <1>7, <2>1, <2>2 DEF t, h, n
<1>8. CASE n # Gap(t, h)
  <2>1. n + 1 \in 1..Gap(t, h)
    BY <1>3, <1>8
  <2>2. Turn(t + (n + 1)) # Turn(h + 1)
    BY <1>2, <2>1, TurnsShort
  <2> QED
    BY <1>2, <1>3, <1>4, <1>5, <1>6, <1>8, <2>2 DEF t, h, n
<1> QED
  BY <1>7, <1>8

\* What the answer has gone through without a put is what is kept.
LEMMA UndisturbedAnswer ==
  ASSUME RaceIInv, Looping, Here = There, puts = 0
  PROVE  values = Iterate(Buffers[asked]) /\ values \in Seq(Reading)
<1> DEFINE b == Buffers[asked]
           n == Count(b)
<1>1. /\ asked \in IDs
      /\ Len(values) = Gap(loaded["m_tailId"], loaded["m_head"])
  BY HereForm DEF RaceIInv
<1>2. Good(b) /\ b \in Buffer
  BY <1>1, BuffersForm DEF RaceIInv, Good
<1>3. /\ loaded["m_tailId"] = b.m_tailId /\ loaded["m_head"] = b.m_head
      /\ \A k \in DOMAIN values : values[k] = b.m_buffer[Turn(b.m_tailId + k)]
  BY <1>1, RaceAssumption DEF RaceIInv, Undisturbed, Looping
<1>4. /\ Iterate(b) \in Seq(Reading) /\ Len(Iterate(b)) = n
      /\ \A k \in 1..n : Iterate(b)[k] = b.m_buffer[Turn(b.m_tailId + k)]
  BY <1>2, IterateSeq DEF Good
<1>5. values \in Seq(Reading \cup {Blank, Torn}) /\ Len(values) = n
  BY <1>1, <1>3 DEF RaceIInv, Answering, Count
<1> HIDE DEF b, n
<1>6. /\ values = [k \in 1..n |-> values[k]]
      /\ Iterate(b) = [k \in 1..n |-> Iterate(b)[k]]
      /\ \A k \in 1..n : values[k] = Iterate(b)[k]
  BY <1>3, <1>4, <1>5
<1>7. values = Iterate(b)
  BY <1>6
<1> QED
  BY <1>4, <1>7 DEF b

----------------------------------------------------------------------------
\* The steps of the race keep its invariant and are calls of BoundedReadings,
\* or change nothing that it shows.
LEMMA BeginPutStep ==
  ASSUME RaceIInv, NEW id \in IDs, NEW reading \in Reading, BeginPut(id, reading)
  PROVE  RaceIInv' /\ UNCHANGED Kept!vars
<1>1. IInv' /\ Buffers' = Buffers /\ json' = json
  BY BuffersKept DEF RaceIInv, IInv, BeginPut
<1>2. /\ written = NoID /\ written' = id /\ newest' = reading
      /\ unstored' = {"m_head", "m_buffer", "m_tailId"}
      /\ asked' = asked /\ loaded' = loaded /\ values' = values
      /\ puts' = IF id = asked /\ puts < Many THEN puts + 1 ELSE puts
      /\ before' = IF puts' = Many THEN <<>> ELSE before
  BY DEF BeginPut
<1>3. Writing'
  BY <1>2, RaceAssumption DEF Writing
<1>4. /\ Answering'
      /\ puts' = 0 => puts = 0 /\ id # asked
      /\ puts' = 1 => \/ puts = 0 /\ id = asked
                      \/ puts = 1 /\ id # asked
      /\ puts' # 2 => before' = before
  BY <1>2 DEF RaceIInv, Answering, Many
<1>5. Undisturbed'
  BY <1>1, <1>2, <1>4 DEF RaceIInv, Undisturbed
<1>6. ASSUME asked # NoID, puts = 0, id = asked, puts' = 1
      PROVE  Once'
  <2>1. PICK b \in Buffer : b = Buffers[id] /\ Good(b)
    BY BuffersForm DEF RaceIInv, Good
  <2>2. /\ before = Iterate(b)
        /\ \A field \in DOMAIN loaded : loaded[field] = b[field]
        /\ \A k \in DOMAIN values : values[k] = b.m_buffer[Turn(loaded["m_tailId"] + k)]
    BY <1>6, <2>1 DEF RaceIInv, Undisturbed
  <2>3. Buffers'[asked'] = b
    BY <1>1, <1>2, <1>6, <2>1
  <2>4. Overlapped(b, reading)'
    BY <1>2, <1>4, <1>6, <2>2, <2>3 DEF Overlapped, AsBefore
  <2> QED
    BY <2>1, <2>4 DEF Once
<1>7. ASSUME asked # NoID, puts = 1, id # asked, puts' = 1
      PROVE  Once'
  <2>1. PICK b \in Buffer, r \in Reading : Good(b) /\ Overlapped(b, r)
    BY <1>7 DEF RaceIInv, Once
  <2>2. Overlapped(b, r)'
    BY <1>1, <1>2, <1>4, <1>7, <2>1 DEF Overlapped, AsBefore
  <2> QED
    BY <2>1, <2>2 DEF Once
<1>8. Once'
  <2>1. CASE asked # NoID /\ puts' = 1
    BY <1>4, <1>6, <1>7, <2>1
  <2>2. CASE ~(asked # NoID /\ puts' = 1)
    BY <1>2, <2>2 DEF Once
  <2> QED
    BY <2>1, <2>2
<1> QED
  BY <1>1, <1>3, <1>4, <1>5, <1>8, KeptForm DEF RaceIInv, Kept!vars

LEMMA StoreStep ==
  ASSUME RaceIInv, NEW field \in unstored, Store(field)
  PROVE  RaceIInv' /\ UNCHANGED Kept!vars
<1>1. /\ m_readingBuffers' = m_readingBuffers /\ json' = json
      /\ written' = written /\ newest' = newest /\ UNCHANGED askVars
      /\ unstored' = unstored \ {field} /\ unstored' # {}
  BY DEF Store, vars
<1>2. IInv' /\ Buffers' = Buffers
  BY <1>1 DEF RaceIInv, IInv, Buffers, Entry, Good
<1>3. Writing' /\ Answering'
  BY <1>1 DEF RaceIInv, Writing, Answering, askVars
<1>4. Undisturbed' /\ Once'
  BY <1>1, <1>2 DEF RaceIInv, Undisturbed, Once, Overlapped, AsBefore, askVars
<1> QED
  BY <1>1, <1>2, <1>3, <1>4, KeptForm DEF RaceIInv, Kept!vars

LEMMA EndPutStep ==
  ASSUME RaceIInv, EndPut
  PROVE  RaceIInv' /\ Kept!Next
<1>1. /\ written \in IDs /\ newest \in Reading
      /\ addReading(written, newest)
      /\ written' = NoID /\ newest' = Blank /\ unstored' = {}
      /\ UNCHANGED askVars
  BY DEF EndPut, RaceIInv, Writing
<1>2. IInv' /\ Kept!Next
  BY <1>1, NextIInv DEF RaceIInv, Next
<1>3. /\ Buffers[written] = Entry(written)
      /\ Good(put(Buffers[written], newest))
  BY <1>1, BuffersForm, PutGood DEF RaceIInv
<1>4. Buffers' = [Buffers EXCEPT ![written] = put(Buffers[written], newest)]
  BY <1>1, <1>3, BuffersStep DEF RaceIInv, addReading, Answers
<1>5. Writing' /\ Answering'
  BY <1>1 DEF RaceIInv, Writing, Answering, askVars
<1>6. asked \in IDs =>
        Buffers'[asked] = IF asked = written THEN put(Buffers[asked], newest)
                                             ELSE Buffers[asked]
  BY <1>1, <1>4 DEF Buffers
<1>7. Undisturbed'
  BY <1>1, <1>6, RaceAssumption DEF RaceIInv, Undisturbed, Answering, askVars
<1>8. ASSUME asked # NoID, puts = 1
      PROVE  Once'
  <2>1. PICK b \in Buffer, r \in Reading : Good(b) /\ Overlapped(b, r)
    BY <1>8 DEF RaceIInv, Once
  <2>2. asked \in IDs
    BY <1>8 DEF RaceIInv, Answering
  <2>3. Overlapped(b, r)'
    BY <1>1, <1>6, <1>8, <2>1, <2>2 DEF Overlapped, AsBefore, askVars
  <2> QED
    BY <2>1, <2>3 DEF Once
<1>9. Once'
  <2>1. CASE ~(asked # NoID /\ puts = 1)
    BY <1>1, <2>1 DEF Once, askVars
  <2> QED
    BY <1>8, <2>1
<1> QED
  BY <1>2, <1>5, <1>7, <1>9 DEF RaceIInv

LEMMA LastReadingStep ==
  ASSUME RaceIInv, NEW id \in IDs, LastReading(id)
  PROVE  RaceIInv' /\ Kept!Next
<1>1. getLastReadingAsJsonStr(id) /\ UNCHANGED <<putVars, askVars>>
  BY DEF LastReading
<1>2. IInv' /\ Kept!Next
  BY <1>1, NextIInv DEF RaceIInv, Next
<1>3. Buffers' = Buffers
  BY <1>1, <1>2, BuffersKept DEF RaceIInv, getLastReadingAsJsonStr, IInv
<1>4. Writing' /\ Answering'
  BY <1>1 DEF RaceIInv, Writing, Answering, putVars, askVars
<1>5. Undisturbed' /\ Once'
  BY <1>1, <1>3 DEF RaceIInv, Undisturbed, Once, Overlapped, AsBefore, putVars, askVars
<1> QED
  BY <1>2, <1>4, <1>5 DEF RaceIInv

LEMMA BeginAnswerStep ==
  ASSUME RaceIInv, NEW id \in IDs, BeginAnswer(id)
  PROVE  RaceIInv' /\ UNCHANGED Kept!vars
<1>1. IInv' /\ Buffers' = Buffers /\ json' = json
  BY BuffersKept DEF RaceIInv, IInv, BeginAnswer
<1>2. PICK b \in Buffer : b = Buffers[id] /\ b = Entry(id) /\ Good(b)
  BY BuffersForm DEF RaceIInv, Good
<1>3. /\ asked' = id /\ DOMAIN loaded' = {} /\ values' = <<>>
      /\ before' = Iterate(b) /\ puts' = IF id = written THEN 1 ELSE 0
      /\ UNCHANGED putVars /\ Buffers'[asked'] = b
  BY <1>1, <1>2 DEF BeginAnswer, Nothing
<1>4. Writing'
  BY <1>3 DEF RaceIInv, Writing, putVars
<1>5. Answering'
  BY <1>2, <1>3, RaceAssumption DEF Answering, Good, Many
<1>6. Undisturbed'
  BY <1>3 DEF Undisturbed, putVars
<1>7. ASSUME id = written
      PROVE  Once'
  <2>1. PICK r \in Reading : r = newest
    BY <1>7, RaceAssumption DEF RaceIInv, Writing
  <2>2. Overlapped(b, r)'
    BY <1>3, <1>7, <2>1 DEF Overlapped, AsBefore, putVars
  <2> QED
    BY <1>2, <2>2 DEF Once
<1>8. Once'
  <2>1. CASE id # written
    BY <1>3, <2>1 DEF Once
  <2> QED
    BY <1>7, <2>1
<1> QED
  BY <1>1, <1>4, <1>5, <1>6, <1>8, KeptForm DEF RaceIInv, Kept!vars

LEMMA LoadStep ==
  ASSUME RaceIInv, NEW field \in {"m_tailId", "m_head"}, Load(field)
  PROVE  RaceIInv' /\ UNCHANGED Kept!vars
<1>1. /\ m_readingBuffers' = m_readingBuffers /\ json' = json
      /\ UNCHANGED putVars
      /\ asked' = asked /\ values' = values /\ before' = before /\ puts' = puts
      /\ asked # NoID /\ field \notin DOMAIN loaded
      /\ DOMAIN loaded' = DOMAIN loaded \cup {field}
      /\ loaded'[field] = Memory(asked)[field]
      /\ \A f \in DOMAIN loaded : loaded'[f] = loaded[f]
  BY DEF Load, vars
<1>2. IInv' /\ Buffers' = Buffers
  BY <1>1 DEF RaceIInv, IInv, Buffers, Entry, Good
<1>3. Writing'
  BY <1>1 DEF RaceIInv, Writing, putVars
<1>4. asked \in IDs /\ values = <<>>
  BY <1>1 DEF RaceIInv, Answering
<1>5. PICK b \in Buffer : b = Buffers[asked]
  BY <1>4, BuffersForm DEF RaceIInv, Good
<1>6. /\ asked # written => loaded'[field] = b[field]
      /\ asked = written => /\ newest \in Reading
                            /\ loaded'[field] \in {b[field], put(b, newest)[field]}
  BY <1>1, <1>4, <1>5, MemoryForm DEF RaceIInv
<1>7. loaded'[field] \in Slot
  <2>1. b[field] \in Slot
    BY DEF Buffer
  <2>2. newest \in Reading => put(b, newest)[field] \in Slot
    <3>1. ASSUME newest \in Reading
          PROVE  put(b, newest) \in Buffer
      BY <3>1, PutForm
    <3> QED
      BY <3>1 DEF Buffer
  <2> QED
    BY <1>6, <2>1, <2>2
<1>8. Answering'
  BY <1>1, <1>4, <1>7 DEF RaceIInv, Answering
<1>9. Undisturbed'
  <2> SUFFICES ASSUME puts = 0
               PROVE  Undisturbed'
    BY <1>1 DEF Undisturbed
  <2>1. /\ written # asked /\ before = Iterate(b)
        /\ \A f \in DOMAIN loaded : loaded[f] = b[f]
    BY <1>1, <1>5 DEF RaceIInv, Undisturbed
  <2>2. \A f \in DOMAIN loaded' : loaded'[f] = b[f]
    BY <1>1, <1>6, <2>1
  <2>3. DOMAIN values = {}
    BY <1>4
  <2> QED
    BY <1>1, <1>2, <1>5, <2>1, <2>2, <2>3 DEF Undisturbed, putVars
<1>10. ASSUME puts = 1
       PROVE  Once'
  <2>1. PICK c \in Buffer, r \in Reading : Good(c) /\ Overlapped(c, r)
    BY <1>1, <1>10 DEF RaceIInv, Once
  <2>2. loaded'[field] \in {c[field], put(c, r)[field]}
    BY <1>5, <1>6, <2>1 DEF Overlapped, AsBefore
  <2>3. Overlapped(c, r)'
    BY <1>1, <1>2, <1>4, <2>1, <2>2 DEF Overlapped, AsBefore, putVars
  <2> QED
    BY <2>1, <2>3 DEF Once
<1>11. Once'
  <2>1. CASE puts # 1
    BY <1>1, <2>1 DEF Once
  <2> QED
    BY <1>10, <2>1
<1> QED
  BY <1>1, <1>2, <1>3, <1>8, <1>9, <1>11, KeptForm DEF RaceIInv, Kept!vars

LEMMA VisitStep ==
  ASSUME RaceIInv, Visit
  PROVE  RaceIInv' /\ UNCHANGED Kept!vars
<1>1. PICK value \in InSlot(Here) : values' = Append(values, value)
  BY DEF Visit
<1>2. /\ m_readingBuffers' = m_readingBuffers /\ json' = json
      /\ UNCHANGED putVars
      /\ asked' = asked /\ loaded' = loaded /\ before' = before /\ puts' = puts
      /\ Looping /\ Here # There
  BY DEF Visit, vars
<1>3. IInv' /\ Buffers' = Buffers
  BY <1>2 DEF RaceIInv, IInv, Buffers, Entry, Good
<1>4. Writing'
  BY <1>2 DEF RaceIInv, Writing, putVars
<1> DEFINE t == loaded["m_tailId"]
           n == Len(values)
<1>5. /\ asked \in IDs /\ asked # NoID
      /\ Here = Turn(t + (n + 1)) /\ Here \in Slot
      /\ Gap(t, loaded["m_head"]) \in Nat /\ n \in Nat
      /\ n + 1 <= Gap(t, loaded["m_head"])
  BY <1>2, HereForm DEF RaceIInv, Looping
<1>6. PICK b \in Buffer : b = Buffers[asked]
  BY <1>5, BuffersForm DEF RaceIInv, Good
<1>7. /\ value \in Reading \cup {Blank, Torn}
      /\ written # asked => value = b.m_buffer[Here]
      /\ Here # modInc(b.m_head) => value = b.m_buffer[Here]
  BY <1>1, <1>5, <1>6, InSlotForm DEF RaceIInv
<1>8. /\ values \in Seq(Reading \cup {Blank, Torn})
      /\ values' \in Seq(Reading \cup {Blank, Torn})
      /\ Len(values') = n + 1
      /\ DOMAIN values' = 1..(n + 1)
      /\ \A k \in 1..n : k \in DOMAIN values /\ values'[k] = values[k]
      /\ values'[n + 1] = value
  BY <1>1, <1>7 DEF RaceIInv, Answering
<1>9. Answering'
  BY <1>2, <1>5, <1>8 DEF RaceIInv, Answering, Looping
<1>10. Undisturbed'
  <2> SUFFICES ASSUME puts = 0
               PROVE  Undisturbed'
    BY <1>2 DEF Undisturbed
  <2>1. /\ written # asked /\ before = Iterate(b)
        /\ \A field \in DOMAIN loaded : loaded[field] = b[field]
        /\ \A k \in DOMAIN values : values[k] = b.m_buffer[Turn(t + k)]
    BY <1>5, <1>6 DEF RaceIInv, Undisturbed
  <2>2. \A k \in 1..(n + 1) : values'[k] = b.m_buffer[Turn(t + k)]
    <3> TAKE k \in 1..(n + 1)
    <3>1. CASE k = n + 1
      BY <1>5, <1>7, <1>8, <2>1, <3>1
    <3>2. CASE k \in 1..n
      BY <1>8, <2>1, <3>2
    <3> QED
      BY <1>5, <3>1, <3>2
  <2> QED
    BY <1>2, <1>3, <1>6, <1>8, <2>1, <2>2 DEF Undisturbed, putVars
<1>11. ASSUME puts = 1
       PROVE  Once'
  <2>1. PICK c \in Buffer, r \in Reading : Good(c) /\ Overlapped(c, r)
    BY <1>5, <1>11 DEF RaceIInv, Once
  <2>2. Here # modInc(c.m_head) => value = c.m_buffer[Here]
    <3>1. CASE written = asked
      BY <1>6, <1>7, <2>1, <3>1 DEF Overlapped, AsBefore
    <3>2. CASE written # asked
      <4>1. b = put(c, r)
        BY <1>6, <2>1, <3>2 DEF Overlapped, AsBefore
      <4> QED
        BY <1>5, <1>7, <3>2, <4>1, PutFields
    <3> QED
      BY <3>1, <3>2
  <2>3. \A k \in 1..(n + 1) : \/ Turn(t + k) = modInc(c.m_head)
                              \/ values'[k] = c.m_buffer[Turn(t + k)]
    <3> TAKE k \in 1..(n + 1)
    <3>1. CASE k = n + 1
      BY <1>5, <1>8, <2>2, <3>1
    <3>2. CASE k \in 1..n
      BY <1>8, <2>1, <3>2 DEF Overlapped, AsBefore
    <3> QED
      BY <1>5, <3>1, <3>2
  <2>4. Overlapped(c, r)'
    BY <1>2, <1>3, <1>8, <2>1, <2>3 DEF Overlapped, AsBefore, putVars
  <2> QED
    BY <2>1, <2>4 DEF Once
<1>12. Once'
  <2>1. CASE puts # 1
    BY <1>2, <2>1 DEF Once
  <2> QED
    BY <1>11, <2>1
<1> QED
  BY <1>2, <1>3, <1>4, <1>9, <1>10, <1>12, KeptForm DEF RaceIInv, Kept!vars

LEMMA SendStep ==
  ASSUME RaceIInv, Send
  PROVE  RaceIInv' /\ (Kept!Next \/ UNCHANGED Kept!vars)
<1>1. /\ m_readingBuffers' = m_readingBuffers
      /\ UNCHANGED putVars
      /\ asked' = NoID /\ DOMAIN loaded' = {}
      /\ values' = <<>> /\ before' = <<>> /\ puts' = 0
      /\ Looping /\ Here = There /\ asked \in IDs
      /\ json' = IF puts = 0 THEN [identifier |-> asked, values |-> values] ELSE json
  BY HereForm DEF Send, Nothing, RaceIInv
<1>2. puts = 0 => /\ values = Iterate(Buffers[asked]) /\ values \in Seq(Reading)
                  /\ Buffers[asked] = Entry(asked)
  BY <1>1, UndisturbedAnswer, BuffersForm DEF RaceIInv
<1>3. json' \in Answers
  BY <1>1, <1>2 DEF RaceIInv, IInv, Answers
<1>4. IInv' /\ Buffers' = Buffers
  BY <1>1, <1>3 DEF RaceIInv, IInv, Buffers, Entry, Good
<1>5. Writing' /\ Answering' /\ Undisturbed' /\ Once'
  BY <1>1 DEF RaceIInv, Writing, Answering, Undisturbed, Once, Many, putVars
<1>6. UNCHANGED [id \in IDs |-> Iterate(Entry(id))]
  BY <1>4, KeptForm
<1>7. CASE puts = 0
  <2>1. json' = [identifier |-> asked, values |-> Iterate(Entry(asked))]
    BY <1>1, <1>2, <1>7
  <2>2. Kept!AskAll(asked)
    BY <1>1, <1>6, <2>1 DEF Kept!AskAll, Kept!Answer
  <2> QED
    BY <1>1, <1>4, <1>5, <2>2 DEF RaceIInv, Kept!Next
<1>8. CASE puts # 0
  BY <1>1, <1>4, <1>5, <1>6, <1>8 DEF RaceIInv, Kept!vars
<1> QED
  BY <1>7, <1>8

LEMMA RaceInitIInv == RaceInit => RaceIInv /\ Kept!Init
<1> SUFFICES ASSUME RaceInit PROVE RaceIInv /\ Kept!Init
  OBVIOUS
<1>1. IInv
  BY InitIInv DEF RaceInit
<1>2. Kept!Init
  BY NewGood DEF RaceInit, Init, Kept!Init, Entry
<1>3. Writing /\ Answering /\ Undisturbed /\ Once
  BY DEF RaceInit, Nothing, Writing, Answering, Undisturbed, Once, Many
<1> QED
  BY <1>1, <1>2, <1>3 DEF RaceIInv

LEMMA RaceNextIInv ==
  ASSUME RaceIInv, [RaceNext]_raceVars
  PROVE  RaceIInv' /\ [Kept!Next]_Kept!vars
<1>1. CASE UNCHANGED raceVars
  <2>1. /\ m_readingBuffers' = m_readingBuffers /\ json' = json
        /\ UNCHANGED <<putVars, askVars>>
    BY <1>1 DEF raceVars, vars
  <2>2. IInv' /\ Buffers' = Buffers
    BY <2>1 DEF RaceIInv, IInv, Buffers, Entry, Good
  <2>3. Writing' /\ Answering' /\ Undisturbed' /\ Once'
    BY <2>1, <2>2 DEF RaceIInv, Writing, Answering, Undisturbed, Once, Overlapped,
         putVars, askVars
  <2> QED
    BY <2>1, <2>2, <2>3, KeptForm DEF RaceIInv, Kept!vars
<1>2. CASE Put
  BY <1>2, BeginPutStep, StoreStep, EndPutStep, LastReadingStep DEF Put
<1>3. CASE Answer
  BY <1>3, LoadStep, VisitStep, SendStep DEF Answer
<1>4. CASE \E id \in IDs : BeginAnswer(id)
  BY <1>4, BeginAnswerStep
<1> QED
  BY <1>1, <1>2, <1>3, <1>4 DEF RaceNext

\* However the loads and the stores of the two tasks interleave, the map is
\* well formed, no answer is longer than Size and each is made of readings,
\* a blank or a mixture.
THEOREM RaceTypeCorrect == RaceSpec => [](TypeOK /\ RaceTypeOK)
<1>1. RaceIInv => TypeOK
  BY DEF RaceIInv, IInv, Good, TypeOK
<1>2. ASSUME RaceIInv
      PROVE  Len(values) <= Size
  <2>1. Size \in Nat /\ Len(values) \in Nat /\ (values = <<>> => Len(values) = 0)
    BY <1>2, SizeIsPositive DEF RaceIInv, Answering
  <2>2. CASE values # <<>>
    <3>1. /\ loaded["m_tailId"] \in 0..Size /\ loaded["m_head"] \in 0..Size
          /\ Len(values) <= Gap(loaded["m_tailId"], loaded["m_head"])
      BY <1>2, <2>2 DEF RaceIInv, Answering, Slot
    <3>2. Gap(loaded["m_tailId"], loaded["m_head"]) \in 0..Size
      BY <3>1, Turns
    <3> QED
      BY <2>1, <3>1, <3>2
  <2> QED
    BY <2>1, <2>2
<1>3. RaceIInv => RaceTypeOK
  BY <1>2 DEF RaceIInv, Writing, Answering, RaceTypeOK
<1> QED
  BY RaceInitIInv, RaceNextIInv, <1>1, <1>3, PTL DEF RaceSpec

\* What end() and begin() say of the memory between two puts are slots that
\* were written.
THEOREM RaceWrittenSlots == RaceSpec => []WrittenSlots
<1>1. RaceIInv => WrittenSlots
  BY DEF RaceIInv, IInv, Good, WrittenSlots
<1> QED
  BY RaceInitIInv, RaceNextIInv, <1>1, PTL DEF RaceSpec

\* Without a lock, an answer that no put of its sensor overlaps is still the
\* last Size readings: the entries other sensors get meanwhile do not disturb
\* it, and the puts of the Wi-Fi task are those of BoundedReadings.
THEOREM RaceRefinement == RaceSpec => KeepsBoundedReadings
  BY RaceInitIInv, RaceNextIInv, PTL DEF RaceSpec, Kept!Spec, KeepsBoundedReadings

----------------------------------------------------------------------------
LEMMA Prefix ==
  ASSUME NEW S, NEW s \in Seq(S), NEW T, NEW u \in Seq(T), Len(u) <= Len(s),
         \A k \in 1..Len(u) : s[k] = u[k]
  PROVE  SubSeq(s, 1, Len(u)) = u
<1>1. Len(u) \in Nat /\ Len(s) \in Nat
  OBVIOUS
<1>2. SubSeq(s, 1, Len(u)) = [k \in 1..Len(u) |-> s[k]]
  BY <1>1
<1>3. u = [k \in 1..Len(u) |-> u[k]]
  OBVIOUS
<1> QED
  BY <1>2, <1>3

\* What OnePut says of an answer s where u was kept.
AlmostKept(s, u) ==
  \/ s = <<>> /\ Len(u) = Size
  \/ \E kept \in {u} \cup IF Len(u) = Size THEN {Tail(u)} ELSE {} :
        /\ Len(s) \in Len(kept)..(Len(kept) + 1)
        /\ SubSeq(s, 1, Len(kept)) = kept

\* The pairs of a tail and a head of which one is from before a put into a full
\* buffer and one from after it.
LEMMA TurnsTorn ==
  ASSUME NEW t \in 0..Size, NEW h \in 0..Size, Gap(t, h) = Size
  PROVE  /\ Gap(t, t) = 0
         /\ Gap(Turn(t + 1), h) = Size - 1
         /\ \A k \in 1..Size : Turn(t + k) # t
<1>1. Size \in Nat /\ Size >= 1
  BY SizeIsPositive
<1>2. /\ Turn(t + 1) = IF t = Size THEN 0 ELSE t + 1
      /\ Turn(h + 1) = t
  BY Turns, TurnsFull
<1>3. h = IF t = 0 THEN Size ELSE t - 1
  BY <1>1, <1>2 DEF Turn, bufferLenght
<1>4. Gap(Turn(t + 1), h) = Size - 1
  <2>1. CASE t = 0
    BY <1>1, <1>2, <1>3, <2>1 DEF Gap, bufferLenght
  <2>2. CASE t # 0
    BY <1>1, <1>2, <1>3, <2>2 DEF Gap, bufferLenght
  <2> QED
    BY <2>1, <2>2
<1>5. Gap(t, t) = 0
  BY <1>1 DEF Gap
<1>6. \A k \in 1..Size : Turn(t + k) # t
  BY <1>1 DEF Turn, bufferLenght
<1> QED
  BY <1>4, <1>5, <1>6

\* One put and any of the four pairs of a tail and a head, old or new: what the
\* loop has visited when it ends is told from the readings kept before.
LEMMA OnePutCases ==
  ASSUME NEW b \in Buffer, NEW r \in Reading, Good(b),
         NEW t \in {b["m_tailId"], put(b, r)["m_tailId"]},
         NEW h \in {b["m_head"], put(b, r)["m_head"]},
         NEW s \in Seq(Reading \cup {Blank, Torn}), Len(s) = Gap(t, h),
         AsBefore(b, t, s)
  PROVE  AlmostKept(s, Iterate(b))
<1> DEFINE t0 == b.m_tailId
           h0 == b.m_head
           n == Count(b)
           u == Iterate(b)
<1>1. Size \in Nat /\ Size >= 1
  BY SizeIsPositive
<1>2. t0 \in 0..Size /\ h0 \in 0..Size
  BY DEF Buffer, Slot
<1>3. modInc(h0) = Turn(h0 + 1)
  BY <1>2, NextSlot DEF Slot
<1>4. /\ t \in {t0, IF Turn(h0 + 1) = t0 THEN Turn(t0 + 1) ELSE t0}
      /\ h \in {h0, Turn(h0 + 1)}
  BY PutFields
<1>5. /\ n = Gap(t0, h0) /\ n \in 0..Size
      /\ u \in Seq(Reading) /\ Len(u) = n
      /\ \A k \in 1..n : u[k] = b.m_buffer[Turn(t0 + k)]
  BY <1>2, IterateSeq, Turns DEF Good, Count
<1>6. /\ Len(s) = Gap(t, h) /\ DOMAIN s = 1..Len(s)
      /\ \A k \in 1..Len(s) : \/ Turn(t + k) = Turn(h0 + 1)
                               \/ s[k] = b.m_buffer[Turn(t + k)]
  BY <1>3 DEF AsBefore
<1> HIDE DEF t0, h0, n, u
\* A put into a buffer with room moves the head only.
<1>7. CASE n < Size
  <2>1. /\ Turn(h0 + 1) # t0 /\ Gap(t0, Turn(h0 + 1)) = n + 1
        /\ \A k \in 1..n : Turn(t0 + k) # Turn(h0 + 1)
    BY <1>2, <1>5, <1>7, TurnsNotFull, SMTT(60)
  <2>2. t = t0 /\ Len(s) \in n..(n + 1)
    BY <1>1, <1>4, <1>5, <1>6, <2>1
  <2>3. \A k \in 1..n : s[k] = u[k]
    BY <1>5, <1>6, <2>1, <2>2
  <2>4. SubSeq(s, 1, Len(u)) = u
    BY <1>5, <2>2, <2>3, Prefix
  <2> QED
    BY <1>5, <2>2, <2>4 DEF u, AlmostKept
\* A put into a full buffer takes the free slot and then frees the oldest's.
<1>8. CASE n = Size
  <2>1. /\ Turn(h0 + 1) = t0 /\ Turn(t0 + 1) # t0
        /\ Gap(Turn(t0 + 1), t0) = Size
        /\ Turn(Turn(t0 + 1) + Size) = t0
        /\ \A k \in 1..(Size - 1) : /\ Turn(Turn(t0 + 1) + k) = Turn(t0 + (k + 1))
                                   /\ Turn(t0 + (k + 1)) # t0
    BY <1>2, <1>5, <1>8, TurnsFull
  <2>2. /\ Gap(t0, t0) = 0
        /\ Gap(Turn(t0 + 1), h0) = Size - 1
        /\ \A k \in 1..Size : Turn(t0 + k) # t0
    BY <1>2, <1>5, <1>8, TurnsTorn
  <2>3. CASE t = t0 /\ h = t0
    BY <1>5, <1>6, <1>8, <2>2, <2>3 DEF u, AlmostKept
  <2>4. CASE t = t0 /\ h = h0
    <3>1. Len(s) = n
      BY <1>5, <1>6, <2>4
    <3>2. ASSUME NEW k \in 1..n
          PROVE  s[k] = u[k]
      <4>1. Turn(t0 + k) # Turn(h0 + 1)
        BY <1>8, <2>1, <2>2
      <4> QED
        BY <1>5, <1>6, <2>4, <3>1, <4>1
    <3>3. SubSeq(s, 1, Len(u)) = u
      BY <1>5, <3>1, <3>2, Prefix
    <3> QED
      BY <1>5, <3>1, <3>3 DEF u, AlmostKept
  <2>5. CASE t = Turn(t0 + 1)
    <3> DEFINE v == Tail(u)
    <3>1. /\ v \in Seq(Reading) /\ Len(v) = Size - 1
          /\ \A k \in 1..(Size - 1) : v[k] = u[k + 1]
      BY <1>1, <1>5, <1>8
    <3> HIDE DEF v
    <3>2. Len(s) \in {Size - 1, Size}
      BY <1>4, <1>6, <2>1, <2>2, <2>5
    <3>3. ASSUME NEW k \in 1..(Size - 1)
          PROVE  s[k] = v[k]
      <4>1. k + 1 \in 1..n /\ k \in 1..Len(s)
        BY <1>1, <1>8, <3>2
      <4>2. s[k] = b.m_buffer[Turn(t0 + (k + 1))]
        BY <1>6, <2>1, <2>5, <4>1
      <4> QED
        BY <1>5, <3>1, <4>1, <4>2
    <3>4. SubSeq(s, 1, Len(v)) = v
      BY <1>1, <3>1, <3>2, <3>3, Prefix
    <3>5. Len(s) \in Len(v)..(Len(v) + 1)
      BY <1>1, <3>1, <3>2
    <3> QED
      BY <1>5, <1>8, <3>4, <3>5 DEF u, v, AlmostKept
  <2> QED
    BY <1>4, <2>1, <2>3, <2>4, <2>5
<1> QED
  BY <1>1, <1>5, <1>7, <1>8

\* One put while the web task goes through the buffer costs the answer at most
\* its oldest reading and adds at most one, for every Size; or, in a full
\* buffer, it costs all of them.
THEOREM OnePutAnswers == RaceSpec => []OnePut
<1>1. ASSUME RaceIInv, Done, puts = 1
      PROVE  AlmostKept(values, before)
  <2>1. /\ asked \in IDs /\ asked # NoID /\ DOMAIN loaded = {"m_tailId", "m_head"}
        /\ Len(values) = Gap(loaded["m_tailId"], loaded["m_head"])
    BY <1>1, HereForm DEF RaceIInv, Done, Looping
  <2>2. PICK b \in Buffer, r \in Reading : Good(b) /\ Overlapped(b, r)
    BY <1>1, <2>1 DEF RaceIInv, Once
  <2>3. /\ loaded["m_tailId"] \in {b["m_tailId"], put(b, r)["m_tailId"]}
        /\ loaded["m_head"] \in {b["m_head"], put(b, r)["m_head"]}
        /\ before = Iterate(b)
        /\ AsBefore(b, loaded["m_tailId"], values)
    BY <2>1, <2>2 DEF Overlapped
  <2>4. values \in Seq(Reading \cup {Blank, Torn})
    BY <1>1 DEF RaceIInv, Answering
  <2>5. PICK t \in {b["m_tailId"], put(b, r)["m_tailId"]},
             h \in {b["m_head"], put(b, r)["m_head"]},
             s \in Seq(Reading \cup {Blank, Torn}) :
               t = loaded["m_tailId"] /\ h = loaded["m_head"] /\ s = values
    BY <2>3, <2>4
  <2>6. Len(s) = Gap(t, h) /\ AsBefore(b, t, s)
    BY <2>1, <2>3, <2>5
  <2>7. AlmostKept(s, Iterate(b))
    BY <2>2, <2>5, <2>6, OnePutCases
  <2> QED
    BY <2>3, <2>5, <2>7
<1>2. RaceIInv => OnePut
  BY <1>1 DEF OnePut, AlmostKept
<1> QED
  BY RaceInitIInv, RaceNextIInv, <1>2, PTL DEF RaceSpec
============================================================================
