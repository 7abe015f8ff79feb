---------------------------- MODULE FramesProofs ----------------------------
(***************************************************************************)
(* For messages of up to five values of any types: what is deserialized is *)
(* what was serialized.                                                    *)
(***************************************************************************)
EXTENDS Frames, TLAPS

\* Types of values, five at most.
Layout == {types \in Seq(DOMAIN sizeOf) : Len(types) \in 1..5}

\* A message of the first types has the second ones at its head.
BeginsWith(types, head) == /\ Len(head) <= Len(types)
                           /\ \A k \in DOMAIN head : types[k] = head[k]

LEMMA OneToFive == \A k \in 1..5 : k \in {1, 2, 3, 4, 5}
OBVIOUS

LEMMA SizesOfTypes ==
  ASSUME NEW types \in Layout
  PROVE  /\ DOMAIN types = 1..Len(types) /\ Len(types) \in 1..5
         /\ DOMAIN types \subseteq 1..5
         /\ \A k \in 1..5 : SizeAt(types, k) \in Nat
         /\ \A k \in DOMAIN types : SizeAt(types, k) \in Nat \ {0}
         /\ \A k \in (1..5) \ DOMAIN types : SizeAt(types, k) = 0
<1>1. \A t \in DOMAIN sizeOf : sizeOf[t] \in Nat \ {0}
  BY DEF sizeOf
<1>2. /\ DOMAIN types = 1..Len(types) /\ Len(types) \in 1..5
      /\ \A k \in DOMAIN types : types[k] \in DOMAIN sizeOf
  BY DEF Layout
<1>3. DOMAIN types \subseteq 1..5
  BY <1>2
<1> QED
  BY <1>1, <1>2, <1>3 DEF SizeAt

LEMMA Sums ==
  ASSUME NEW types \in Layout
  PROVE  LET s(k) == SizeAt(types, k)
         IN  /\ indexForValue(types, 1) = 0
             /\ indexForValue(types, 2) = s(1)
             /\ indexForValue(types, 3) = s(1) + s(2)
             /\ indexForValue(types, 4) = s(1) + s(2) + s(3)
             /\ indexForValue(types, 5) = s(1) + s(2) + s(3) + s(4)
             /\ arrSize(types) = s(1) + s(2) + s(3) + s(4) + s(5)
<1> DEFINE s(k) == SizeAt(types, k)
<1>1. s(1) \in Nat /\ s(2) \in Nat /\ s(3) \in Nat /\ s(4) \in Nat /\ s(5) \in Nat
  BY SizesOfTypes
<1> HIDE DEF s
<1>2. /\ SizeFrom(types, 1) = s(1) + s(2) + s(3) + s(4) + s(5)
      /\ SizeFrom(types, 2) = s(2) + s(3) + s(4) + s(5)
      /\ SizeFrom(types, 3) = s(3) + s(4) + s(5)
      /\ SizeFrom(types, 4) = s(4) + s(5)
      /\ SizeFrom(types, 5) = s(5)
  BY <1>1 DEF SizeFrom, s
<1>3. /\ indexForValue(types, 1) = 0
      /\ indexForValue(types, 2) = s(1)
      /\ indexForValue(types, 3) = s(1) + s(2)
      /\ indexForValue(types, 4) = s(1) + s(2) + s(3)
      /\ indexForValue(types, 5) = s(1) + s(2) + s(3) + s(4)
      /\ arrSize(types) = s(1) + s(2) + s(3) + s(4) + s(5)
  BY <1>1, <1>2 DEF indexForValue, arrSize
<1> QED
  BY <1>3 DEF s

\* The values lie one after the other, from the first place to the last.
LEMMA Indices ==
  ASSUME NEW types \in Layout
  PROVE  /\ arrSize(types) \in Nat
         /\ \A k \in 1..5 : /\ indexForValue(types, k) \in Nat
                            /\ indexForValue(types, k) + SizeAt(types, k)
                                 <= arrSize(types)
         /\ \A j, k \in 1..5 : j < k =>
              indexForValue(types, j) + SizeAt(types, j)
                <= indexForValue(types, k)
<1>1. /\ SizeAt(types, 1) \in Nat /\ SizeAt(types, 2) \in Nat
      /\ SizeAt(types, 3) \in Nat /\ SizeAt(types, 4) \in Nat
      /\ SizeAt(types, 5) \in Nat
  BY SizesOfTypes
<1>2. arrSize(types) \in Nat
  BY <1>1, Sums
<1>3. \A k \in 1..5 : /\ indexForValue(types, k) \in Nat
                      /\ indexForValue(types, k) + SizeAt(types, k)
                           <= arrSize(types)
  BY <1>1, Sums, OneToFive
<1>4. ASSUME NEW j \in 1..5, NEW k \in 1..5, j < k
      PROVE  indexForValue(types, j) + SizeAt(types, j)
               <= indexForValue(types, k)
  <2>1. CASE k = 2
    <3>1. j = 1
      BY <1>4, <2>1
    <3> QED
      BY <1>1, <2>1, <3>1, Sums
  <2>2. CASE k = 3
    <3>1. j \in {1, 2}
      BY <1>4, <2>2
    <3> QED
      BY <1>1, <2>2, <3>1, Sums
  <2>3. CASE k = 4
    <3>1. j \in {1, 2, 3}
      BY <1>4, <2>3
    <3> QED
      BY <1>1, <2>3, <3>1, Sums
  <2>4. CASE k = 5
    <3>1. j \in {1, 2, 3, 4}
      BY <1>4, <2>4
    <3> QED
      BY <1>1, <2>4, <3>1, Sums
  <2> QED
    BY <1>4, <2>1, <2>2, <2>3, <2>4
<1> QED
  BY <1>2, <1>3, <1>4

\* So each byte is of one value.
LEMMA Bytes ==
  ASSUME NEW types \in Layout, NEW values,
         NEW k \in DOMAIN types, NEW i \in 0..(SizeAt(types, k) - 1)
  PROVE  /\ indexForValue(types, k) + 1 + i \in 1..arrSize(types)
         /\ serialize(types, values)[indexForValue(types, k) + 1 + i]
              = <<values[k], i>>
<1> DEFINE place == indexForValue(types, k) + 1 + i
           written == {j \in DOMAIN types : place \in Places(types, j)}
<1>1. k \in 1..5 /\ DOMAIN types \subseteq 1..5 /\ arrSize(types) \in Nat
  BY SizesOfTypes, Indices
<1>2. \A j \in DOMAIN types : /\ SizeAt(types, j) \in Nat
                              /\ indexForValue(types, j) \in Nat
  BY <1>1, SizesOfTypes, Indices
<1>3. i \in Nat /\ i < SizeAt(types, k)
  BY <1>2
<1>4. place \in 1..arrSize(types)
  <2>1. indexForValue(types, k) + SizeAt(types, k) <= arrSize(types)
    BY <1>1, Indices
  <2> QED
    BY <1>1, <1>2, <1>3, <2>1
<1>5. k \in written
  BY <1>2, <1>3 DEF Places
<1>6. ASSUME NEW j \in written
      PROVE  j = k
  <2>1. /\ j \in 1..5 /\ indexForValue(types, j) \in Nat
        /\ SizeAt(types, j) \in Nat
    BY <1>1, <1>2
  <2>2. /\ indexForValue(types, j) + 1 <= place
        /\ place <= indexForValue(types, j) + SizeAt(types, j)
    BY <1>2, <1>3, <2>1 DEF Places
  <2>3. ASSUME j < k PROVE FALSE
    <3>1. indexForValue(types, j) + SizeAt(types, j) <= indexForValue(types, k)
      BY <1>1, <2>1, <2>3, Indices
    <3> QED
      BY <1>2, <1>3, <2>1, <2>2, <3>1
  <2>4. ASSUME k < j PROVE FALSE
    <3>1. indexForValue(types, k) + SizeAt(types, k) <= indexForValue(types, j)
      BY <1>1, <2>1, <2>4, Indices
    <3> QED
      BY <1>2, <1>3, <2>1, <2>2, <3>1
  <2> QED
    BY <1>1, <2>1, <2>3, <2>4
<1>7. written = {k}
  BY <1>5, <1>6
<1>8. (CHOOSE m \in written : \A j \in written : j <= m) = k
  <2>1. k <= k
    BY <1>1
  <2> QED
    BY <1>7, <2>1
<1>9. place - indexForValue(types, k) - 1 = i
  BY <1>2, <1>3
<1> HIDE DEF place
<1>10. serialize(types, values)[place]
         = <<values[k], place - indexForValue(types, k) - 1>>
  BY <1>4, <1>7, <1>8 DEF serialize
<1> QED
  BY <1>4, <1>9, <1>10 DEF place

\* The values at the head of a message are read by another layout that has the
\* same types there.
LEMMA Prefix ==
  ASSUME NEW types \in Layout, NEW head \in Layout, BeginsWith(types, head)
  PROVE  /\ DOMAIN head \subseteq DOMAIN types
         /\ \A k \in DOMAIN head : /\ indexForValue(head, k) = indexForValue(types, k)
                                   /\ SizeAt(head, k) = SizeAt(types, k)
         /\ arrSize(head) <= arrSize(types)
<1>1. /\ DOMAIN head = 1..Len(head) /\ DOMAIN types = 1..Len(types)
      /\ Len(head) \in 1..5 /\ Len(types) \in 1..5
  BY SizesOfTypes
<1>2. DOMAIN head \subseteq DOMAIN types /\ DOMAIN head \subseteq 1..5
  BY <1>1 DEF BeginsWith
<1>3. \A k \in DOMAIN head : SizeAt(head, k) = SizeAt(types, k)
  BY <1>2 DEF BeginsWith, SizeAt
<1>4. \A k \in 1..5 : /\ SizeAt(head, k) \in Nat /\ SizeAt(types, k) \in Nat
                      /\ SizeAt(head, k) <= SizeAt(types, k)
  <2>1. \A k \in 1..5 : SizeAt(head, k) \in Nat /\ SizeAt(types, k) \in Nat
    BY SizesOfTypes
  <2>2. \A k \in (1..5) \ DOMAIN head : SizeAt(head, k) = 0
    BY SizesOfTypes
  <2>3. \A k \in (1..5) \ DOMAIN head : SizeAt(head, k) <= SizeAt(types, k)
    BY <2>1, <2>2
  <2>4. \A k \in DOMAIN head : SizeAt(head, k) <= SizeAt(types, k)
    BY <1>2, <1>3, <2>1
  <2> QED
    BY <2>1, <2>3, <2>4
<1>5. arrSize(head) <= arrSize(types)
  <2>1. 1 \in 1..5 /\ 2 \in 1..5 /\ 3 \in 1..5 /\ 4 \in 1..5 /\ 5 \in 1..5
    OBVIOUS
  <2>2. /\ SizeAt(head, 1) <= SizeAt(types, 1) /\ SizeAt(head, 1) \in Nat
        /\ SizeAt(head, 2) <= SizeAt(types, 2) /\ SizeAt(head, 2) \in Nat
        /\ SizeAt(head, 3) <= SizeAt(types, 3) /\ SizeAt(head, 3) \in Nat
        /\ SizeAt(head, 4) <= SizeAt(types, 4) /\ SizeAt(head, 4) \in Nat
        /\ SizeAt(head, 5) <= SizeAt(types, 5) /\ SizeAt(head, 5) \in Nat
        /\ SizeAt(types, 1) \in Nat /\ SizeAt(types, 2) \in Nat
        /\ SizeAt(types, 3) \in Nat /\ SizeAt(types, 4) \in Nat
        /\ SizeAt(types, 5) \in Nat
    BY <1>4, <2>1
  <2> QED
    BY <2>2, Sums
<1>6. ASSUME NEW k \in DOMAIN head
      PROVE  indexForValue(head, k) = indexForValue(types, k)
  <2>1. \A j \in 1..5 : j < k => SizeAt(head, j) = SizeAt(types, j)
    BY <1>1, <1>3
  <2>2. k \in {1, 2, 3, 4, 5}
    BY <1>2, OneToFive
  <2>3. CASE k = 1
    BY <2>3, Sums
  <2>4. CASE k = 2
    <3>1. SizeAt(head, 1) = SizeAt(types, 1)
      BY <2>1, <2>4
    <3> QED
      BY <2>4, <3>1, Sums
  <2>5. CASE k = 3
    <3>1. /\ SizeAt(head, 1) = SizeAt(types, 1)
          /\ SizeAt(head, 2) = SizeAt(types, 2)
      BY <2>1, <2>5
    <3> QED
      BY <2>5, <3>1, Sums
  <2>6. CASE k = 4
    <3>1. /\ SizeAt(head, 1) = SizeAt(types, 1)
          /\ SizeAt(head, 2) = SizeAt(types, 2)
          /\ SizeAt(head, 3) = SizeAt(types, 3)
      BY <2>1, <2>6
    <3> QED
      BY <2>6, <3>1, Sums
  <2>7. CASE k = 5
    <3>1. /\ SizeAt(head, 1) = SizeAt(types, 1)
          /\ SizeAt(head, 2) = SizeAt(types, 2)
          /\ SizeAt(head, 3) = SizeAt(types, 3)
          /\ SizeAt(head, 4) = SizeAt(types, 4)
      BY <2>1, <2>7
    <3> QED
      BY <2>7, <3>1, Sums
  <2> QED
    BY <2>2, <2>3, <2>4, <2>5, <2>6, <2>7
<1> QED
  BY <1>2, <1>3, <1>5, <1>6

LEMMA FrameLength ==
  ASSUME NEW types \in Layout, NEW values
  PROVE  Len(serialize(types, values)) = arrSize(types)
<1>1. arrSize(types) \in Nat
  BY Indices
<1> QED
  BY <1>1 DEF serialize

\* What is read back by a layout that the message begins with are its values.
LEMMA ReadBack ==
  ASSUME NEW types \in Layout, NEW head \in Layout, NEW values,
         BeginsWith(types, head)
  PROVE  readValues(head, serialize(types, values))
           = [k \in DOMAIN head |-> values[k]]
<1> DEFINE frame == serialize(types, values)
<1> HIDE DEF frame
<1>1. ASSUME NEW k \in DOMAIN head
      PROVE  readValue(head, frame, k) = values[k]
  <2> DEFINE from == indexForValue(head, k) + 1
  <2>1. /\ k \in DOMAIN types
        /\ indexForValue(head, k) = indexForValue(types, k)
        /\ SizeAt(head, k) = SizeAt(types, k)
    BY Prefix
  <2>2. \A i \in 0..(SizeAt(head, k) - 1) : frame[from + i] = <<values[k], i>>
    BY <2>1, Bytes DEF frame
  <2>3. k \in 1..5 /\ SizeAt(head, k) \in Nat \ {0}
    BY SizesOfTypes
  <2>4. from \in Nat
    BY <2>3, Indices
  <2>5. frame[from] = <<values[k], 0>>
    <3>1. 0 \in 0..(SizeAt(head, k) - 1)
      BY <2>3
    <3>2. frame[from + 0] = <<values[k], 0>>
      BY <2>2, <3>1
    <3>3. from + 0 = from
      BY <2>4
    <3> QED
      BY <3>2, <3>3
  <2> HIDE DEF from
  <2>6. \A i \in 0..(SizeAt(head, k) - 1) : /\ frame[from + i][1] = values[k]
                                            /\ frame[from + i][2] = i
    BY <2>2
  <2>7. frame[from][1] = values[k]
    BY <2>5
  <2> QED
    BY <2>6, <2>7 DEF readValue, from
<1> QED
  BY <1>1 DEF readValues, frame

\* A message of any layout of up to five values comes back as it was, and its
\* head can be read without knowing its layout (serializer.hpp:13-89).
THEOREM RoundTrip ==
  ASSUME NEW types \in Layout, NEW head \in Layout, BeginsWith(types, head),
         NEW Value, NEW values \in [DOMAIN types -> Value]
  PROVE  /\ deserialize(types, serialize(types, values)) = values
         /\ partialDeserialize(head, serialize(types, values))
              = [k \in DOMAIN head |-> values[k]]
<1>1. arrSize(head) \in Nat /\ arrSize(types) \in Nat
  BY Indices
<1>2. BeginsWith(types, types)
  BY SizesOfTypes DEF BeginsWith
<1>3. /\ readValues(types, serialize(types, values))
           = [k \in DOMAIN types |-> values[k]]
      /\ readValues(head, serialize(types, values))
           = [k \in DOMAIN head |-> values[k]]
  BY <1>2, ReadBack
<1>4. /\ Len(serialize(types, values)) = arrSize(types)
      /\ arrSize(head) <= arrSize(types)
  BY FrameLength, Prefix
<1>5. [k \in DOMAIN types |-> values[k]] = values
  OBVIOUS
<1> QED
  BY <1>1, <1>3, <1>4, <1>5 DEF deserialize, partialDeserialize

----------------------------------------------------------------------------
\* The program's messages begin with their header.
LEMMA Layouts ==
  /\ Header \in Layout
  /\ \A types \in {Header, PairReqMsg, PairRespMsg, SensorDataMsg} :
       types \in Layout /\ BeginsWith(types, Header)
<1>1. DOMAIN sizeOf = {"MsgType", "Signature", "MacAddr", "IDType", "float",
                       "uint8_t", "uint16_t"}
  BY DEF sizeOf
<1>2. Header \in Layout
  BY <1>1 DEF Layout, Header
<1>3. PairReqMsg \in Layout
  BY <1>1 DEF Layout, PairReqMsg
<1>4. PairRespMsg \in Layout
  BY <1>1 DEF Layout, PairRespMsg
<1>5. SensorDataMsg \in Layout
  BY <1>1 DEF Layout, SensorDataMsg
<1>6. \A types \in {Header, PairReqMsg, PairRespMsg, SensorDataMsg} :
        BeginsWith(types, Header)
  BY SMTT(60) DEF BeginsWith, Header, PairReqMsg, PairRespMsg, SensorDataMsg
<1> QED
  BY <1>2, <1>3, <1>4, <1>5, <1>6

\* A header tells what the values of the message say.
LEMMA HeaderRead ==
  ASSUME NEW types \in {Header, PairReqMsg, PairRespMsg, SensorDataMsg},
         NEW values, NEW msgType
  PROVE  HasHeader(serialize(types, values), msgType)
           <=> values[1] = msgType /\ values[2] = signatureTemplate
<1>1. /\ types \in Layout /\ Header \in Layout /\ BeginsWith(types, Header)
      /\ arrSize(types) \in Nat /\ arrSize(Header) \in Nat
  BY Layouts, Indices
<1>2. partialDeserialize(Header, serialize(types, values))
        = [k \in DOMAIN Header |-> values[k]]
  <2>1. /\ Len(serialize(types, values)) = arrSize(types)
        /\ arrSize(Header) <= arrSize(types)
    BY <1>1, FrameLength, Prefix
  <2> QED
    BY <1>1, <2>1, ReadBack DEF partialDeserialize
<1>3. DOMAIN Header = 1..2
  BY DEF Header
<1> DEFINE head == [k \in DOMAIN Header |-> values[k]]
<1>4. head = <<msgType, signatureTemplate>>
        <=> values[1] = msgType /\ values[2] = signatureTemplate
  <2>1. /\ DOMAIN head = 1..2 /\ DOMAIN <<msgType, signatureTemplate>> = 1..2
        /\ head[1] = values[1] /\ head[2] = values[2]
    BY <1>3
  <2>2. ASSUME values[1] = msgType, values[2] = signatureTemplate
        PROVE  head = <<msgType, signatureTemplate>>
    <3>1. \A k \in 1..2 : k = 1 \/ k = 2
      OBVIOUS
    <3>2. \A k \in 1..2 : values[k] = <<msgType, signatureTemplate>>[k]
      BY <2>2, <3>1
    <3>3. <<msgType, signatureTemplate>>
            = [k \in 1..2 |-> <<msgType, signatureTemplate>>[k]]
      OBVIOUS
    <3> QED
      BY <1>3, <3>2, <3>3
  <2> QED
    BY <2>1, <2>2
<1> QED
  BY <1>2, <1>4 DEF HasHeader

LEMMA MessageRead ==
  ASSUME NEW types \in {PairReqMsg, PairRespMsg, SensorDataMsg}, NEW values,
         values[2] = signatureTemplate
  PROVE  Message(values[1], types, serialize(types, values))
           = [k \in DOMAIN types |-> values[k]]
<1>1. types \in Layout /\ BeginsWith(types, types) /\ arrSize(types) \in Nat
  <2>1. types \in Layout
    BY Layouts
  <2>2. Len(types) <= Len(types)
    BY <2>1, SizesOfTypes
  <2> QED
    BY <2>1, <2>2, Indices DEF BeginsWith
<1>2. deserialize(types, serialize(types, values))
        = [k \in DOMAIN types |-> values[k]]
  BY <1>1, FrameLength, ReadBack DEF deserialize
<1> QED
  BY <1>2, HeaderRead DEF Message
=============================================================================
