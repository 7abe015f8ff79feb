------------------------------- MODULE Frames -------------------------------
(***************************************************************************)
(* Messages as bytes (src/src/common: serializer.hpp, Messages.hpp).  Both *)
(* boards have the same sizes and order of bytes, so a byte is known by    *)
(* the value that was copied and its place in it, from 0.  A message is    *)
(* the list of its values, a frame the sequence of its bytes.              *)
(***************************************************************************)
EXTENDS Integers, Sequences

CONSTANT Garbage   \* what is read where no value was written as a whole

sizeOf == [MsgType |-> 1, Signature |-> 4, MacAddr |-> 6, IDType |-> 4,
           float |-> 4, uint8_t |-> 1, uint16_t |-> 2]

Header        == <<"MsgType", "Signature">>
PairReqMsg    == <<"MsgType", "Signature", "MacAddr", "IDType">>
PairRespMsg   == <<"MsgType", "Signature", "MacAddr", "uint8_t", "uint16_t">>
SensorDataMsg == <<"MsgType", "Signature", "IDType", "float", "float">>

signatureTemplate == "THTH"

nullopt == <<>>

----------------------------------------------------------------------------
SizeAt(types, k) == IF k \in DOMAIN types THEN sizeOf[types[k]] ELSE 0

\* sizeof(T) + ... of the k-th type and those after it, of five at most.
SizeFrom(types, k) ==
  LET Part(j) == IF j < k THEN 0 ELSE SizeAt(types, j)
  IN  Part(1) + Part(2) + Part(3) + Part(4) + Part(5)

arrSize(types) == SizeFrom(types, 1)

indexForValue(types, k) == arrSize(types) - SizeFrom(types, k)

\* The places of the k-th value in a frame.
Places(types, k) ==
  (indexForValue(types, k) + 1)..(indexForValue(types, k) + SizeAt(types, k))

\* Value after value is copied to its place, so the last one stays.
serialize(types, values) ==
  [i \in 1..arrSize(types) |->
     LET written == {k \in DOMAIN types : i \in Places(types, k)}
         last    == CHOOSE k \in written : \A j \in written : j <= k
     IN  IF written = {} THEN <<Garbage, 0>>
         ELSE <<values[last], i - indexForValue(types, last) - 1>>]

readValue(types, buffer, k) ==
  LET from == indexForValue(types, k) + 1
      val  == buffer[from][1]
  IN  IF \A i \in 0..(SizeAt(types, k) - 1) :
           buffer[from + i][2] = i /\ buffer[from + i][1] = val
      THEN val ELSE Garbage

readValues(types, buffer) ==
  [k \in DOMAIN types |-> readValue(types, buffer, k)]

deserialize(types, buffer) ==
  IF arrSize(types) # Len(buffer) THEN nullopt ELSE readValues(types, buffer)

partialDeserialize(types, buffer) ==
  IF arrSize(types) > Len(buffer) THEN nullopt ELSE readValues(types, buffer)

----------------------------------------------------------------------------
\* The checks that both receive callbacks begin with.
HasHeader(buffer, msgType) ==
  partialDeserialize(Header, buffer) = <<msgType, signatureTemplate>>

\* The message that a receiver of its type makes of a frame, if any.
Message(msgType, types, buffer) ==
  IF HasHeader(buffer, msgType) THEN deserialize(types, buffer) ELSE nullopt

=============================================================================
