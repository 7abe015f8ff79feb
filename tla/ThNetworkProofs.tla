-------------------------- MODULE ThNetworkProofs --------------------------
(***************************************************************************)
(* For any number of transmitters, channels, resets and lost frames: the   *)
(* network is type correct, every board keeps one configuration, a paired  *)
(* sensor is known to a host that has space for all, and a board sleeps as *)
(* specified when the specified periods fit the words they pass through.   *)
(***************************************************************************)
EXTENDS ThNetwork, ConfStorageProofs, FramesProofs

\* Periods that survive uint8_t, and whose microseconds survive unsigned long.
PeriodsFit == \A minutes \in Period : minutes < Byte /\ minutes * UsInMin < Word

\* There is space for every sensor there is.
SpaceForAll == Cardinality(IDs) <= maxSensorsNum

\* A step of a transmitter, without what the radio makes of it.
Firmware(t) == \/ ColdBoot(t) \/ WakeUp(t) \/ NotPressed(t) \/ Pressed(t)
               \/ NextChannel(t) \/ CantPair(t) \/ Paired(t) \/ Erase(t)
               \/ Write(t) \/ saveToRTC(t) \/ Sleep(t) \/ Reset(t)

----------------------------------------------------------------------------
LEMMA Mod ==
  ASSUME NEW x \in Nat, NEW n \in Nat \ {0}
  PROVE  /\ x % n \in 0..(n - 1)
         /\ x < n => x % n = x
  OBVIOUS

\* The numbers a configuration can hold.
LEMMA Numbers ==
  /\ Byte \in Nat \ {0} /\ 1 \in Channel
  /\ Channel \subseteq 0..(Byte - 1)
  /\ NoConfig \in TransmitterConfig /\ Erased \in TransmitterConfig
  /\ NoConfig.ID = NoID /\ Erased.ID = NoID
  BY TransmitterAssumption DEF Channel, NoConfig, Erased, TransmitterConfig

LEMMA SleepTimeType ==
  ASSUME NEW c \in TransmitterConfig
  PROVE  SleepTime(c) \in 0..(Word - 1)
<1>1. c.sensorUpdatePeriodMins \in Nat
  BY Numbers DEF TransmitterConfig
<1>2. c.sensorUpdatePeriodMins * UsInMin \in Nat
  BY <1>1, TransmitterAssumption
<1> QED
  BY <1>2, Mod, TransmitterAssumption DEF SleepTime

\* Who reads a request reads the ID of the board that sent it.
LEMMA RequestRead ==
  ASSUME NEW frame \in Frame, PairReq[frame] # nullopt
  PROVE  PairReq[frame][4] \in Transmitters
<1>1. PairReq[frame] = Message("PAIR_REQ", PairReqMsg, frame)
  BY DEF PairReq
<1>2. CASE \E t \in Transmitters : frame = PairReqFrame[t]
  <2> PICK t \in Transmitters : frame = PairReqFrame[t]
    BY <1>2
  <2> DEFINE values == <<"PAIR_REQ", signatureTemplate, macAddress(t), t>>
  <2>1. /\ values[1] = "PAIR_REQ" /\ values[2] = signatureTemplate
        /\ values[4] = t
    OBVIOUS
  <2>2. frame = serialize(PairReqMsg, values)
    BY DEF PairReqFrame
  <2> HIDE DEF values
  <2>3. PairReq[frame] = [k \in DOMAIN PairReqMsg |-> values[k]]
    <3>1. Message(values[1], PairReqMsg, serialize(PairReqMsg, values))
            = [k \in DOMAIN PairReqMsg |-> values[k]]
      BY <2>1, MessageRead
    <3> QED
      BY <1>1, <2>1, <2>2, <3>1
  <2>4. 4 \in DOMAIN PairReqMsg
    BY DEF PairReqMsg
  <2> QED
    BY <2>1, <2>3, <2>4
<1>3. CASE \E id \in Transmitters \cup {NoID} : frame = SensorDataFrame[id]
  <2> PICK id \in Transmitters \cup {NoID} : frame = SensorDataFrame[id]
    BY <1>3
  <2> DEFINE values == <<"SENSOR_DATA", signatureTemplate, id, "temperature",
                         "humidity">>
  <2>1. values[1] # "PAIR_REQ"
    OBVIOUS
  <2>2. frame = serialize(SensorDataMsg, values)
    BY DEF SensorDataFrame
  <2> HIDE DEF values
  <2>3. ~HasHeader(frame, "PAIR_REQ")
    BY <2>1, <2>2, HeaderRead
  <2> QED
    BY <1>1, <2>3 DEF Message
<1>4. CASE frame \in ForeignFrame
  <2> DEFINE values == <<"PAIR_REQ", "other">>
  <2>1. values[2] # signatureTemplate
    BY DEF signatureTemplate
  <2>2. frame = serialize(Header, values)
    BY <1>4 DEF ForeignFrame
  <2> HIDE DEF values
  <2>3. ~HasHeader(frame, "PAIR_REQ")
    BY <2>1, <2>2, HeaderRead
  <2> QED
    BY <1>1, <2>3 DEF Message
<1> QED
  BY <1>2, <1>3, <1>4 DEF Frame

\* Who reads an answer reads what the host put into it.
LEMMA AnswerRead ==
  ASSUME NEW ch \in HostChannel, NEW minutes \in Period
  PROVE  PairResp[ch][minutes][4] = ch /\ PairResp[ch][minutes][5] = minutes
<1> DEFINE values == <<"PAIR_RESP", signatureTemplate, "hostMacAddr", ch, minutes>>
<1>1. /\ values[1] = "PAIR_RESP" /\ values[2] = signatureTemplate
      /\ values[4] = ch /\ values[5] = minutes
  OBVIOUS
<1>2. PairRespFrame[ch][minutes] = serialize(PairRespMsg, values)
  BY DEF PairRespFrame
<1> HIDE DEF values
<1>3. PairResp[ch][minutes] = [k \in DOMAIN PairRespMsg |-> values[k]]
  <2>1. PairResp[ch][minutes]
          = Message("PAIR_RESP", PairRespMsg, PairRespFrame[ch][minutes])
    BY DEF PairResp
  <2> QED
    BY <1>1, <1>2, <2>1, MessageRead, ZenonT(60)
<1>4. 4 \in DOMAIN PairRespMsg /\ 5 \in DOMAIN PairRespMsg
  BY DEF PairRespMsg
<1> QED
  BY <1>1, <1>3, <1>4

\* What a board makes of an answer.
Answered(t, ch, minutes) ==
  /\ m_paired' = [m_paired EXCEPT ![t] = TRUE]
  /\ m_transmitterConfig' = [m_transmitterConfig EXCEPT ![t] =
       [ID |-> t, channel |-> ch, sensorUpdatePeriodMins |-> minutes % Byte]]
  /\ UNCHANGED <<at, eeprom, rtc, configuration, try, radio, timer>>

LEMMA AnswerHeard ==
  ASSUME TypeOK,
         onDataRecv(peer, PairResp[channel][m_jsonData.sensorUpdatePeriodMins])
  PROVE  Answered(peer, channel, m_jsonData.sensorUpdatePeriodMins)
<1>1. channel \in HostChannel /\ m_jsonData.sensorUpdatePeriodMins \in Period
  BY DEF TypeOK, Conf
<1> QED
  BY <1>1, AnswerRead, ZenonT(60) DEF onDataRecv, Answered

LEMMA ReceivedType ==
  ASSUME NEW t \in Transmitters, NEW c \in Channel, NEW minutes \in Nat
  PROVE  [ID |-> t, channel |-> c, sensorUpdatePeriodMins |-> minutes % Byte]
           \in TransmitterConfig
<1>1. minutes % Byte \in 0..(Byte - 1)
  BY Mod, Numbers
<1> QED
  BY <1>1, Numbers DEF TransmitterConfig

\* A boot with a configuration it can have read.
LEMMA SetUpType ==
  ASSUME TransmitterTypeOK, NEW t \in Transmitters,
         NEW read \in TransmitterConfig, SetUp(t, read),
         rtc' \in [Transmitters -> TransmitterConfig]
  PROVE  TransmitterTypeOK'
<1>1. setChannel(radio[t], read.channel) \in Channel
  BY DEF setChannel, TransmitterTypeOK
<1>2. 0 \in 0..(Word - 1)
  BY TransmitterAssumption
<1> QED
  BY <1>1, <1>2 DEF SetUp, Then, TransmitterTypeOK

LEMMA LoseRAMType ==
  ASSUME TransmitterTypeOK, NEW t \in Transmitters, LoseRAM(t)
  PROVE  /\ configuration' \in [Transmitters -> TransmitterConfig]
         /\ m_transmitterConfig' \in [Transmitters -> TransmitterConfig]
         /\ m_paired' \in [Transmitters -> BOOLEAN]
         /\ try' \in [Transmitters -> 0..maxChannels]
         /\ radio' \in [Transmitters -> Channel]
  BY Numbers, TransmitterAssumption DEF LoseRAM, TransmitterTypeOK

LEMMA TryChannelType ==
  ASSUME TransmitterTypeOK, NEW t \in Transmitters, NEW c \in 0..maxChannels,
         TryChannel(t, c), m_paired' \in [Transmitters -> BOOLEAN]
  PROVE  TransmitterTypeOK'
<1>1. setChannel(radio[t], c) \in Channel
  BY DEF setChannel, TransmitterTypeOK
<1> QED
  BY <1>1 DEF TryChannel, Then, TransmitterTypeOK

\* One transmitter's steps keep the types of all.
LEMMA TransmitterTypes ==
  ASSUME TransmitterTypeOK, NEW t \in Transmitters,
         Firmware(t)
  PROVE  TransmitterTypeOK'
<1>1. /\ eeprom[t] \in TransmitterConfig /\ rtc[t] \in TransmitterConfig
      /\ configuration[t] \in TransmitterConfig
      /\ m_transmitterConfig[t] \in TransmitterConfig
      /\ try[t] \in 0..maxChannels
  BY DEF TransmitterTypeOK
<1>2. CASE ColdBoot(t)
  <2>1. rtc' \in [Transmitters -> TransmitterConfig]
    BY <1>1, <1>2 DEF ColdBoot, TransmitterTypeOK
  <2> QED
    BY <1>1, <1>2, <2>1, SetUpType DEF ColdBoot
<1>3. CASE WakeUp(t)
  <2>1. rtc' \in [Transmitters -> TransmitterConfig]
    BY <1>3 DEF WakeUp, TransmitterTypeOK
  <2> QED
    BY <1>1, <1>3, <2>1, SetUpType DEF WakeUp
<1>4. CASE NotPressed(t) \/ CantPair(t)
  BY <1>4 DEF NotPressed, CantPair, ram, Then, TransmitterTypeOK
<1>5. CASE Pressed(t)
  <2>1. m_paired' \in [Transmitters -> BOOLEAN]
    BY <1>5 DEF Pressed, TransmitterTypeOK
  <2>2. 0 \in 0..maxChannels
    BY TransmitterAssumption
  <2> QED
    BY <1>5, <2>1, <2>2, TryChannelType DEF Pressed
<1>6. CASE NextChannel(t)
  <2>1. m_paired' \in [Transmitters -> BOOLEAN]
    BY <1>6 DEF NextChannel, TransmitterTypeOK
  <2>2. try[t] + 1 \in 0..maxChannels
    BY <1>1, <1>6, TransmitterAssumption DEF NextChannel
  <2> QED
    BY <1>6, <2>1, <2>2, TryChannelType DEF NextChannel
<1>7. CASE Paired(t)
  BY <1>1, <1>7 DEF Paired, Then, TransmitterTypeOK
<1>8. CASE Erase(t)
  BY <1>8, Numbers DEF Erase, Then, ram, TransmitterTypeOK
<1>9. CASE Write(t)
  BY <1>1, <1>9 DEF Write, Then, ram, TransmitterTypeOK
<1>10. CASE saveToRTC(t)
  BY <1>1, <1>10 DEF saveToRTC, Then, ram, TransmitterTypeOK
<1>11. CASE Sleep(t)
  <2>1. SleepTime(configuration[t]) \in 0..(Word - 1)
    BY <1>1, SleepTimeType
  <2> QED
    BY <1>11, <2>1, LoseRAMType DEF Sleep, Then, TransmitterTypeOK
<1>12. CASE Reset(t)
  <2>1. 0 \in 0..(Word - 1)
    BY TransmitterAssumption
  <2>2. rtc' \in [Transmitters -> TransmitterConfig]
    BY <1>12, Numbers DEF Reset, TransmitterTypeOK
  <2> QED
    BY <1>12, <2>1, <2>2, LoseRAMType DEF Reset, Then, TransmitterTypeOK
<1> QED
  BY <1>2, <1>3, <1>4, <1>5, <1>6, <1>7, <1>8, <1>9, <1>10, <1>11, <1>12
     DEF Firmware

----------------------------------------------------------------------------
\* What a boot of the host starts from.
LEMMA DocumentTypes ==
  ASSUME TypeOK
  PROVE  /\ setDefault \in Conf
         /\ m_jsonData.sensorUpdatePeriodMins \in Nat
         /\ \A id \in IDs : /\ addSensor(m_jsonData, id, NoName) \in Conf
                            /\ removeSensor(m_jsonData, id) \in Conf
         /\ \A c \in Conf : DOMAIN c.sensors \subseteq IDs
<1>1. m_jsonData \in Conf
  BY DEF TypeOK
<1>2. m_jsonData.sensorUpdatePeriodMins \in Nat
  BY <1>1, NetworkAssumption DEF Conf
<1>3. ASSUME NEW id \in IDs
      PROVE  addSensor(m_jsonData, id, NoName) \in Conf
  <2>1. NoName \in Name
    BY DEF Name
  <2>2. newSensorName(m_jsonData, NoName) \in Name
    BY <1>1, <2>1, ConfTypes
  <2> QED
    BY <1>1, <2>2, ConfTypes DEF addSensor
<1>4. ASSUME NEW c \in Conf
      PROVE  DOMAIN c.sensors \subseteq IDs
  BY SensorMapDomain DEF Conf
<1> QED
  BY <1>1, <1>2, <1>3, <1>4, DefaultType, ConfTypes

\* One frame more is in the queue while there is room.
LEMMA Queued ==
  ASSUME TypeOK, NEW frame \in Frame, inbox' = Append(inbox, frame),
         Len(inbox) < QueueLength
  PROVE  inbox' \in Seq(Frame) /\ Len(inbox') <= QueueLength
<1>1. inbox \in Seq(Frame) /\ Len(inbox) \in Nat
  BY DEF TypeOK
<1> QED
  BY <1>1, NetworkAssumption

\* A transmitter's steps, whether or not the host hears them.
LEMMA StepTypeOK ==
  ASSUME TypeOK, NEW t \in Transmitters, Step(t) \/ ResetOf(t)
  PROVE  TypeOK'
<1>1. /\ TransmitterTypeOK'
      /\ UNCHANGED <<document, m_pairingEnabled, channel, m_readingBuffers,
                     handling, peer>>
      /\ resets' \in 0..MaxResets
      /\ \/ UNCHANGED inbox
         \/ \E frame \in Frame : inbox' = Append(inbox, frame)
                                 /\ Len(inbox) < QueueLength
  <2>1. CASE SendPairMsg(t)
    <3>1. PairReqFrame[t] \in Frame
      BY DEF Frame
    <3>2. TransmitterTypeOK'
      BY <2>1, TransmitterTypes DEF SendPairMsg, Firmware, TypeOK
    <3> QED
      BY <2>1, <3>1, <3>2
         DEF SendPairMsg, Heard, Lost, HostElse, handler, TypeOK
  <2>2. CASE DataHeard(t)
    <3>1. SensorDataFrame[configuration[t].ID] \in Frame
      BY DEF Frame, TypeOK, TransmitterTypeOK, TransmitterConfig
    <3>2. TransmitterTypeOK'
      BY <2>2, TransmitterTypes DEF DataHeard, Firmware, TypeOK
    <3> QED
      BY <2>2, <3>1, <3>2 DEF DataHeard, HostElse, TypeOK
  <2>3. CASE DataLost(t)
    <3>1. TransmitterTypeOK'
      BY <2>3, TransmitterTypes DEF DataLost, Firmware, TypeOK
    <3> QED
      BY <2>3, <3>1 DEF DataLost, Lost, HostElse, handler, TypeOK
  <2>4. CASE Quietly(t)
    <3>1. TransmitterTypeOK'
      BY <2>4, TransmitterTypes DEF Quietly, Firmware, TypeOK
    <3> QED
      BY <2>4, <3>1 DEF Quietly, hostVars, handler, TypeOK
  <2>5. CASE ResetOf(t)
    <3>1. TransmitterTypeOK'
      BY <2>5, TransmitterTypes DEF ResetOf, Firmware, TypeOK
    <3>2. resets' \in 0..MaxResets
      BY <2>5, NetworkAssumption DEF ResetOf, TypeOK
    <3> QED
      BY <2>5, <3>1, <3>2 DEF ResetOf, hostVars, handler
  <2> QED
    BY <2>1, <2>2, <2>3, <2>4, <2>5 DEF Step
<1>2. inbox' \in Seq(Frame) /\ Len(inbox') <= QueueLength
  <2>1. inbox \in Seq(Frame) /\ Len(inbox) <= QueueLength
    BY DEF TypeOK
  <2> QED
    BY <1>1, <2>1, Queued
<1> QED
  BY <1>1, <1>2 DEF TypeOK, document

LEMMA AirTypeOK == ASSUME TypeOK, Air PROVE TypeOK'
<1> PICK frame \in ForeignFrame : Overheard(frame)
  BY DEF Air
<1>1. frame \in Frame
  BY DEF Frame
<1>2. inbox' \in Seq(Frame) /\ Len(inbox') <= QueueLength
  BY <1>1, Queued DEF Overheard
<1>3. resets' \in 0..MaxResets
  BY NetworkAssumption DEF Overheard, TypeOK
<1>4. TransmitterTypeOK'
  BY DEF Overheard, transmitterVars, ram, TypeOK, TransmitterTypeOK
<1> QED
  BY <1>2, <1>3, <1>4 DEF Overheard, document, TypeOK

\* The host's radio task.
LEMMA RadioTypeOK == ASSUME TypeOK, Radio PROVE TypeOK'
<1>1. ASSUME Handling
      PROVE  /\ Tail(inbox) \in Seq(Frame) /\ Len(Tail(inbox)) <= QueueLength
             /\ Head(inbox) \in Frame
  BY <1>1, NetworkAssumption DEF Handling, TypeOK
<1> USE DEF TransmittersIdle, transmitterVars, ram, document
<1>0. CASE Ignored
  BY <1>0, <1>1 DEF Ignored, TypeOK, TransmitterTypeOK
<1>2. CASE Rejected
  BY <1>1, <1>2 DEF Rejected, Received, TypeOK, TransmitterTypeOK
<1>3. CASE addNewSensorToStorage
  <2>1. Handling /\ Received(PairReq)
    BY <1>3 DEF addNewSensorToStorage, Received
  <2> DEFINE id == PairReq[Head(inbox)][4]
  <2>2. id \in Transmitters
    BY <1>1, <2>1, RequestRead DEF Received
  <2>3. m_jsonData' \in Conf
    BY <1>3, <2>2, DocumentTypes, NetworkAssumption
       DEF addNewSensorToStorage, TypeOK
  <2> HIDE DEF id
  <2>4. /\ peer' \in Transmitters
        /\ handling' \in {"idle", "save", "sendPairOK"}
    BY <1>3, <2>2 DEF addNewSensorToStorage, id
  <2>5. /\ inbox' = Tail(inbox)
        /\ UNCHANGED <<file, known, m_pairingEnabled, channel, m_readingBuffers,
                       resets>>
        /\ UNCHANGED transmitterVars
    BY <1>3 DEF addNewSensorToStorage
  <2>6. TransmitterTypeOK'
    BY <2>5 DEF TypeOK, TransmitterTypeOK
  <2> QED
    BY <1>1, <2>1, <2>3, <2>4, <2>5, <2>6 DEF TypeOK
<1>4. CASE SaveSensor
  <2>1. DOMAIN m_jsonData.sensors \subseteq IDs
    BY DocumentTypes DEF TypeOK
  <2> QED
    BY <1>4, <2>1 DEF SaveSensor, Save, TypeOK, TransmitterTypeOK
<1>5. CASE sendPairOK
  <2>1. peer \in Transmitters /\ channel \in Channel
    BY <1>5, NetworkAssumption DEF sendPairOK, TypeOK
  <2>2. CASE Answered(peer, channel, m_jsonData.sensorUpdatePeriodMins)
    <3>1. TransmitterTypeOK'
      BY <2>1, <2>2, DocumentTypes, ReceivedType
         DEF Answered, TypeOK, TransmitterTypeOK
    <3> QED
      BY <1>5, <3>1 DEF sendPairOK, TypeOK
  <2>3. CASE UNCHANGED transmitterVars
    BY <1>5, <2>3 DEF sendPairOK, TypeOK, TransmitterTypeOK
  <2> QED
    BY <1>5, <2>2, <2>3, AnswerHeard DEF sendPairOK
<1>6. ASSUME NEW id \in Transmitters \cup {NoID}, SensorData(id)
      PROVE  TypeOK'
  <2>1. Handling
    BY <1>6 DEF SensorData, Received
  <2>2. isSensorMapped(m_jsonData, id) => id \in IDs
    BY DocumentTypes DEF TypeOK, isSensorMapped
  <2> QED
    BY <1>1, <1>6, <2>1, <2>2 DEF SensorData, TypeOK, TransmitterTypeOK
<1> QED
  BY <1>0, <1>2, <1>3, <1>4, <1>5, <1>6 DEF Radio

\* The host's user, network and power.
LEMMA HostTypeOK == ASSUME TypeOK, Host PROVE TypeOK'
<1> USE DEF TransmittersIdle, transmitterVars, ram, document, handler
<1>1. \A c \in Conf : DOMAIN c.sensors \subseteq IDs
  BY DocumentTypes
<1>2. CASE PairingWindow
  BY <1>2 DEF PairingWindow, TypeOK, TransmitterTypeOK
<1>3. ASSUME NEW id \in Transmitters, removeSensorRequest(id)
      PROVE  TypeOK'
  <2>1. m_jsonData' \in Conf /\ DOMAIN m_jsonData.sensors \subseteq IDs
    BY <1>3, DocumentTypes, NetworkAssumption DEF removeSensorRequest, TypeOK
  <2> QED
    BY <1>3, <2>1 DEF removeSensorRequest, TypeOK, TransmitterTypeOK
<1>4. ASSUME NEW minutes \in Period, setProperties(minutes)
      PROVE  TypeOK'
  <2>1. m_jsonData' \in Conf
    BY <1>4, ConfTypes DEF setProperties, TypeOK
  <2>2. DOMAIN m_jsonData'.sensors \subseteq IDs
    BY <1>1, <2>1
  <2> QED
    BY <1>4, <2>1, <2>2 DEF setProperties, Save, TypeOK, TransmitterTypeOK
<1>5. ASSUME NEW f \in Conf, Reboot(f), file' \in Conf
      PROVE  TypeOK'
  <2>1. resets' \in 0..MaxResets
    BY <1>5, NetworkAssumption DEF Reboot, TypeOK
  <2>2. inbox' \in Seq(Frame) /\ Len(inbox') <= QueueLength
    BY <1>5, NetworkAssumption DEF Reboot
  <2> QED
    BY <1>5, <2>1, <2>2 DEF Reboot, TypeOK, TransmitterTypeOK
<1>6. CASE HostReset
  BY <1>5, <1>6 DEF HostReset, TypeOK
<1>7. CASE FactoryReset
  BY <1>5, <1>7, DefaultType DEF FactoryReset
<1> QED
  BY <1>2, <1>3, <1>4, <1>6, <1>7 DEF Host

LEMMA InitTypeOK == NetworkInit => TypeOK
<1> SUFFICES ASSUME NetworkInit PROVE TypeOK
  OBVIOUS
<1>0. 0 \in 0..maxChannels /\ 0 \in 0..(Word - 1)
  BY TransmitterAssumption
<1>1. TransmitterTypeOK
  BY <1>0, Numbers DEF NetworkInit, Init, TransmitterTypeOK
<1>2. inbox \in Seq(Frame) /\ Len(inbox) <= QueueLength
  BY NetworkAssumption DEF NetworkInit
<1>3. m_jsonData \in Conf /\ file \in Conf
  BY DefaultType DEF NetworkInit
<1>4. channel \in HostChannel /\ resets \in 0..MaxResets
  BY NetworkAssumption DEF NetworkInit
<1> QED
  BY <1>1, <1>2, <1>3, <1>4 DEF NetworkInit, TypeOK

LEMMA NextTypeOK == ASSUME TypeOK, [Next]_vars PROVE TypeOK'
<1>1. CASE Radio
  BY <1>1, RadioTypeOK
<1>2. CASE Host
  BY <1>2, HostTypeOK
<1>3. ASSUME NEW t \in Transmitters, Step(t) \/ ResetOf(t)
      PROVE  TypeOK'
  BY <1>3, StepTypeOK
<1>4. CASE UNCHANGED vars
  BY <1>4 DEF vars, transmitterVars, ram, hostVars, document, handler,
              TypeOK, TransmitterTypeOK
<1> QED
  BY <1>1, <1>2, <1>3, <1>4, AirTypeOK DEF Next

\* Whatever is lost, late or reset, every board and the host hold what the code
\* expects, and a handler that is not idle has someone to answer.
THEOREM TypeCorrect == Spec => []TypeOK
  BY InitTypeOK, NextTypeOK, PTL DEF Spec

----------------------------------------------------------------------------
\* What a step of the network is to the transmitters.
LEMMA NextForm ==
  ASSUME TypeOK, [Next]_vars
  PROVE  \/ \E t \in Transmitters : Firmware(t) /\ UNCHANGED document
         \/ /\ sendPairOK
            /\ Answered(peer, channel, m_jsonData.sensorUpdatePeriodMins)
         \/ UNCHANGED transmitterVars
<1>1. CASE Radio
  BY <1>1, AnswerHeard
     DEF Radio, Ignored, Rejected, addNewSensorToStorage, SaveSensor, sendPairOK,
         SensorData, TransmittersIdle
<1>0. CASE Air
  BY <1>0 DEF Air, Overheard
<1>2. CASE Host
  BY <1>2 DEF Host, PairingWindow, removeSensorRequest, setProperties, HostReset,
              FactoryReset, Reboot, TransmittersIdle
<1>3. ASSUME NEW t \in Transmitters, Step(t) \/ ResetOf(t)
      PROVE  Firmware(t) /\ UNCHANGED document
  BY <1>3 DEF Step, SendPairMsg, DataHeard, DataLost, Quietly, ResetOf, HostElse,
              Firmware, hostVars
<1>4. CASE UNCHANGED vars
  BY <1>4 DEF vars
<1> QED
  BY <1>0, <1>1, <1>2, <1>3, <1>4 DEF Next

\* Nothing of transmitter s changes.
Same(s) == /\ at'[s] = at[s] /\ eeprom'[s] = eeprom[s] /\ rtc'[s] = rtc[s]
           /\ configuration'[s] = configuration[s]
           /\ m_transmitterConfig'[s] = m_transmitterConfig[s]
           /\ m_paired'[s] = m_paired[s] /\ timer'[s] = timer[s]

\* A board's firmware changes nothing of the other boards.
LEMMA OnlyOne ==
  ASSUME TransmitterTypeOK, NEW t \in Transmitters, Firmware(t),
         NEW s \in Transmitters, s # t
  PROVE  Same(s)
  BY DEF Firmware, ColdBoot, WakeUp, SetUp, NotPressed, Pressed, NextChannel,
         TryChannel, CantPair, Paired, Erase, Write, saveToRTC, Sleep, Reset,
         LoseRAM, Then, ram, Same, TransmitterTypeOK

----------------------------------------------------------------------------
\* The copies of a board's configuration that agree: the strengthening of
\* OneConfiguration with what saveToRTC relies on.
Agree(t) ==
  /\ at[t] \in {"button", "pairing", "loop"}
       => configuration[t] = eeprom[t] /\ rtc[t] = eeprom[t]
  /\ at[t] = "asleep" => rtc[t] = eeprom[t]
  /\ at[t] = "saveToRTC" => configuration[t] = eeprom[t]

LEMMA FirmwareAgree ==
  ASSUME TransmitterTypeOK, NEW t \in Transmitters, Agree(t), Firmware(t)
  PROVE  Agree(t)'
<1> USE DEF Agree, Then, TransmitterTypeOK
<1>1. CASE ColdBoot(t) \/ WakeUp(t)
  BY <1>1 DEF ColdBoot, WakeUp, SetUp
<1>2. CASE NotPressed(t) \/ CantPair(t) \/ Pressed(t) \/ NextChannel(t)
  BY <1>2 DEF NotPressed, CantPair, Pressed, NextChannel, TryChannel, ram
<1>3. CASE Paired(t) \/ Erase(t) \/ Write(t) \/ saveToRTC(t)
  BY <1>3 DEF Paired, Erase, Write, saveToRTC, ram
<1>4. CASE Sleep(t) \/ Reset(t)
  BY <1>4 DEF Sleep, Reset
<1> QED
  BY <1>1, <1>2, <1>3, <1>4 DEF Firmware

LEMMA NextAgree ==
  ASSUME TypeOK, \A t \in Transmitters : Agree(t), [Next]_vars
  PROVE  \A t \in Transmitters : Agree(t)'
<1> SUFFICES ASSUME NEW s \in Transmitters PROVE Agree(s)'
  OBVIOUS
<1>1. ASSUME NEW t \in Transmitters, Firmware(t)
      PROVE  Agree(s)'
  <2>1. CASE s = t
    BY <1>1, <2>1, FirmwareAgree DEF TypeOK
  <2>2. CASE s # t
    BY <1>1, <2>2, OnlyOne DEF TypeOK, Same, Agree
  <2> QED
    BY <2>1, <2>2
<1>2. ASSUME Answered(peer, channel, m_jsonData.sensorUpdatePeriodMins)
      PROVE  Agree(s)'
  BY <1>2 DEF Answered, Agree
<1>3. CASE UNCHANGED transmitterVars
  BY <1>3 DEF transmitterVars, ram, Agree
<1> QED
  BY <1>1, <1>2, <1>3, NextForm

\* A board that runs its loop or sleeps has one configuration, in RAM, in RTC
\* memory and in EEPROM, wherever resets and power cuts came before.
THEOREM OneConfigurationAlways == Spec => []OneConfiguration
<1> DEFINE Inv == TypeOK /\ \A t \in Transmitters : Agree(t)
<1>1. NetworkInit => Inv
  BY InitTypeOK DEF NetworkInit, Init, Agree
<1>2. Inv /\ [Next]_vars => Inv'
  BY NextTypeOK, NextAgree
<1>3. Inv => OneConfiguration
  BY DEF Agree, OneConfiguration
<1> QED
  BY <1>1, <1>2, <1>3, PTL DEF Spec

----------------------------------------------------------------------------
\* The configurations a board holds.
Held(t) == {eeprom[t], rtc[t], configuration[t], m_transmitterConfig[t]}

Answer == [ID |-> peer, channel |-> channel,
           sensorUpdatePeriodMins |-> m_jsonData.sensorUpdatePeriodMins % Byte]

LEMMA FirmwareHeld ==
  ASSUME TransmitterTypeOK, NEW t \in Transmitters, Firmware(t)
  PROVE  Held(t)' \subseteq Held(t) \cup {NoConfig, Erased}
  BY DEF Firmware, ColdBoot, WakeUp, SetUp, NotPressed, Pressed, NextChannel,
         TryChannel, CantPair, Paired, Erase, Write, saveToRTC, Sleep, Reset,
         LoseRAM, Then, ram, Held, TransmitterTypeOK

\* A board comes to hold only what it held, nothing, or the host's answer.
LEMMA NextHeld ==
  ASSUME TypeOK, [Next]_vars, NEW s \in Transmitters, NEW c \in Held(s)'
  PROVE  \/ c \in Held(s) \cup {NoConfig, Erased}
         \/ sendPairOK /\ peer = s /\ c = Answer
<1>1. ASSUME NEW t \in Transmitters, Firmware(t)
      PROVE  c \in Held(s) \cup {NoConfig, Erased}
  <2>1. CASE s = t
    BY <1>1, <2>1, FirmwareHeld DEF TypeOK
  <2>2. CASE s # t
    BY <1>1, <2>2, OnlyOne DEF TypeOK, Same, Held
  <2> QED
    BY <2>1, <2>2
<1>2. ASSUME sendPairOK,
             Answered(peer, channel, m_jsonData.sensorUpdatePeriodMins)
      PROVE  \/ c \in Held(s) \cup {NoConfig, Erased}
             \/ sendPairOK /\ peer = s /\ c = Answer
  BY <1>2 DEF Answered, Held, Answer, TypeOK, TransmitterTypeOK
<1>3. CASE UNCHANGED transmitterVars
  BY <1>3 DEF transmitterVars, ram, Held
<1> QED
  BY <1>1, <1>2, <1>3, NextForm

----------------------------------------------------------------------------
\* What makes a sleep exact: periods come from the host whole, and the timer
\* from the configuration that is kept.
Exact(t) ==
  /\ \A c \in Held(t) : c.ID # NoID => c.sensorUpdatePeriodMins \in Period
  /\ at[t] = "asleep" => timer[t] = SleepTime(rtc[t])

LEMMA FirmwareTimer ==
  ASSUME TransmitterTypeOK, NEW t \in Transmitters, Agree(t), Exact(t), Firmware(t)
  PROVE  (at[t] = "asleep" => timer[t] = SleepTime(rtc[t]))'
<1> USE DEF Then, TransmitterTypeOK
<1>1. CASE Sleep(t)
  BY <1>1 DEF Sleep, Agree, SleepTime
<1>2. CASE ~Sleep(t)
  BY <1>2 DEF Firmware, ColdBoot, WakeUp, SetUp, NotPressed, Pressed, NextChannel,
              TryChannel, CantPair, Paired, Erase, Write, saveToRTC, Reset
<1> QED
  BY <1>1, <1>2

LEMMA NextExact ==
  ASSUME PeriodsFit, TypeOK, [Next]_vars,
         \A t \in Transmitters : Agree(t) /\ Exact(t)
  PROVE  \A t \in Transmitters : Exact(t)'
<1> SUFFICES ASSUME NEW s \in Transmitters PROVE Exact(s)'
  OBVIOUS
<1>1. ASSUME NEW c \in Held(s)', c.ID # NoID
      PROVE  c.sensorUpdatePeriodMins \in Period
  <2>1. CASE c \in Held(s) \cup {NoConfig, Erased}
    BY <1>1, <2>1, Numbers DEF Exact
  <2>2. CASE c = Answer
    <3> DEFINE minutes == m_jsonData.sensorUpdatePeriodMins
    <3>1. minutes \in Period /\ minutes \in Nat
      BY NetworkAssumption DEF TypeOK, Conf
    <3>2. minutes < Byte
      BY <3>1 DEF PeriodsFit
    <3> HIDE DEF minutes
    <3>3. minutes % Byte = minutes
      BY <3>1, <3>2, Mod, Numbers
    <3> QED
      BY <2>2, <3>1, <3>3 DEF Answer, minutes
  <2> QED
    BY <1>1, <2>1, <2>2, NextHeld
<1>2. (at[s] = "asleep" => timer[s] = SleepTime(rtc[s]))'
  <2>1. ASSUME NEW t \in Transmitters, Firmware(t)
        PROVE  (at[s] = "asleep" => timer[s] = SleepTime(rtc[s]))'
    <3>1. CASE s = t
      BY <2>1, <3>1, FirmwareTimer DEF TypeOK
    <3>2. CASE s # t
      BY <2>1, <3>2, OnlyOne DEF TypeOK, Same, Exact, SleepTime
    <3> QED
      BY <3>1, <3>2
  <2>2. ASSUME Answered(peer, channel, m_jsonData.sensorUpdatePeriodMins)
        PROVE  (at[s] = "asleep" => timer[s] = SleepTime(rtc[s]))'
    BY <2>2 DEF Answered, Exact, SleepTime
  <2>3. CASE UNCHANGED transmitterVars
    BY <2>3 DEF transmitterVars, Exact, SleepTime
  <2> QED
    BY <2>1, <2>2, <2>3, NextForm
<1> QED
  BY <1>1, <1>2 DEF Exact

\* When every period the administrator can specify is below 256 minutes and has
\* fewer microseconds than an unsigned long holds (that is, up to 71 minutes),
\* a paired board sleeps exactly as specified.
THEOREM SleepsExactly == ASSUME PeriodsFit PROVE Spec => []SleepsAsSpecified
<1> DEFINE Inv == TypeOK /\ \A t \in Transmitters : Agree(t) /\ Exact(t)
<1>1. NetworkInit => Inv
  BY InitTypeOK, Numbers DEF NetworkInit, Init, Agree, Exact, Held
<1>2. Inv /\ [Next]_vars => Inv'
  BY NextTypeOK, NextAgree, NextExact
<1>3. Inv => SleepsAsSpecified
  <2> SUFFICES ASSUME Inv, NEW t \in Transmitters, at[t] = "asleep", rtc[t].ID = t
               PROVE  \E minutes \in Period : timer[t] = minutes * UsInMin
    BY DEF SleepsAsSpecified
  <2> DEFINE minutes == rtc[t].sensorUpdatePeriodMins
             us == minutes * UsInMin
  <2>1. minutes \in Period /\ timer[t] = us % Word
    BY TransmitterAssumption DEF Exact, Held, SleepTime
  <2> HIDE DEF minutes
  <2>2. us < Word
    BY <2>1 DEF PeriodsFit
  <2>3. us \in Nat
    BY <2>1, NetworkAssumption, TransmitterAssumption
  <2> HIDE DEF us
  <2>4. us % Word = us
    BY <2>2, <2>3, Mod, TransmitterAssumption
  <2> QED
    BY <2>1, <2>4 DEF us
<1> QED
  BY <1>1, <1>2, <1>3, PTL DEF Spec

----------------------------------------------------------------------------
\* The strengthening of PairedIsKnown: at each point of the handler of a
\* request, who is known and who is about to be.
HostKnows ==
  /\ DOMAIN file.sensors \subseteq known
  /\ \A id \in DOMAIN m_jsonData.sensors :
       id \in known \/ (handling = "save" /\ id = peer)
  /\ handling = "save" => peer \in DOMAIN m_jsonData.sensors \cup known
  /\ handling = "sendPairOK" => peer \in known

BoardsKnown ==
  \A t \in Transmitters : \A c \in Held(t) : c.ID # NoID => t \in known

\* A sensor that is not mapped finds space where there is space for all.
LEMMA SpaceForOneMore ==
  ASSUME SpaceForAll, NEW c \in Conf, NEW id \in IDs, ~isSensorMapped(c, id)
  PROVE  isAvailableSpaceForNextSensor(c)
<1>1. DOMAIN c.sensors \subseteq IDs /\ id \notin DOMAIN c.sensors
  BY SensorMapDomain DEF Conf, isSensorMapped
<1>2. Cardinality(DOMAIN c.sensors) < Cardinality(IDs)
  <2>1. /\ Cardinality(DOMAIN c.sensors) <= Cardinality(IDs)
        /\ Cardinality(DOMAIN c.sensors) = Cardinality(IDs) => DOMAIN c.sensors = IDs
    BY <1>1, IDsAssumption, FS_Subset
  <2> QED
    BY <1>1, <2>1, IDsAssumption, FS_Subset, FS_CardinalityType
<1>3. Cardinality(DOMAIN c.sensors) \in Nat /\ Cardinality(IDs) \in Nat
  BY <1>1, IDsAssumption, FS_Subset, FS_CardinalityType
<1> QED
  BY <1>2, <1>3, MaxAssumption DEF SpaceForAll, isAvailableSpaceForNextSensor

\* The calls change the domain by their own sensor only.
LEMMA Domains ==
  ASSUME NEW c, NEW id
  PROVE  /\ c \in Conf => DOMAIN addSensor(c, id, NoName).sensors
                            \subseteq DOMAIN c.sensors \cup {id}
         /\ c \in Conf /\ isAvailableSpaceForNextSensor(c)
              => id \in DOMAIN addSensor(c, id, NoName).sensors
         /\ c \in Conf => DOMAIN removeSensor(c, id).sensors = DOMAIN c.sensors \ {id}
         /\ \A p : c \in Conf => setSensorUpdatePeriodMins(c, p).sensors = c.sensors
         /\ DOMAIN setDefault.sensors = {}
  BY DEF addSensor, withSensor, removeSensor, setSensorUpdatePeriodMins, setDefault,
         Conf

LEMMA NextHostKnows ==
  ASSUME SpaceForAll, TypeOK, HostKnows, [Next]_vars
  PROVE  HostKnows' /\ known \subseteq known'
<1> USE DEF HostKnows, document, handler
<1>0. CASE Ignored \/ Air
  BY <1>0 DEF Ignored, Handling, Air, Overheard
<1>1. CASE Rejected
  BY <1>1 DEF Rejected, Received, Handling
<1>2. CASE addNewSensorToStorage
  <2> DEFINE id == PairReq[Head(inbox)][4]
  <2>1. /\ Received(PairReq) /\ peer' = id /\ handling = "idle"
        /\ UNCHANGED <<file, known>>
    BY <1>2 DEF addNewSensorToStorage, Received, Handling
  <2>2. id \in IDs
    <3>1. Head(inbox) \in Frame
      BY <2>1 DEF Received, Handling, TypeOK
    <3> QED
      BY <2>1, <3>1, RequestRead, NetworkAssumption DEF Received
  <2>3. CASE isSensorMapped(m_jsonData, id)
    <3>1. handling' = "sendPairOK" /\ m_jsonData' = m_jsonData
      BY <1>2, <2>3 DEF addNewSensorToStorage
    <3> QED
      BY <2>1, <2>3, <3>1 DEF isSensorMapped
  <2>4. CASE ~isSensorMapped(m_jsonData, id)
    <3>1. isAvailableSpaceForNextSensor(m_jsonData)
      BY <2>2, <2>4, SpaceForOneMore DEF TypeOK
    <3>2. handling' = "save" /\ m_jsonData' = addSensor(m_jsonData, id, NoName)
      BY <1>2, <2>4, <3>1 DEF addNewSensorToStorage
    <3>3. /\ DOMAIN m_jsonData'.sensors \subseteq DOMAIN m_jsonData.sensors \cup {id}
          /\ id \in DOMAIN m_jsonData'.sensors
      BY <3>1, <3>2, Domains DEF TypeOK
    <3> QED
      BY <2>1, <3>2, <3>3
  <2> QED
    BY <2>3, <2>4
<1>3. CASE SaveSensor
  BY <1>3 DEF SaveSensor, Save
<1>4. CASE sendPairOK
  BY <1>4 DEF sendPairOK
<1>5. ASSUME NEW id \in Transmitters \cup {NoID}, SensorData(id)
      PROVE  HostKnows' /\ known \subseteq known'
  BY <1>5 DEF SensorData, Received, Handling
<1>6. CASE PairingWindow
  BY <1>6 DEF PairingWindow
<1>7. ASSUME NEW id \in Transmitters, removeSensorRequest(id)
      PROVE  HostKnows' /\ known \subseteq known'
  <2>1. DOMAIN m_jsonData'.sensors = DOMAIN m_jsonData.sensors \ {id}
    BY <1>7, Domains DEF removeSensorRequest, TypeOK
  <2> QED
    BY <1>7, <2>1 DEF removeSensorRequest
<1>8. ASSUME NEW minutes \in Period, setProperties(minutes)
      PROVE  HostKnows' /\ known \subseteq known'
  <2>1. m_jsonData'.sensors = m_jsonData.sensors
    BY <1>8, Domains DEF setProperties, TypeOK
  <2> QED
    BY <1>8, <2>1 DEF setProperties, Save
<1>9. CASE HostReset \/ FactoryReset
  BY <1>9, Domains DEF HostReset, FactoryReset, Reboot
<1>10. ASSUME NEW t \in Transmitters, Step(t) \/ ResetOf(t)
       PROVE  HostKnows' /\ known \subseteq known'
  BY <1>10 DEF Step, SendPairMsg, DataHeard, DataLost, Quietly, ResetOf, HostElse,
               Heard, Lost, hostVars
<1>11. CASE UNCHANGED vars
  BY <1>11 DEF vars, hostVars
<1> QED
  BY <1>0, <1>1, <1>2, <1>3, <1>4, <1>5, <1>6, <1>7, <1>8, <1>9, <1>10, <1>11
     DEF Next, Radio, Host

LEMMA NextBoardsKnown ==
  ASSUME SpaceForAll, TypeOK, HostKnows, BoardsKnown, [Next]_vars
  PROVE  BoardsKnown'
<1> SUFFICES ASSUME NEW t \in Transmitters, NEW c \in Held(t)', c.ID # NoID
             PROVE  t \in known'
  BY DEF BoardsKnown
<1>1. known \subseteq known'
  BY NextHostKnows
<1>2. CASE c \in Held(t) \cup {NoConfig, Erased}
  BY <1>1, <1>2, Numbers DEF BoardsKnown
<1>3. CASE sendPairOK /\ peer = t
  BY <1>1, <1>3 DEF sendPairOK, HostKnows
<1> QED
  BY <1>2, <1>3, NextHeld

\* Where there is space for every sensor, a sensor that holds a configuration is
\* one the host has saved, whichever of them lost power and when, unless an
\* administrator has removed it.
THEOREM PairedAreKnown == ASSUME SpaceForAll PROVE Spec => []PairedIsKnown
<1> DEFINE Inv == TypeOK /\ HostKnows /\ BoardsKnown
<1>1. NetworkInit => Inv
  <2> SUFFICES ASSUME NetworkInit PROVE Inv
    OBVIOUS
  <2>1. HostKnows
    BY Domains DEF NetworkInit, HostKnows
  <2>2. BoardsKnown
    BY Numbers DEF NetworkInit, Init, BoardsKnown, Held
  <2> QED
    BY <2>1, <2>2, InitTypeOK
<1>2. Inv /\ [Next]_vars => Inv'
  BY NextTypeOK, NextHostKnows, NextBoardsKnown
<1>3. Inv => PairedIsKnown
  BY TransmitterAssumption DEF BoardsKnown, Held, PairedIsKnown
<1> QED
  BY <1>1, <1>2, <1>3, PTL DEF Spec
============================================================================
