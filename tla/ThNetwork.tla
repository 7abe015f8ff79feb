----------------------------- MODULE ThNetwork -----------------------------
(***************************************************************************)
(* The host and its transmitters over ESP-NOW.  A frame is heard by a      *)
(* radio on the same channel at the time it is sent, or is lost.  What the *)
(* host hears waits in its Wi-Fi task, which handles one frame at a time   *)
(* and whose answer may therefore come when the transmitter has moved on   *)
(* to the next channel, has given up or is asleep.                         *)
(*                                                                         *)
(* The host is in NORMAL_OPERATION or rebooting; HostTasks has its modes   *)
(* and its handlers in smaller steps.                                      *)
(***************************************************************************)
EXTENDS Transmitter, ConfStorage

CONSTANTS HostChannel,   \* channels the access point of the network may use
          QueueLength,   \* frames the Wi-Fi driver of the host keeps
          MaxResets      \* bound: resets and power cuts of all boards, and frames
                         \* of other networks

ASSUME NetworkAssumption ==
  /\ Transmitters \subseteq IDs
  /\ HostChannel \subseteq Channel /\ HostChannel # {}
  /\ QueueLength \in Nat \ {0} /\ MaxResets \in Nat
  /\ Period \subseteq Nat

VARIABLES
  m_jsonData, file,      \* the document and its file, as in HostTasks
  m_pairingEnabled,
  channel,               \* the channel of the host's station
  inbox,                 \* frames heard and not handled
  handling,              \* what the handler of a PAIR_REQ does next
  peer,                  \* who it answers
  m_readingBuffers,      \* the sensors that have a buffer of readings
  known,                 \* history: the sensors ever in the file, or removed by
                         \* an administrator before they got there
  resets                 \* counter for MaxResets

document == <<m_jsonData, file, known>>
handler  == <<inbox, handling, peer>>
hostVars == <<document, m_pairingEnabled, channel, handler, m_readingBuffers>>
vars == <<transmitterVars, hostVars, resets>>

\* The address that the identifier of a board is made of.
macAddress(t) == <<t>>

PairReqFrame ==
  [t \in Transmitters |->
     serialize(PairReqMsg, <<"PAIR_REQ", signatureTemplate, macAddress(t), t>>)]

PairRespFrame ==
  [ch \in HostChannel |-> [minutes \in Period |->
     serialize(PairRespMsg, <<"PAIR_RESP", signatureTemplate, "hostMacAddr", ch,
                              minutes>>)]]

SensorDataFrame ==
  [id \in Transmitters \cup {NoID} |->
     serialize(SensorDataMsg, <<"SENSOR_DATA", signatureTemplate, id,
                                "temperature", "humidity">>)]

\* A frame of another network is not signed as ours are.
ForeignFrame == {serialize(Header, <<"PAIR_REQ", "other">>)}

Frame == {PairReqFrame[t] : t \in Transmitters}
         \cup {SensorDataFrame[id] : id \in Transmitters \cup {NoID}}
         \cup ForeignFrame

\* What the receivers make of each frame.
PairReq == [frame \in Frame |-> Message("PAIR_REQ", PairReqMsg, frame)]

SensorDatum == [frame \in Frame |-> Message("SENSOR_DATA", SensorDataMsg, frame)]

PairResp ==
  [ch \in HostChannel |-> [minutes \in Period |->
     Message("PAIR_RESP", PairRespMsg, PairRespFrame[ch][minutes])]]

NetworkInit ==
  /\ Init
  /\ m_jsonData = setDefault /\ file = setDefault
  /\ m_pairingEnabled = FALSE
  /\ channel \in HostChannel
  /\ inbox = <<>> /\ handling = "idle" /\ peer = NoID
  /\ m_readingBuffers = {} /\ known = {} /\ resets = 0

\* save() of document c, by the host.
Save(c) == /\ file' = c
           /\ known' = known \cup DOMAIN c.sensors

----------------------------------------------------------------------------
\* The transmitters' sends, from the channel their radio is on by then.

Heard(t, frame) == /\ radio'[t] = channel
                   /\ Len(inbox) < QueueLength
                   /\ inbox' = Append(inbox, frame)
                   /\ UNCHANGED <<handling, peer>>

Lost == UNCHANGED handler

HostElse == UNCHANGED <<document, m_pairingEnabled, channel, m_readingBuffers,
                        resets>>

SendPairMsg(t) == /\ Pressed(t) \/ NextChannel(t)
                  /\ Heard(t, PairReqFrame[t]) \/ Lost
                  /\ HostElse

DataHeard(t) == /\ radio[t] = channel
                /\ Len(inbox) < QueueLength
                /\ inbox' = Append(inbox, SensorDataFrame[configuration[t].ID])
                /\ Sleep(t)
                /\ HostElse /\ UNCHANGED <<handling, peer>>

DataLost(t) == Sleep(t) /\ Lost /\ HostElse

\* Steps that send nothing.
Quietly(t) == /\ \/ ColdBoot(t) \/ WakeUp(t) \/ NotPressed(t) \/ CantPair(t)
                 \/ Paired(t) \/ Erase(t) \/ Write(t) \/ saveToRTC(t)
              /\ UNCHANGED hostVars /\ UNCHANGED resets

ResetOf(t) == /\ resets < MaxResets
              /\ resets' = resets + 1
              /\ Reset(t)
              /\ UNCHANGED hostVars

----------------------------------------------------------------------------
\* The host's radio: EspNowServer::onDataRecv.

TransmittersIdle == UNCHANGED <<transmitterVars, resets>>

Overheard(frame) ==
  /\ resets < MaxResets
  /\ resets' = resets + 1
  /\ Len(inbox) < QueueLength
  /\ inbox' = Append(inbox, frame)
  /\ UNCHANGED <<transmitterVars, document, m_pairingEnabled, channel, handling,
                 peer, m_readingBuffers>>

Handling == handling = "idle" /\ inbox # <<>>

Received(Messages) == Handling /\ Messages[Head(inbox)] # nullopt

Ignored ==
  /\ Handling /\ ~Received(PairReq) /\ ~Received(SensorDatum)
  /\ inbox' = Tail(inbox)
  /\ UNCHANGED <<document, m_pairingEnabled, channel, handling, peer,
                 m_readingBuffers>>
  /\ TransmittersIdle

Rejected ==
  /\ Received(PairReq) /\ ~m_pairingEnabled
  /\ inbox' = Tail(inbox)
  /\ UNCHANGED <<document, m_pairingEnabled, channel, handling, peer,
                 m_readingBuffers>>
  /\ TransmittersIdle

\* A sensor that is new is saved before it is answered; one that is paired, or
\* for which there is no space, is only answered.
addNewSensorToStorage ==
  LET id    == PairReq[Head(inbox)][4]
      added == /\ ~isSensorMapped(m_jsonData, id)
               /\ isAvailableSpaceForNextSensor(m_jsonData)
  IN  /\ Received(PairReq) /\ m_pairingEnabled
      /\ inbox' = Tail(inbox)
      /\ peer' = id
      /\ handling' = IF added THEN "save" ELSE "sendPairOK"
      /\ m_jsonData' = IF added THEN addSensor(m_jsonData, id, NoName)
                                ELSE m_jsonData
      /\ UNCHANGED <<file, known, m_pairingEnabled, channel, m_readingBuffers>>
      /\ TransmittersIdle

\* Mutation: the file is not written.
saveNothing ==
  /\ handling = "save"
  /\ handling' = "sendPairOK"
  /\ UNCHANGED <<document, m_pairingEnabled, channel, inbox, peer,
                 m_readingBuffers>>
  /\ TransmittersIdle

SaveSensor ==
  /\ handling = "save"
  /\ Save(m_jsonData)
  /\ handling' = "sendPairOK"
  /\ UNCHANGED <<m_jsonData, m_pairingEnabled, channel, inbox, peer,
                 m_readingBuffers>>
  /\ TransmittersIdle

sendPairOK ==
  /\ handling = "sendPairOK"
  /\ handling' = "idle" /\ peer' = NoID
  /\ \/ /\ Awake(peer) /\ radio[peer] = channel
        /\ onDataRecv(peer, PairResp[channel][m_jsonData.sensorUpdatePeriodMins])
     \/ UNCHANGED transmitterVars
  /\ UNCHANGED <<document, m_pairingEnabled, channel, inbox, m_readingBuffers,
                 resets>>

\* Mutation: readings of sensors that are not paired are stored too.
storeUnchecked(id) ==
  /\ Received(SensorDatum) /\ SensorDatum[Head(inbox)][3] = id
  /\ inbox' = Tail(inbox)
  /\ m_readingBuffers' = m_readingBuffers \cup {id}
  /\ UNCHANGED <<document, m_pairingEnabled, channel, handling, peer>>
  /\ TransmittersIdle

\* newReadingsCb: addReading makes the buffer of a sensor at its first reading.
SensorData(id) ==
  /\ Received(SensorDatum) /\ SensorDatum[Head(inbox)][3] = id
  /\ inbox' = Tail(inbox)
  /\ m_readingBuffers' = IF isSensorMapped(m_jsonData, id)
                         THEN m_readingBuffers \cup {id} ELSE m_readingBuffers
  /\ UNCHANGED <<document, m_pairingEnabled, channel, handling, peer>>
  /\ TransmittersIdle

----------------------------------------------------------------------------
\* The host's user, its network and its power.

PairingWindow ==
  /\ m_pairingEnabled' = ~m_pairingEnabled
  /\ UNCHANGED <<document, channel, handler, m_readingBuffers>>
  /\ TransmittersIdle

removeSensorRequest(id) ==
  /\ isSensorMapped(m_jsonData, id)
  /\ m_jsonData' = removeSensor(m_jsonData, id)
  /\ file' = m_jsonData'
  /\ known' = known \cup DOMAIN m_jsonData.sensors
  /\ UNCHANGED <<m_pairingEnabled, channel, handler, m_readingBuffers>>
  /\ TransmittersIdle

setProperties(minutes) ==
  /\ m_jsonData' = setSensorUpdatePeriodMins(m_jsonData, minutes)
  /\ Save(m_jsonData')
  /\ UNCHANGED <<m_pairingEnabled, channel, handler, m_readingBuffers>>
  /\ TransmittersIdle

\* A boot, on the channel the access point has by then.
Reboot(f) ==
  /\ resets < MaxResets
  /\ resets' = resets + 1
  /\ m_jsonData' = f
  /\ m_pairingEnabled' = FALSE
  /\ channel' \in HostChannel
  /\ inbox' = <<>> /\ handling' = "idle" /\ peer' = NoID
  /\ m_readingBuffers' = {}
  /\ UNCHANGED <<transmitterVars, known>>

HostReset == Reboot(file) /\ UNCHANGED file

FactoryReset == Reboot(setDefault) /\ file' = setDefault

----------------------------------------------------------------------------
Radio == \/ Ignored \/ Rejected \/ addNewSensorToStorage \/ SaveSensor \/ sendPairOK
         \/ \E id \in Transmitters \cup {NoID} : SensorData(id)

Host == \/ PairingWindow \/ HostReset \/ FactoryReset
        \/ \E id \in Transmitters : removeSensorRequest(id)
        \/ \E minutes \in Period : setProperties(minutes)

Air == \E frame \in ForeignFrame : Overheard(frame)

Step(t) == SendPairMsg(t) \/ DataHeard(t) \/ DataLost(t) \/ Quietly(t)

Next == \/ Radio \/ Host \/ Air
        \/ \E t \in Transmitters : Step(t) \/ ResetOf(t)

Spec == NetworkInit /\ [][Next]_vars

\* Firmware runs on as long as it is powered and its timer is set; the radio
\* does not lose every frame.
Fairness ==
  /\ WF_vars(Radio)
  /\ \A t \in Transmitters :
       /\ WF_vars(at[t] # "asleep" /\ Step(t))
       /\ WF_vars(timer[t] # 0 /\ Quietly(t))
       /\ SF_vars(DataHeard(t))

FairSpec == Spec /\ Fairness

----------------------------------------------------------------------------
\* The types of both sides, and what the handler of a request relies on.
TypeOK ==
  /\ TransmitterTypeOK
  /\ m_jsonData \in Conf /\ file \in Conf
  /\ m_pairingEnabled \in BOOLEAN
  /\ channel \in HostChannel
  /\ inbox \in Seq(Frame) /\ Len(inbox) <= QueueLength
  /\ handling \in {"idle", "save", "sendPairOK"}
  /\ peer \in Transmitters \cup {NoID}
  /\ handling # "idle" => peer \in Transmitters
  /\ m_readingBuffers \subseteq IDs /\ known \subseteq IDs
  /\ resets \in 0..MaxResets

\* A transmitter that was told it is paired was in the host's file: no loss of
\* power of either side between the answer and the save leaves it paired with a
\* host that never knew it.  "Once paired, the transmitter will become visible
\* in the Admin view" (README.md:45).
PairedIsKnown ==
  \A t \in Transmitters :
    m_transmitterConfig[t].ID = t \/ eeprom[t].ID = t \/ rtc[t].ID = t
      => t \in known

\* "The transmitter enters deep sleep mode for a specified period"
\* (README.md:18): a paired board sleeps for as many minutes as the
\* administrator has ever specified, in microseconds that fit the word.
SleepsAsSpecified ==
  \A t \in Transmitters :
    at[t] = "asleep" /\ rtc[t].ID = t
      => \E minutes \in Period : timer[t] = minutes * UsInMin

\* The boards agree: the host knows the sensor, the sensor the host's channel,
\* and the button is not held at each wake.
Settled(t) == /\ at[t] # "pairing"
              /\ isSensorMapped(m_jsonData, t)
              /\ eeprom[t].ID = t /\ eeprom[t].channel = channel

\* A settled transmitter is heard again and again, after whatever resets,
\* failed pairings and lost frames came before (App.cpp:52-59,
\* EspNowServer.cpp:87-95).
ReadingsArrive ==
  \A t \in Transmitters :
    <>[]Settled(t) => []<><<SensorData(t)>>_vars
============================================================================
