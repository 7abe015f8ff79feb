---------------------------- MODULE Transmitter ----------------------------
(***************************************************************************)
(* The firmware of the transmitters (src/src/transmitter): one pass of     *)
(* setup() and loop() from a boot to the next deep sleep, and the two      *)
(* copies of the configuration that outlive it, in EEPROM and in RTC       *)
(* memory.  A reset or a power cut may come between any two steps.         *)
(*                                                                         *)
(* Every action is of one transmitter.  What it sends and hears is added   *)
(* by ThNetwork, which conjoins the radio to the actions here.             *)
(***************************************************************************)
EXTENDS Frames

CONSTANTS Transmitters,   \* the boards, by the ID made of their MAC address
          NoID,           \* an ID no board has
          maxChannels,    \* the last channel pair() tries, 12 in the source
          LastChannel,    \* the last channel there is, 14
          Byte,           \* 256: the period is kept in a uint8_t
          UsInMin,        \* m_usInMin, in the unit of the model
          Word            \* the width of unsigned long, in the same unit

ASSUME TransmitterAssumption ==
  /\ NoID \notin Transmitters
  /\ maxChannels \in Nat /\ LastChannel \in 1..(Byte - 2)
  /\ Byte \in Nat /\ UsInMin \in Nat \ {0} /\ Word \in Nat \ {0}

VARIABLES
  at,                    \* what the firmware does next
  eeprom, rtc,           \* the two stored configurations
  configuration,         \* App::m_currentConfiguration
  m_transmitterConfig,   \* what the last PAIR_RESP said
  m_paired,              \* one was heard since pair() began
  try,                   \* the channel pair() is trying
  radio,                 \* the channel the radio is on
  timer                  \* deep sleep until the timer wakes the board

ram == <<configuration, m_transmitterConfig, m_paired, try, radio>>
transmitterVars == <<at, eeprom, rtc, ram, timer>>

Channel == 1..LastChannel

\* The host's address comes and goes with the ID and is left out.
TransmitterConfig ==
  [ID                     : Transmitters \cup {NoID},
   channel                : 0..(Byte - 1),
   sensorUpdatePeriodMins : 0..(Byte - 1)]

NoConfig == [ID |-> NoID, channel |-> 0, sensorUpdatePeriodMins |-> 0]

\* All bits set: what an erased sector reads as.
Erased ==
  [ID |-> NoID, channel |-> Byte - 1, sensorUpdatePeriodMins |-> Byte - 1]

Awake(t) == at[t] \notin {"off", "asleep"}

Then(t, step) == at' = [at EXCEPT ![t] = step]

\* The radio stays where it is when told a channel there is not.
setChannel(current, channel) == IF channel \in Channel THEN channel ELSE current

Init ==
  /\ at                  = [t \in Transmitters |-> "off"]
  /\ eeprom              = [t \in Transmitters |-> Erased]
  /\ rtc                 = [t \in Transmitters |-> Erased]
  /\ configuration       = [t \in Transmitters |-> NoConfig]
  /\ m_transmitterConfig = [t \in Transmitters |-> NoConfig]
  /\ m_paired            = [t \in Transmitters |-> FALSE]
  /\ try                 = [t \in Transmitters |-> 0]
  /\ radio               = [t \in Transmitters |-> 1]
  /\ timer               = [t \in Transmitters |-> 0]

\* Mutation: the radio is not told the channel.
channelNotSet(t, read) ==
  /\ configuration' = [configuration EXCEPT ![t] = read]
  /\ timer' = [timer EXCEPT ![t] = 0]
  /\ Then(t, "button")
  /\ UNCHANGED <<eeprom, m_transmitterConfig, m_paired, try, radio>>

\* setup() with the configuration it read: EspNow::init.
SetUp(t, read) ==
  /\ configuration' = [configuration EXCEPT ![t] = read]
  /\ radio' = [radio EXCEPT ![t] = setChannel(@, read.channel)]
  /\ timer' = [timer EXCEPT ![t] = 0]
  /\ Then(t, "button")
  /\ UNCHANGED <<eeprom, m_transmitterConfig, m_paired, try>>

ColdBoot(t) ==
  /\ at[t] = "off"
  /\ SetUp(t, eeprom[t])
  /\ rtc' = [rtc EXCEPT ![t] = eeprom[t]]

\* By the timer, or by a reset button that still reads as the end of a sleep.
WakeUp(t) ==
  /\ at[t] = "asleep"
  /\ SetUp(t, rtc[t])
  /\ UNCHANGED rtc

NotPressed(t) ==
  /\ at[t] = "button"
  /\ Then(t, "loop")
  /\ UNCHANGED <<eeprom, rtc, ram, timer>>

\* One turn of the loop of pair(): the caller sends the request.
TryChannel(t, channel) ==
  /\ try' = [try EXCEPT ![t] = channel]
  /\ radio' = [radio EXCEPT ![t] = setChannel(@, channel)]
  /\ Then(t, "pairing")
  /\ UNCHANGED <<eeprom, rtc, configuration, m_transmitterConfig, timer>>

Pressed(t) ==
  /\ at[t] = "button"
  /\ m_paired' = [m_paired EXCEPT ![t] = FALSE]
  /\ TryChannel(t, 0)

NextChannel(t) ==
  /\ at[t] = "pairing" /\ ~m_paired[t]
  /\ try[t] < maxChannels
  /\ TryChannel(t, try[t] + 1)
  /\ UNCHANGED m_paired

CantPair(t) ==
  /\ at[t] = "pairing" /\ ~m_paired[t]
  /\ try[t] = maxChannels
  /\ Then(t, "loop")
  /\ UNCHANGED <<eeprom, rtc, ram, timer>>

Paired(t) ==
  /\ at[t] = "pairing" /\ m_paired[t]
  /\ configuration' = [configuration EXCEPT ![t] = m_transmitterConfig[t]]
  /\ Then(t, "erase")
  /\ UNCHANGED <<eeprom, rtc, m_transmitterConfig, m_paired, try, radio, timer>>

\* EEPROM.commit() erases the sector before it writes it.
Erase(t) ==
  /\ at[t] = "erase"
  /\ eeprom' = [eeprom EXCEPT ![t] = Erased]
  /\ Then(t, "write")
  /\ UNCHANGED <<rtc, ram, timer>>

\* Mutation: setup() forgets saveToRTC.
writeOnly(t) ==
  /\ at[t] = "write"
  /\ eeprom' = [eeprom EXCEPT ![t] = configuration[t]]
  /\ Then(t, "loop")
  /\ UNCHANGED <<rtc, ram, timer>>

Write(t) ==
  /\ at[t] = "write"
  /\ eeprom' = [eeprom EXCEPT ![t] = configuration[t]]
  /\ Then(t, "saveToRTC")
  /\ UNCHANGED <<rtc, ram, timer>>

saveToRTC(t) ==
  /\ at[t] = "saveToRTC"
  /\ rtc' = [rtc EXCEPT ![t] = configuration[t]]
  /\ Then(t, "loop")
  /\ UNCHANGED <<eeprom, ram, timer>>

\* uint8_t times unsigned long.
SleepTime(c) == (c.sensorUpdatePeriodMins * UsInMin) % Word

LoseRAM(t) ==
  /\ configuration' = [configuration EXCEPT ![t] = NoConfig]
  /\ m_transmitterConfig' = [m_transmitterConfig EXCEPT ![t] = NoConfig]
  /\ m_paired' = [m_paired EXCEPT ![t] = FALSE]
  /\ try' = [try EXCEPT ![t] = 0]
  /\ radio' = [radio EXCEPT ![t] = 1]

\* loop(): one reading is sent by the caller, then the board sleeps.
Sleep(t) ==
  /\ at[t] = "loop"
  /\ timer' = [timer EXCEPT ![t] = SleepTime(configuration[t])]
  /\ LoseRAM(t)
  /\ Then(t, "asleep")
  /\ UNCHANGED <<eeprom, rtc>>

\* A reset keeps the RTC memory, a power cut does not.
Reset(t) ==
  /\ at[t] # "off"
  /\ LoseRAM(t)
  /\ \/ UNCHANGED rtc
     \/ rtc' = [rtc EXCEPT ![t] = Erased]
  /\ timer' = [timer EXCEPT ![t] = 0]
  /\ Then(t, "off")
  /\ UNCHANGED eeprom

\* Mutation: the two numbers of a PAIR_RESP are swapped.
swapFields(t, msg) ==
  /\ m_paired' = [m_paired EXCEPT ![t] = TRUE]
  /\ m_transmitterConfig' = [m_transmitterConfig EXCEPT ![t] =
       [ID |-> t, channel |-> msg[5] % Byte, sensorUpdatePeriodMins |-> msg[4]]]
  /\ UNCHANGED <<at, eeprom, rtc, configuration, try, radio, timer>>

\* EspNow::onDataRecv of a PAIR_RESP, which comes while a step delays.
onDataRecv(t, msg) ==
  /\ m_paired' = [m_paired EXCEPT ![t] = TRUE]
  /\ m_transmitterConfig' = [m_transmitterConfig EXCEPT ![t] =
       [ID |-> t, channel |-> msg[4], sensorUpdatePeriodMins |-> msg[5] % Byte]]
  /\ UNCHANGED <<at, eeprom, rtc, configuration, try, radio, timer>>

----------------------------------------------------------------------------
TransmitterTypeOK ==
  /\ at \in [Transmitters -> {"off", "button", "pairing", "erase", "write",
                              "saveToRTC", "loop", "asleep"}]
  /\ eeprom \in [Transmitters -> TransmitterConfig]
  /\ rtc \in [Transmitters -> TransmitterConfig]
  /\ configuration \in [Transmitters -> TransmitterConfig]
  /\ m_transmitterConfig \in [Transmitters -> TransmitterConfig]
  /\ m_paired \in [Transmitters -> BOOLEAN]
  /\ try \in [Transmitters -> 0..maxChannels]
  /\ radio \in [Transmitters -> Channel]
  /\ timer \in [Transmitters -> 0..(Word - 1)]

\* Whatever resets came before, a board that runs its loop or sleeps has one
\* configuration: what it uses, or will read on waking, is what a power cut
\* would leave it with (App.cpp:19-27, 39-40).
OneConfiguration ==
  \A t \in Transmitters :
    /\ at[t] \in {"button", "pairing", "loop"}
         => configuration[t] = eeprom[t] /\ rtc[t] = eeprom[t]
    /\ at[t] = "asleep" => rtc[t] = eeprom[t]
============================================================================
