--------------------------- MODULE HostLoopProofs ---------------------------
(***************************************************************************)
(* For any width of the clock, any timeouts and any number of crashes: the *)
(* timers of the host's loop run where something waits for them, the       *)
(* window is open for its period, the LED shows it, and only a long click  *)
(* gives a board that had a network factory settings.                      *)
(***************************************************************************)
EXTENDS HostLoop, TLAPS

\* The connection's timer runs while there are tries left.
TriesLeft == timer["connection"] # Stopped => retries < MaxRetries

\* How far startServices is, and the mode.
Services ==
  /\ step = "startServer" <=> services = "radio"
  /\ services = "radio" => m_mode = "STARTING_SERVICES"
  /\ m_mode = "STARTING_SERVICES" => services # "page"
  /\ m_mode = "NORMAL_OPERATION" => services = "page"
  /\ m_mode = "WAITING_FOR_WIFI" => services = "none"
  /\ m_pairingEnabled => services = "page"

\* The clock tells how long the window is open, and PairingDisabled does not
\* miss its time.
Open ==
  m_pairingEnabled /\ DeadlineFits =>
    /\ now = timer["pairing"] + openFor
    /\ openFor < PairingTimeout + MaxPass
    /\ step = "end" => openFor < PairingTimeout

\* A press that is not long yet is as long as the clock says.
Held ==
  pairButton # Up /\ heldFor < LongClick =>
    (now + Word - pairButton) % Word = heldFor

IInv == /\ TypeOK /\ TimersRun /\ Blinks
        /\ TriesLeft /\ Services /\ Open /\ Held

----------------------------------------------------------------------------
LEMMA Constants ==
  /\ Word \in Nat \ {0} /\ 0 \in Time /\ MaxPass \in Nat \ {0} /\ MaxPass < Word
  /\ LongClick \in Nat \ {0} /\ LongClick < Word
  /\ PairingTimeout \in Nat \ {0} /\ PairingTimeout < Word
  /\ Retry \in Nat /\ HostingTimeout \in Nat
  /\ MaxRetries \in Nat \ {0} /\ MaxCrashes \in Nat
  /\ Stopped \notin Time /\ Up \notin Time
  BY LoopAssumption DEF Time

LEMMA ModTwice ==
  ASSUME NEW L \in Nat \ {0}, NEW x \in Nat, x < 2 * L
  PROVE  x % L = IF x < L THEN x ELSE x - L
  OBVIOUS

\* What a boot, a release and the end of a window count from.
LEMMA Zeros ==
  /\ 0 \in Time /\ 0 \in 0..MaxRetries /\ 0 \in 0..MaxCrashes
  /\ 0 \in 0..(PairingTimeout + MaxPass) /\ 0 \in 0..LongClick
  BY Constants

\* The clock after d more.
LEMMA Passes ==
  ASSUME NEW t \in Time, NEW d \in 0..MaxPass
  PROVE  /\ (t + d) % Word \in Time
         /\ (t + d) % Word = IF t + d < Word THEN t + d ELSE t + d - Word
<1> DEFINE sum == t + d
<1>1. sum \in Nat /\ sum < 2 * Word
  BY Constants DEF Time
<1>2. sum % Word = IF sum < Word THEN sum ELSE sum - Word
  <2> HIDE DEF sum
  <2> QED
    BY <1>1, ModTwice, Constants
<1> QED
  BY <1>1, <1>2, Constants DEF Time

\* How long ago p was, by a clock that may have wrapped once since.
LEMMA Ago ==
  ASSUME NEW t \in Time, NEW p \in Time
  PROVE  (t + Word - p) % Word = IF t >= p THEN t - p ELSE t + Word - p
<1> DEFINE gap == t + Word - p
<1>1. gap \in Nat /\ gap < 2 * Word
  BY Constants DEF Time
<1>2. gap % Word = IF gap < Word THEN gap ELSE gap - Word
  <2> HIDE DEF gap
  <2> QED
    BY <1>1, ModTwice, Constants
<1> QED
  BY <1>2, Constants DEF Time

\* A press that is not a long one yet, d later.
LEMMA HeldOn ==
  ASSUME NEW t \in Time, NEW p \in Time, NEW d \in 0..MaxPass, NEW h \in Nat,
         (t + Word - p) % Word = h, h + d < Word
  PROVE  (((t + d) % Word) + Word - p) % Word = h + d
<1>1. (t + d) % Word \in Time
  BY Passes
<1>2. (((t + d) % Word) + Word - p) % Word
        = IF (t + d) % Word >= p THEN ((t + d) % Word) - p
                                 ELSE ((t + d) % Word) + Word - p
  BY <1>1, Ago
<1>3. (t + d) % Word = IF t + d < Word THEN t + d ELSE t + d - Word
  BY Passes
<1>4. h = IF t >= p THEN t - p ELSE t + Word - p
  BY Ago
<1> QED
  BY <1>2, <1>3, <1>4, Constants DEF Time

----------------------------------------------------------------------------
LEMMA InitIInv == Init => IInv
<1> SUFFICES ASSUME Init PROVE IInv
  OBVIOUS
<1>1. timer = [t \in TimerName |-> IF t = "configuration" THEN 0 ELSE Stopped]
  BY DEF Init, NoTimer
<1>2. TypeOK
  <2>1. timer \in [TimerName -> Time \cup {Stopped}]
    BY <1>1, Zeros DEF TimerName
  <2> QED
    BY <2>1, Zeros DEF Init, TypeOK
<1>3. TimersRun /\ TriesLeft
  BY <1>1, Constants DEF Init, TimersRun, TriesLeft, TimerName
<1>4. Blinks /\ Services /\ Open /\ Held
  BY DEF Init, Blinks, Services, Open, Held
<1> QED
  BY <1>2, <1>3, <1>4 DEF IInv

LEMMA BootIInv ==
  ASSUME TypeOK, NEW saved \in {"blank", "defaults", "network"}, Boot(saved), crashes' \in 0..MaxCrashes
  PROVE  IInv'
<1>1. timer' \in [TimerName -> Time \cup {Stopped}]
  BY Zeros DEF Boot, NoTimer
<1>2. TypeOK'
  BY <1>1, Zeros DEF Boot, TypeOK
<1>3. TimersRun' /\ TriesLeft'
  BY Constants DEF Boot, NoTimer, TimersRun, TriesLeft, TimerName
<1>4. Blinks' /\ Services' /\ Open' /\ Held'
  BY DEF Boot, Blinks, Services, Open, Held
<1> QED
  BY <1>2, <1>3, <1>4 DEF IInv

\* The actions that end in a boot, and those of the outside.
LEMMA OutsideIInv ==
  ASSUME IInv, \/ CannotConnect \/ EarlyReading \/ FactoryReset \/ HostingEnds
               \/ setWifi \/ PowerLoss \/ AccessPoint
  PROVE  IInv'
<1>1. TypeOK
  BY DEF IInv
<1>2. crashes < MaxCrashes /\ crashes' = crashes + 1
        => crashes' \in 0..MaxCrashes
  BY <1>1, Constants DEF TypeOK
<1>3. ASSUME Crash PROVE IInv'
  BY <1>1, <1>2, <1>3, BootIInv DEF Crash, TypeOK
<1>4. CASE CannotConnect \/ FactoryReset \/ HostingEnds \/ setWifi
  BY <1>1, <1>4, BootIInv
     DEF CannotConnect, FactoryReset, HostingEnds, setWifi, TypeOK
<1>5. CASE EarlyReading \/ PowerLoss
  BY <1>3, <1>5 DEF EarlyReading, PowerLoss
<1>6. CASE AccessPoint
  <2>1. TypeOK'
    BY <1>1, <1>6 DEF AccessPoint, TypeOK, app, wifi, buttons, history
  <2> QED
    BY <1>6, <2>1 DEF IInv, AccessPoint, app, wifi, buttons, history, TimersRun,
       Blinks, TriesLeft, Services, Open, DeadlineFits, Held
<1> QED
  BY <1>4, <1>5, <1>6

LEMMA ModeIInv == ASSUME IInv, Mode PROVE IInv'
<1> USE DEF IInv, app, wifi, buttons, world, history, Goto, Quiet
<1>1. CASE SameMode
  BY <1>1 DEF SameMode, TypeOK, TimersRun, Blinks, TriesLeft, Services, Open,
     DeadlineFits, Held
<1>2. CASE Connected
  BY <1>2 DEF Connected, TypeOK, TimersRun, Blinks, TriesLeft, Services, Open,
     DeadlineFits, Held
<1>3. CASE CannotConnect
  BY <1>3, OutsideIInv
<1>4. CASE StartRadio
  BY <1>4 DEF StartRadio, TypeOK, TimersRun, Blinks, TriesLeft, Services, Open,
     DeadlineFits, Held
<1>5. CASE StartServer
  BY <1>5 DEF StartServer, TypeOK, TimersRun, Blinks, TriesLeft, Services, Open,
     DeadlineFits, Held
<1> QED
  BY <1>1, <1>2, <1>3, <1>4, <1>5 DEF Mode

----------------------------------------------------------------------------
LEMMA StartType ==
  ASSUME TypeOK, NEW t \in TimerName
  PROVE  /\ Start(t) \in [TimerName -> Time \cup {Stopped}]
         /\ [timer EXCEPT ![t] = Stopped] \in [TimerName -> Time \cup {Stopped}]
         /\ Start(t)[t] = now
         /\ \A other \in TimerName \ {t} : Start(t)[other] = timer[other]
  BY DEF Start, TypeOK

LEMMA OpeningIInv == ASSUME IInv, PairClick PROVE IInv'
<1> USE DEF IInv, PairClick, Released, Goto
<1>1. /\ pairButton' = Up /\ heldFor' = 0 /\ Held'
      /\ step = "pairButton" /\ step' = "wifiButton"
      /\ UNCHANGED <<now, m_mode, services, m_status, retries, wifiDown,
                     file, network, crashes>>
  BY DEF Held, wifi, world
<1>2. CASE /\ services = "page" /\ ~m_pairingEnabled
           /\ m_pairingEnabled' = TRUE /\ led' = "blinking"
           /\ timer' = Start("pairing") /\ openFor' = 0
  <2>1. /\ timer' \in [TimerName -> Time \cup {Stopped}]
        /\ timer'["pairing"] = now
        /\ timer'["connection"] = timer["connection"]
        /\ timer'["configuration"] = timer["configuration"]
    BY <1>2, StartType DEF TimerName
  <2>2. now \in Time /\ now # Stopped
    BY Constants DEF TypeOK
  <2>3. TypeOK'
    BY <1>1, <1>2, <2>1, Zeros DEF TypeOK, TimerName
  <2>4. TimersRun' /\ TriesLeft'
    BY <1>1, <1>2, <2>1, <2>2 DEF TimersRun, TriesLeft
  <2>5. Blinks' /\ Services'
    BY <1>1, <1>2 DEF Blinks, Services
  <2>6. Open'
    BY <1>1, <1>2, <2>1, <2>2, Constants DEF Open, Time
  <2> QED
    BY <1>1, <2>3, <2>4, <2>5, <2>6
<1>3. CASE UNCHANGED <<m_pairingEnabled, led, timer, openFor>>
  <2>1. TypeOK'
    BY <1>1, <1>3, Zeros DEF TypeOK, TimerName
  <2> QED
    BY <1>1, <1>3, <2>1 DEF TimersRun, Blinks, TriesLeft, Services, Open,
       DeadlineFits
<1> QED
  BY <1>2, <1>3 DEF enablePairingForPeriod

LEMMA ButtonsIInv == ASSUME IInv, Buttons PROVE IInv'
<1> USE DEF IInv, app, wifi, buttons, world, history, Goto, Quiet
<1>1. CASE NoEdge \/ WifiNoEdge \/ WifiPress
  <2>1. TypeOK'
    BY <1>1, ZenonT(60) DEF NoEdge, WifiNoEdge, WifiPress, TimerName, TypeOK
  <2> QED
    BY <1>1, <2>1 DEF NoEdge, WifiNoEdge, WifiPress, TimersRun, Blinks, TriesLeft,
       Services, Open, DeadlineFits, Held
<1>2. CASE Press
  <2>1. now \in Time /\ (now + Word - now) % Word = 0
    <3>1. now \in Time
      BY DEF TypeOK
    <3> QED
      BY <3>1, Ago DEF Time
  <2>2. TypeOK'
    BY <1>2, <2>1, Zeros DEF Press, TypeOK
  <2>3. Held'
    BY <1>2, <2>1 DEF Press, Held
  <2> QED
    BY <1>2, <2>2, <2>3 DEF Press, TimersRun, Blinks, TriesLeft, Services, Open,
       DeadlineFits
<1>3. CASE FactoryReset
  BY <1>3, OutsideIInv
<1>4. CASE PairClick
  BY <1>4, OpeningIInv
<1>5. CASE startWebWifiConfiguration
  <2>1. /\ timer' \in [TimerName -> Time \cup {Stopped}]
        /\ timer'["configuration"] = now
        /\ timer'["connection"] = timer["connection"]
        /\ timer'["pairing"] = timer["pairing"]
    BY <1>5, StartType DEF startWebWifiConfiguration, TimerName
  <2>2. now # Stopped
    BY Constants DEF TypeOK
  <2>3. TypeOK'
    BY <1>5, <2>1 DEF startWebWifiConfiguration, TypeOK, TimerName
  <2>4. TimersRun' /\ TriesLeft'
    BY <1>5, <2>1, <2>2 DEF startWebWifiConfiguration, TimersRun, TriesLeft
  <2>5. Blinks' /\ Services'
    BY <1>5 DEF startWebWifiConfiguration, Blinks, Services
  <2>6. Open' /\ Held'
    BY <1>5, <2>1 DEF startWebWifiConfiguration, Open, DeadlineFits, Held
  <2> QED
    BY <2>3, <2>4, <2>5, <2>6
<1> QED
  BY <1>1, <1>2, <1>3, <1>4, <1>5 DEF Buttons

----------------------------------------------------------------------------
\* By a deadline that fits, a timer is due when its period is over.
LEMMA DueInTime ==
  ASSUME IInv, m_pairingEnabled, DeadlineFits
  PROVE  Due("pairing", PairingTimeout) <=> openFor >= PairingTimeout
<1>1. /\ timer["pairing"] \in Time /\ timer["pairing"] # Stopped
      /\ now = timer["pairing"] + openFor /\ openFor \in Nat
  BY Constants DEF IInv, TimersRun, TypeOK, TimerName, Open
<1> DEFINE deadline == PairingTimeout + timer["pairing"]
<1>2. deadline \in Nat /\ deadline < Word
  BY <1>1, Constants DEF DeadlineFits, Time
<1>3. deadline % Word = deadline
  <2> HIDE DEF deadline
  <2> QED
    BY <1>2, ModTwice, Constants
<1> QED
  BY <1>1, <1>3, Constants DEF Due, Time

LEMMA TimersIInv == ASSUME IInv, Timers PROVE IInv'
<1> USE DEF IInv, app, wifi, buttons, world, history, Goto, Quiet
<1>1. ASSUME NEW t \in TimerName, NEW period,
             NEW next \in {"configuration", "pairing", "end"},
             NotDue(t, period, next), next # "end"
      PROVE  IInv'
  BY <1>1 DEF NotDue, TimerName, TypeOK, TimersRun, Blinks, TriesLeft, Services,
     Open, DeadlineFits, Held
<1>2. CASE NotDue("pairing", PairingTimeout, "end")
  <2>1. Open'
    <3>1. m_pairingEnabled /\ DeadlineFits => openFor < PairingTimeout
      BY <1>2, DueInTime, Constants DEF NotDue, TypeOK
    <3> QED
      BY <1>2, <3>1 DEF NotDue, Open, DeadlineFits
  <2> QED
    BY <1>2, <2>1 DEF NotDue, TypeOK, TimersRun, Blinks, TriesLeft, Services,
       Held
<1>3. CASE connectToWifi
  <2>1. PICK status \in {"CONNECTION_ONGOING", "CONNECTION_SUCCESS",
                         "CONNECTION_FAILURE"} :
          /\ Tried(status)
          /\ status = "CONNECTION_ONGOING" => retries + 1 < MaxRetries
    <3>1. m_status = "CONNECTION_ONGOING"
      BY <1>3 DEF connectToWifi, Due, TimersRun
    <3>2. retries + 1 >= MaxRetries \/ retries + 1 < MaxRetries
      BY Constants DEF TypeOK
    <3> QED
      BY <1>3, <3>1, <3>2 DEF connectToWifi
  <2>2. retries + 1 \in 0..MaxRetries
    BY <1>3, Constants DEF connectToWifi, Due, TriesLeft, TypeOK
  <2>3. /\ timer' \in [TimerName -> Time \cup {Stopped}]
        /\ timer'["connection"] # Stopped <=> status = "CONNECTION_ONGOING"
        /\ timer'["configuration"] = timer["configuration"]
        /\ timer'["pairing"] = timer["pairing"]
    <3>1. now # Stopped
      BY Constants DEF TypeOK
    <3> QED
      BY <2>1, <3>1, StartType DEF Tried, TimerName, TypeOK
  <2>4. TypeOK'
    BY <2>1, <2>2, <2>3 DEF Tried, TypeOK, TimerName
  <2>5. TimersRun' /\ TriesLeft'
    BY <2>1, <2>3 DEF Tried, TimersRun, TriesLeft
  <2>6. Blinks' /\ Services' /\ Open' /\ Held'
    BY <1>3, <2>1, <2>3 DEF connectToWifi, Tried, Blinks, Services, Open,
       DeadlineFits, Held
  <2> QED
    BY <2>4, <2>5, <2>6
<1>4. CASE HostingEnds
  BY <1>4, OutsideIInv
<1>5. CASE PairingDisabled
  <2>1. /\ timer' \in [TimerName -> Time \cup {Stopped}]
        /\ timer'["pairing"] = Stopped
        /\ timer'["connection"] = timer["connection"]
        /\ timer'["configuration"] = timer["configuration"]
    BY <1>5 DEF PairingDisabled, TypeOK, TimerName
  <2>2. TypeOK'
    BY <1>5, <2>1, Zeros, ZenonT(60) DEF PairingDisabled, TypeOK
  <2> QED
    BY <1>5, <2>1, <2>2 DEF PairingDisabled, TimersRun, Blinks, TriesLeft,
       Services, Open, Held
<1> QED
  BY <1>1, <1>2, <1>3, <1>4, <1>5 DEF Timers, TimerName

LEMMA EndPassIInv ==
  ASSUME IInv, NEW d \in 0..MaxPass, EndPass(d)
  PROVE  IInv'
<1> USE DEF IInv, EndPass, app, wifi, buttons, world, Goto
<1>1. /\ now \in Time /\ now' \in Time
      /\ now' = IF now + d < Word THEN now + d ELSE now + d - Word
  BY Passes DEF TypeOK
<1>2. /\ openFor \in Nat /\ openFor' \in 0..(PairingTimeout + MaxPass)
      /\ heldFor \in Nat /\ heldFor' \in 0..LongClick
  BY Constants DEF TypeOK, Least
<1>3. TypeOK'
  BY <1>1, <1>2 DEF TypeOK
<1>4. Open'
  <2> SUFFICES ASSUME m_pairingEnabled', DeadlineFits' PROVE
                 /\ now' = timer["pairing"] + openFor'
                 /\ openFor' < PairingTimeout + MaxPass
    BY DEF Open
  <2>1. /\ m_pairingEnabled /\ DeadlineFits
        /\ now = timer["pairing"] + openFor /\ openFor < PairingTimeout
    BY DEF Open, DeadlineFits
  <2>2. timer["pairing"] \in Time
    BY <2>1, Constants DEF TimersRun, TypeOK, TimerName
  <2>3. openFor' = openFor + d /\ openFor + d < PairingTimeout + MaxPass
    BY <1>2, <2>1, Constants DEF Least
  <2> QED
    BY <1>1, <1>2, <2>1, <2>2, <2>3, Constants DEF DeadlineFits, Time
<1>5. Held'
  <2> SUFFICES ASSUME pairButton # Up, heldFor' < LongClick
               PROVE  (now' + Word - pairButton) % Word = heldFor'
    BY DEF Held
  <2>1. heldFor' = heldFor + d /\ heldFor + d < Word /\ heldFor < LongClick
    BY <1>2, Constants DEF Least
  <2>2. pairButton \in Time /\ (now + Word - pairButton) % Word = heldFor
    BY <2>1 DEF Held, TypeOK
  <2> QED
    BY <1>1, <1>2, <2>1, <2>2, HeldOn
<1> QED
  BY <1>3, <1>4, <1>5 DEF TimersRun, Blinks, TriesLeft, Services

LEMMA NextIInv == ASSUME IInv, [Next]_vars PROVE IInv'
<1>1. CASE Mode \/ Buttons \/ Timers
  BY <1>1, ModeIInv, ButtonsIInv, TimersIInv
<1>2. CASE EndPass(0) \/ Passing
  <2>1. 0 \in 0..MaxPass /\ 1..MaxPass \subseteq 0..MaxPass
    BY Constants
  <2> QED
    BY <1>2, <2>1, EndPassIInv DEF Passing
<1>3. CASE EarlyReading \/ setWifi \/ AccessPoint \/ PowerLoss
  BY <1>3, OutsideIInv
<1>4. CASE UNCHANGED vars
  BY <1>4 DEF IInv, vars, app, wifi, buttons, world, history, TypeOK, TimersRun,
     Blinks, TriesLeft, Services, Open, DeadlineFits, Held
<1> QED
  BY <1>1, <1>2, <1>3, <1>4 DEF Next, update

LEMMA Invariance == Spec => []IInv
  BY InitIInv, NextIInv, PTL DEF Spec

----------------------------------------------------------------------------
\* The loop's state keeps its types, and no more tries are made than allowed.
THEOREM TypeCorrect == Spec => []TypeOK
<1>1. IInv => TypeOK
  BY DEF IInv
<1> QED
  BY <1>1, Invariance, PTL

\* Whatever waits for a timer has it running (App.cpp:78-84).
THEOREM TimersRunAlways == Spec => []TimersRun
<1>1. IInv => TimersRun
  BY DEF IInv
<1> QED
  BY <1>1, Invariance, PTL

\* The LED blinks while the window is open in normal operation, and only while
\* it is open (EspNowPairingManager.cpp:23-37).
THEOREM BlinksAlways == Spec => []Blinks
<1>1. IInv => Blinks
  BY DEF IInv
<1> QED
  BY <1>1, Invariance, PTL

\* The window closes one pass after its period at most.
THEOREM WindowClosesInTime == Spec => []WindowCloses
<1>1. IInv => WindowCloses
  BY DEF IInv, Open, WindowCloses
<1> QED
  BY <1>1, Invariance, PTL

\* What a step does to the window and to the file.
LEMMA Closing ==
  ASSUME IInv, Next, m_pairingEnabled, ~m_pairingEnabled', services' = "page"
  PROVE  PairingDisabled
<1> USE DEF app, wifi, buttons, world, history, Goto, Quiet
<1>1. CASE Mode
  BY <1>1 DEF Mode, SameMode, Connected, CannotConnect, StartRadio, StartServer,
     Boot
<1>2. CASE Buttons
  BY <1>2 DEF Buttons, NoEdge, Press, FactoryReset, PairClick,
     enablePairingForPeriod, WifiNoEdge, WifiPress, startWebWifiConfiguration,
     Boot
<1>3. CASE Timers
  BY <1>3 DEF Timers, NotDue, connectToWifi, Tried, HostingEnds, Boot
<1>4. CASE EndPass(0) \/ Passing
  BY <1>4 DEF EndPass, Passing
<1>5. CASE EarlyReading \/ setWifi \/ AccessPoint \/ PowerLoss
  BY <1>5 DEF EarlyReading, setWifi, AccessPoint, PowerLoss, Crash, Boot
<1> QED
  BY <1>1, <1>2, <1>3, <1>4, <1>5 DEF Next, update

LEMMA Clearing ==
  ASSUME IInv, Next, file = "network", file' = "defaults"
  PROVE  FactoryReset
<1> USE DEF app, wifi, buttons, world, history, Goto, Quiet
<1>1. CASE Mode
  BY <1>1 DEF Mode, SameMode, Connected, CannotConnect, StartRadio, StartServer,
     Boot
<1>2. CASE Buttons
  BY <1>2 DEF Buttons, NoEdge, Press, PairClick, WifiNoEdge, WifiPress,
     startWebWifiConfiguration
<1>3. CASE Timers
  BY <1>3 DEF Timers, NotDue, connectToWifi, Tried, HostingEnds,
     PairingDisabled, Boot
<1>4. CASE EndPass(0) \/ Passing
  BY <1>4 DEF EndPass, Passing
<1>5. CASE EarlyReading \/ setWifi \/ AccessPoint \/ PowerLoss
  BY <1>5 DEF EarlyReading, setWifi, AccessPoint, PowerLoss, Crash, Boot
<1> QED
  BY <1>1, <1>2, <1>3, <1>4, <1>5 DEF Next, update

\* The window stays open for its whole period, unless its deadline wraps
\* (Timer.cpp:29).
THEOREM WindowFullAlways == Spec => WindowFull
<1>1. IInv /\ [Next]_vars =>
        [m_pairingEnabled /\ ~m_pairingEnabled' /\ services' = "page"
           => openFor >= PairingTimeout \/ ~DeadlineFits]_vars
  <2> SUFFICES ASSUME IInv, Next, m_pairingEnabled, ~m_pairingEnabled',
                      services' = "page", DeadlineFits
               PROVE  openFor >= PairingTimeout
    OBVIOUS
  <2> QED
    BY Closing, DueInTime DEF PairingDisabled
<1> QED
  BY <1>1, Invariance, PTL DEF Spec, WindowFull

\* Defaults replace a network after a long click only, also when the clock
\* wrapped while the button was down (Button.cpp:39), and whatever the
\* configurator is posted.
THEOREM ResetMeantAlways == Spec => ResetMeant
<1>1. IInv /\ [Next]_vars
        => [file = "network" /\ file' = "defaults" => heldFor >= LongClick]_vars
  <2> SUFFICES ASSUME IInv, Next, file = "network", file' = "defaults"
               PROVE  heldFor >= LongClick
    OBVIOUS
  <2>1. pairButton # Up /\ (now + Word - pairButton) % Word >= LongClick
    BY Clearing DEF FactoryReset, WasLong
  <2> QED
    BY <2>1, Constants DEF IInv, Held, TypeOK
<1> QED
  BY <1>1, Invariance, PTL DEF Spec, ResetMeant
=============================================================================
