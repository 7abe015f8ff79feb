------------------------------ MODULE HostLoop ------------------------------
(***************************************************************************)
(* The loop task of the host against the clock: App::update with its modes,*)
(* the timers, the two buttons, the LED and the pairing window, and the    *)
(* start of services, during which the radio task already runs.            *)
(*                                                                         *)
(* millis() is a counter of w bits that is 0 at a boot; the code adds and  *)
(* compares in the same width.  Time passes between two passes of the loop.*)
(* How a document gets into the file is in HostTasks; here the file is     *)
(* blank, or has the defaults, or a network.                               *)
(***************************************************************************)
EXTENDS Naturals

CONSTANTS Word,             \* 2^32: one more than the last value of millis()
          MaxPass,          \* bound: the longest pass of the loop
          Retry,            \* m_delayBetweenConnectionRetiresMs
          MaxRetries,       \* m_maxConnectionRetries
          LongClick,        \* 3000
          PairingTimeout,   \* m_pairingDefaultTimeout
          HostingTimeout,   \* m_wifiConfigServerTimeoutMillis
          MaxCrashes,       \* bound: power losses and panics
          Stopped, Up       \* no time

Time == 0..(Word - 1)

ASSUME LoopAssumption ==
  /\ Word \in Nat \ {0} /\ MaxPass \in Time \ {0}
  /\ {Retry, LongClick, PairingTimeout, HostingTimeout} \subseteq Time \ {0}
  /\ MaxRetries \in Nat \ {0} /\ MaxCrashes \in Nat
  /\ {Stopped, Up} \cap Time = {}

VARIABLES
  now,                \* millis()
  step,               \* what update() calls next
  m_mode,
  services,           \* how much of startServices is done in this boot
  m_status, retries,  \* of WiFiConfigurator and of its callback
  timer,              \* of each Timer, the start, or Stopped
  pairButton,         \* when it was first seen down, or Up
  wifiDown,           \* the other one, which has no long click
  m_pairingEnabled,
  led,
  file,               \* what the flash holds of the configuration
  network,            \* it takes the station in
  crashes,            \* counter for MaxCrashes
  openFor,            \* history: since when the window is open, and
  heldFor             \* the pairing button down, up to what is told apart

app     == <<m_mode, services, led>>
wifi    == <<m_status, retries>>
buttons == <<pairButton, wifiDown>>
world   == <<file, network, crashes>>
history == <<openFor, heldFor>>
vars == <<now, step, app, wifi, timer, buttons, m_pairingEnabled, world, history>>

\* A Timer that never was started runs an empty function once and stops.
TimerName == {"connection", "configuration", "pairing"}

NoTimer == [t \in TimerName |-> Stopped]

Start(t) == [timer EXCEPT ![t] = now]

\* The condition of Timer::update: the sum has the width of the clock.
Due(t, period) == /\ timer[t] # Stopped
                  /\ (period + timer[t]) % Word <= now

Goto(next) == step' = next

\* History counters stop where the properties tell nothing more apart.
Least(a, b) == IF a <= b THEN a ELSE b

Quiet == UNCHANGED <<world, history>>

----------------------------------------------------------------------------
Init ==
  /\ now = 0 /\ step = "mode"
  /\ m_mode = "HOSTING_WIFI_CONFIGURATOR" /\ services = "none" /\ led = "on"
  /\ m_status = "NOT_INITIALIZED" /\ retries = 0
  /\ timer = [NoTimer EXCEPT !["configuration"] = 0]
  /\ pairButton = Up /\ wifiDown = FALSE
  /\ m_pairingEnabled = FALSE
  /\ file = "blank" /\ network \in BOOLEAN /\ crashes = 0
  /\ openFor = 0 /\ heldFor = 0

\* App::init of a board with such a file: without a network it hosts the page.
Boot(saved) ==
  /\ now' = 0 /\ step' = "mode"
  /\ services' = "none" /\ m_pairingEnabled' = FALSE
  /\ IF saved = "network"
     THEN /\ m_mode' = "WAITING_FOR_WIFI" /\ led' = "off"
          /\ m_status' = "CONNECTION_ONGOING"
          /\ timer' = [NoTimer EXCEPT !["connection"] = 0]
     ELSE /\ m_mode' = "HOSTING_WIFI_CONFIGURATOR" /\ led' = "on"
          /\ m_status' = "NOT_INITIALIZED"
          /\ timer' = [NoTimer EXCEPT !["configuration"] = 0]
  /\ retries' = 0
  /\ pairButton' = Up /\ wifiDown' = FALSE
  /\ file' = saved /\ UNCHANGED network
  /\ openFor' = 0 /\ heldFor' = 0

\* A boot that no code asked for.
Crash == /\ crashes < MaxCrashes /\ crashes' = crashes + 1
         /\ Boot(file)

----------------------------------------------------------------------------
\* One pass of App::update: first its switch,

SameMode ==
  /\ step = "mode"
  /\ \/ m_mode \in {"HOSTING_WIFI_CONFIGURATOR", "NORMAL_OPERATION"}
     \/ m_mode = "WAITING_FOR_WIFI" /\ m_status = "CONNECTION_ONGOING"
  /\ Goto("pairButton")
  /\ UNCHANGED <<now, app, wifi, timer, buttons, m_pairingEnabled>> /\ Quiet

Connected ==
  /\ step = "mode" /\ m_mode = "WAITING_FOR_WIFI"
  /\ m_status = "CONNECTION_SUCCESS"
  /\ m_mode' = "STARTING_SERVICES"
  /\ Goto("pairButton")
  /\ UNCHANGED <<now, services, led, wifi, timer, buttons, m_pairingEnabled>>
  /\ Quiet

CannotConnect ==
  /\ step = "mode" /\ m_mode = "WAITING_FOR_WIFI"
  /\ m_status = "CONNECTION_FAILURE"
  /\ Boot(file) /\ UNCHANGED crashes

\* startServices up to m_espNow->init: readings are received from here on.
StartRadio ==
  /\ step = "mode" /\ m_mode = "STARTING_SERVICES"
  /\ services' = "radio"
  /\ Goto("startServer")
  /\ UNCHANGED <<now, m_mode, led, wifi, timer, buttons, m_pairingEnabled>>
  /\ Quiet

\* A reading before the page has its event source: sendEvent goes through a
\* null pointer, and the board panics.
EarlyReading == step = "startServer" /\ Crash

StartServer ==
  /\ step = "startServer"
  /\ services' = "page" /\ m_mode' = "NORMAL_OPERATION"
  /\ Goto("pairButton")
  /\ UNCHANGED <<now, led, wifi, timer, buttons, m_pairingEnabled>> /\ Quiet

----------------------------------------------------------------------------
\* then the buttons, by the level that is read now,

NoEdge ==
  /\ step = "pairButton"
  /\ Goto("wifiButton")
  /\ UNCHANGED <<now, app, wifi, timer, buttons, m_pairingEnabled>> /\ Quiet

\* Mutation: the time of the first press is kept.
pressOnce ==
  /\ step = "pairButton" /\ pairButton = Up
  /\ pairButton' = 0 /\ heldFor' = 0
  /\ Goto("wifiButton")
  /\ UNCHANGED <<now, app, wifi, timer, wifiDown, m_pairingEnabled, world,
                 openFor>>

Press ==
  /\ step = "pairButton" /\ pairButton = Up
  /\ pairButton' = now /\ heldFor' = 0
  /\ Goto("wifiButton")
  /\ UNCHANGED <<now, app, wifi, timer, wifiDown, m_pairingEnabled, world,
                 openFor>>

\* The difference has the width of the clock, too.
WasLong == (now + Word - pairButton) % Word >= LongClick

Released ==
  /\ step = "pairButton" /\ pairButton # Up
  /\ pairButton' = Up /\ heldFor' = 0

FactoryReset ==
  /\ step = "pairButton" /\ pairButton # Up
  /\ WasLong
  /\ Boot("defaults") /\ UNCHANGED crashes

\* Mutation: a click while the window is open begins it again.
openAgain ==
  /\ m_pairingEnabled' = TRUE /\ led' = "blinking"
  /\ timer' = Start("pairing") /\ UNCHANGED openFor

\* Mutation: a click while the window is open closes it.
clickCloses ==
  IF m_pairingEnabled
  THEN m_pairingEnabled' = FALSE /\ led' = "off" /\ UNCHANGED <<timer, openFor>>
  ELSE /\ m_pairingEnabled' = TRUE /\ led' = "blinking"
       /\ timer' = Start("pairing") /\ openFor' = 0

enablePairingForPeriod ==
  IF m_pairingEnabled
  THEN UNCHANGED <<m_pairingEnabled, led, timer, openFor>>
  ELSE /\ m_pairingEnabled' = TRUE /\ led' = "blinking"
       /\ timer' = Start("pairing") /\ openFor' = 0

PairClick ==
  /\ Released /\ ~WasLong
  /\ IF services = "page" THEN enablePairingForPeriod
     ELSE UNCHANGED <<m_pairingEnabled, led, timer, openFor>>
  /\ Goto("wifiButton")
  /\ UNCHANGED <<now, m_mode, services, wifi, wifiDown, world>>

WifiNoEdge ==
  /\ step = "wifiButton"
  /\ Goto("connection")
  /\ UNCHANGED <<now, app, wifi, timer, buttons, m_pairingEnabled>> /\ Quiet

WifiPress ==
  /\ step = "wifiButton" /\ ~wifiDown
  /\ wifiDown' = TRUE
  /\ Goto("connection")
  /\ UNCHANGED <<now, app, wifi, timer, pairButton, m_pairingEnabled>> /\ Quiet

\* Mutation: the timeout is not started.
hostForEver ==
  /\ step = "wifiButton" /\ wifiDown
  /\ wifiDown' = FALSE
  /\ m_mode' = "HOSTING_WIFI_CONFIGURATOR" /\ led' = "on"
  /\ Goto("connection")
  /\ UNCHANGED <<now, services, wifi, timer, pairButton, m_pairingEnabled>>
  /\ Quiet

startWebWifiConfiguration ==
  /\ step = "wifiButton" /\ wifiDown
  /\ wifiDown' = FALSE
  /\ m_mode' = "HOSTING_WIFI_CONFIGURATOR" /\ led' = "on"
  /\ timer' = Start("configuration")
  /\ Goto("connection")
  /\ UNCHANGED <<now, services, wifi, pairButton, m_pairingEnabled>> /\ Quiet

----------------------------------------------------------------------------
\* and last the timers.

NotDue(t, period, next) ==
  /\ step = t /\ ~Due(t, period)
  /\ Goto(next)
  /\ UNCHANGED <<now, app, wifi, timer, buttons, m_pairingEnabled>> /\ Quiet

\* disconnect() was called where the configurator is hosted.
Associated == network /\ m_mode # "HOSTING_WIFI_CONFIGURATOR"

\* The timer repeats until its callback stops it.
Tried(status) ==
  /\ retries' = retries + 1
  /\ m_status' = status
  /\ timer' = IF status = "CONNECTION_ONGOING" THEN Start("connection")
              ELSE [timer EXCEPT !["connection"] = Stopped]
  /\ Goto("configuration")
  /\ UNCHANGED <<now, app, buttons, m_pairingEnabled>> /\ Quiet

\* Mutation: the number of tries is not looked at.
neverGiveUp ==
  /\ step = "connection" /\ Due("connection", Retry)
  /\ Tried(IF Associated THEN "CONNECTION_SUCCESS" ELSE m_status)

connectToWifi ==
  /\ step = "connection" /\ Due("connection", Retry)
  /\ Tried(IF Associated THEN "CONNECTION_SUCCESS"
           ELSE IF retries + 1 >= MaxRetries THEN "CONNECTION_FAILURE"
           ELSE m_status)

HostingEnds ==
  /\ step = "configuration" /\ Due("configuration", HostingTimeout)
  /\ Boot(file) /\ UNCHANGED crashes

\* Mutation: the LED is left blinking.
closeInTheDark ==
  /\ step = "pairing" /\ Due("pairing", PairingTimeout)
  /\ m_pairingEnabled' = FALSE
  /\ timer' = [timer EXCEPT !["pairing"] = Stopped]
  /\ openFor' = 0
  /\ Goto("end")
  /\ UNCHANGED <<now, app, wifi, buttons, world, heldFor>>

PairingDisabled ==
  /\ step = "pairing" /\ Due("pairing", PairingTimeout)
  /\ m_pairingEnabled' = FALSE /\ led' = "off"
  /\ timer' = [timer EXCEPT !["pairing"] = Stopped]
  /\ openFor' = 0
  /\ Goto("end")
  /\ UNCHANGED <<now, m_mode, services, wifi, buttons, world, heldFor>>

Timers == \/ NotDue("connection", Retry, "configuration") \/ connectToWifi
          \/ NotDue("configuration", HostingTimeout, "pairing") \/ HostingEnds
          \/ NotDue("pairing", PairingTimeout, "end") \/ PairingDisabled

EndPass(d) ==
  /\ step = "end"
  /\ now' = (now + d) % Word
  /\ openFor' = IF m_pairingEnabled
                THEN Least(openFor + d, PairingTimeout + MaxPass) ELSE 0
  /\ heldFor' = IF pairButton # Up THEN Least(heldFor + d, LongClick) ELSE 0
  /\ Goto("mode")
  /\ UNCHANGED <<app, wifi, timer, buttons, m_pairingEnabled, world>>

----------------------------------------------------------------------------
\* Not of the loop: the configurator's post, the access point, the power.

\* save() leaves the file blank when the SSID is not UTF-8.
setWifi ==
  /\ m_mode = "HOSTING_WIFI_CONFIGURATOR"
  /\ \E saved \in {"network", "blank"} : Boot(saved)
  /\ UNCHANGED crashes

AccessPoint ==
  /\ network' = ~network
  /\ UNCHANGED <<now, step, app, wifi, timer, buttons, m_pairingEnabled,
                 file, crashes, history>>

PowerLoss == Crash

Mode == SameMode \/ Connected \/ CannotConnect \/ StartRadio \/ StartServer

Buttons == \/ NoEdge \/ Press \/ FactoryReset \/ PairClick
           \/ WifiNoEdge \/ WifiPress \/ startWebWifiConfiguration

Passing == \E d \in 1..MaxPass : EndPass(d)

update == Mode \/ Buttons \/ Timers \/ EndPass(0) \/ Passing

Next == update \/ EarlyReading \/ setWifi \/ AccessPoint \/ PowerLoss

Spec == Init /\ [][Next]_vars

\* The loop is called again and again, and time goes on.
FairSpec == Spec /\ WF_vars(update) /\ SF_vars(Passing)

----------------------------------------------------------------------------
\* Types; and a try after the last is never made.
TypeOK ==
  /\ now \in Time
  /\ step \in {"mode", "startServer", "pairButton", "wifiButton", "end"}
              \cup TimerName
  /\ m_mode \in {"WAITING_FOR_WIFI", "HOSTING_WIFI_CONFIGURATOR",
                 "STARTING_SERVICES", "NORMAL_OPERATION"}
  /\ services \in {"none", "radio", "page"}
  /\ m_status \in {"NOT_INITIALIZED", "CONNECTION_ONGOING",
                   "CONNECTION_SUCCESS", "CONNECTION_FAILURE"}
  /\ retries \in 0..MaxRetries
  /\ timer \in [TimerName -> Time \cup {Stopped}]
  /\ pairButton \in Time \cup {Up} /\ wifiDown \in BOOLEAN
  /\ m_pairingEnabled \in BOOLEAN /\ led \in {"off", "on", "blinking"}
  /\ file \in {"blank", "defaults", "network"} /\ network \in BOOLEAN /\ crashes \in 0..MaxCrashes
  /\ openFor \in 0..(PairingTimeout + MaxPass) /\ heldFor \in 0..LongClick

\* What only a timer ends has its timer running: trying to connect, hosting the
\* configurator and the pairing window; no callback, click or mode change
\* leaves one of them without (App.cpp:78-84, WifiConfigurator.cpp:33-53,
\* EspNowPairingManager.cpp:28-38).
TimersRun ==
  /\ m_status = "CONNECTION_ONGOING" <=> timer["connection"] # Stopped
  /\ m_mode = "HOSTING_WIFI_CONFIGURATOR" <=> timer["configuration"] # Stopped
  /\ m_pairingEnabled <=> timer["pairing"] # Stopped

\* The deadline of the window is a value of the clock.  millis() wraps after 49
\* days, and Timer.cpp:29 does not allow for it.
DeadlineFits == timer["pairing"] + PairingTimeout + MaxPass < Word

\* The window stays open for its two minutes (EspNowPairingManager.hpp:27),
\* whatever is clicked and whichever mode the board enters meanwhile, unless
\* the board restarts or the deadline wraps.
WindowFull ==
  [][m_pairingEnabled /\ ~m_pairingEnabled' /\ services' = "page"
       => openFor >= PairingTimeout \/ ~DeadlineFits]_vars

\* And it closes after them, one pass of the loop later at most: no click of
\* the button makes it longer.
WindowCloses ==
  m_pairingEnabled /\ DeadlineFits => openFor < PairingTimeout + MaxPass

\* The LED blinks while the window is open, but where the configurator, which
\* has the LED on, was asked for since.
Blinks ==
  /\ led = "blinking" => m_pairingEnabled
  /\ m_pairingEnabled /\ m_mode = "NORMAL_OPERATION" => led = "blinking"

\* The defaults replace a network only when the button was seen down for the
\* whole time of a long click (App.cpp:105, Button.cpp:36-43), at a clock that
\* wraps.  A network is lost in one more way: a posted SSID that is not UTF-8
\* blanks the file (ConfStorage.cpp:36-46).
ResetMeant ==
  [][file = "network" /\ file' = "defaults" => heldFor >= LongClick]_vars

\* A board that has a network which takes it in, and whose buttons are left
\* alone, ends up in normal operation and stays there, after whatever restarts,
\* timeouts, clicks and failed connections (App.cpp:22-48, 78-84).
Recovers ==
  <>[](file = "network" /\ network /\ pairButton = Up /\ ~wifiDown)
    => <>[](m_mode = "NORMAL_OPERATION")
=============================================================================
