----------------------------- MODULE HostTasks -----------------------------
(***************************************************************************)
(* The host's three tasks on one configuration, without a lock:            *)
(*                                                                         *)
(*   radio  the Wi-Fi task that runs EspNowServer::onDataRecv,             *)
(*   web    the async_tcp task that runs the handlers of WebPageMain and   *)
(*          of WifiConfiguratorWebServer, one request at a time,           *)
(*   loop   the task that runs App::update: buttons, timers, start-up.     *)
(*                                                                         *)
(* A handler is a sequence of steps.  One call on ConfStorage is one step, *)
(* except addSensor, which reads before it writes, and save, which takes   *)
(* the document before its file reaches the flash; the tasks interleave    *)
(* between steps, and power may fail between any two.  Readings and pages  *)
(* only read the document and are left to ThNetwork.                       *)
(***************************************************************************)
EXTENDS ConfStorage

CONSTANTS Mapping,   \* the bodies posted to /updateSensorsMapping
          Overlap    \* FALSE: only the histories where no two handlers overlap

ASSUME MappingAssumption ==
  Mapping \subseteq SensorMap
ASSUME OverlapAssumption == Overlap \in BOOLEAN
ASSUME ValuesAssumption ==
  /\ Blank \notin Conf /\ NoWifi \notin SSID
  /\ \A i \in 1..maxSensorsNum : NoName # Unnamed(i)

VARIABLES
  m_jsonData,         \* the document in memory
  file,               \* what the flash holds of it
  m_mode,             \* App::m_mode, the transitional modes left out
  services,           \* startServices ran in this boot
  m_pairingEnabled,   \* EspNowPairingManager's window is open
  pc,                 \* where each task is in its handler
  sensor,             \* each task's arguments of addSensor
  data,               \* each task's string between dump() and close
  return,             \* where each task goes when save() returns
  sensorsMapping,     \* web: the body of the request
  todo                \* web: its items not handled yet

stored  == <<m_jsonData, file>>
app     == <<m_mode, services, m_pairingEnabled>>
request == <<sensorsMapping, todo>>
vars == <<stored, app, pc, sensor, data, return, request>>

Task == {"radio", "web", "loop"}

\* The tasks that call addSensor.
Adder == {"radio", "web"}

Step == {"idle", "isPaired", "hasSpace", "item", "naming", "space", "insert",
         "dump", "close", "answer", "restart"}

NoSensor == [identifier |-> NoName, name |-> NoName]

NoMapping == [id \in {} |-> NoName]

\* A value for each task.
EachTask(value) == [t \in Task |-> value]

\* A device out of the box: no file, so the configurator is hosted.
Init == /\ m_jsonData = setDefault
        /\ file = Blank
        /\ m_mode = "HOSTING_WIFI_CONFIGURATOR"
        /\ services = FALSE
        /\ m_pairingEnabled = FALSE
        /\ pc = EachTask("idle")
        /\ sensor = EachTask(NoSensor)
        /\ data = EachTask(Blank)
        /\ return = EachTask("idle")
        /\ sensorsMapping = NoMapping
        /\ todo = {}

\* Task t is free to take a call; without Overlap, so is every other.
Free(t) == /\ pc[t] = "idle"
           /\ Overlap \/ \A u \in Task : pc[u] = "idle"

Goto(t, step) == pc' = [pc EXCEPT ![t] = step]

\* Task t goes on to save the document and then to step.
SaveThen(t, step) == /\ Goto(t, "dump")
                     /\ return' = [return EXCEPT ![t] = step]

----------------------------------------------------------------------------
\* addSensor and save, by whichever task calls them.

ChooseName(t) ==
  /\ pc[t] = "naming"
  /\ sensor' = [sensor EXCEPT ![t].name = newSensorName(m_jsonData, @)]
  /\ Goto(t, "space")
  /\ UNCHANGED <<stored, app, data, return, request>>

\* Mutation: addSensor does not look for space.
addUnchecked(t) ==
  /\ pc[t] = "space"
  /\ Goto(t, "insert")
  /\ UNCHANGED <<stored, app, sensor, data, return, request>>

\* Both callers save whether or not addSensor found space.
CheckSpace(t) ==
  /\ pc[t] = "space"
  /\ Goto(t, IF isAvailableSpaceForNextSensor(m_jsonData) THEN "insert"
                                                          ELSE "dump")
  /\ UNCHANGED <<stored, app, sensor, data, return, request>>

Insert(t) ==
  /\ pc[t] = "insert"
  /\ m_jsonData' = withSensor(m_jsonData, sensor[t].identifier, sensor[t].name)
  /\ Goto(t, "dump")
  /\ UNCHANGED <<file, app, sensor, data, return, request>>

Dump(t) ==
  /\ pc[t] = "dump"
  /\ data' = [data EXCEPT ![t] = dump(m_jsonData)]
  /\ Goto(t, "close")
  /\ UNCHANGED <<stored, app, sensor, return, request>>

\* The file's destructor commits what was printed: the last to close wins.
Close(t) ==
  /\ pc[t] = "close"
  /\ file' = data[t]
  /\ data' = [data EXCEPT ![t] = Blank]
  /\ sensor' = [sensor EXCEPT ![t] = NoSensor]
  /\ return' = [return EXCEPT ![t] = "idle"]
  /\ Goto(t, return[t])
  /\ UNCHANGED <<m_jsonData, app, request>>

----------------------------------------------------------------------------
\* radio: EspNowServer::onDataRecv.

PairRequest(id) ==
  /\ Free("radio") /\ services
  /\ m_pairingEnabled
  /\ sensor' = [sensor EXCEPT !["radio"] = [identifier |-> id, name |-> NoName]]
  /\ return' = [return EXCEPT !["radio"] = "answer"]
  /\ Goto("radio", "isPaired")
  /\ UNCHANGED <<stored, app, data, request>>

\* addNewSensorToStorage: its result is ignored, so every way ends in the answer.
IsPaired ==
  /\ pc["radio"] = "isPaired"
  /\ Goto("radio", IF isSensorMapped(m_jsonData, sensor["radio"].identifier)
                   THEN "answer" ELSE "hasSpace")
  /\ UNCHANGED <<stored, app, sensor, data, return, request>>

HasSpace ==
  /\ pc["radio"] = "hasSpace"
  /\ Goto("radio", IF isAvailableSpaceForNextSensor(m_jsonData)
                   THEN "naming" ELSE "answer")
  /\ UNCHANGED <<stored, app, sensor, data, return, request>>

SendPairOK ==
  /\ pc["radio"] = "answer"
  /\ Goto("radio", "idle")
  /\ sensor' = [sensor EXCEPT !["radio"] = NoSensor]
  /\ return' = [return EXCEPT !["radio"] = "idle"]
  /\ UNCHANGED <<stored, app, data, request>>

----------------------------------------------------------------------------
\* web: WebPageMain's handlers while the page is served, and setWifi of the
\* configurator while that is.

PageServed == services /\ m_mode = "NORMAL_OPERATION"

updateSensorsMapping(body) ==
  /\ Free("web") /\ PageServed
  /\ sensorsMapping' = body
  /\ todo' = DOMAIN body
  /\ Goto("web", "item")
  /\ UNCHANGED <<stored, app, sensor, data, return>>

NextItem(id) ==
  /\ pc["web"] = "item"
  /\ id \in todo
  /\ todo' = todo \ {id}
  /\ sensor' = [sensor EXCEPT !["web"] =
                  [identifier |-> id, name |-> sensorsMapping[id]]]
  /\ return' = [return EXCEPT !["web"] = "item"]
  /\ Goto("web", "naming")
  /\ UNCHANGED <<stored, app, data, sensorsMapping>>

\* Mutation: the loop over the items ends early.
stopEarly ==
  /\ pc["web"] = "item"
  /\ Goto("web", "answer")
  /\ UNCHANGED <<stored, app, sensor, data, return, request>>

LastItem ==
  /\ pc["web"] = "item"
  /\ todo = {}
  /\ Goto("web", "answer")
  /\ UNCHANGED <<stored, app, sensor, data, return, request>>

\* Mutation: the document is changed and not saved.
changeOnly(document, step) ==
  /\ Free("web")
  /\ m_jsonData' = document
  /\ Goto("web", step)
  /\ UNCHANGED <<file, app, sensor, data, return, request>>

\* The handlers of one call on the document and one save.
ChangeAndSave(document, step) ==
  /\ Free("web")
  /\ m_jsonData' = document
  /\ SaveThen("web", step)
  /\ UNCHANGED <<file, app, sensor, data, request>>

RemoveSensor(id) ==
  PageServed /\ ChangeAndSave(removeSensor(m_jsonData, id), "answer")

setCredentials(credentials) ==
  PageServed /\ ChangeAndSave(setAdminCredentials(m_jsonData, credentials),
                               "answer")

setProperties(minutes) ==
  PageServed /\ ChangeAndSave(setSensorUpdatePeriodMins(m_jsonData, minutes),
                               "answer")

\* The 200, whose page says that the change was made.
SendOK ==
  /\ pc["web"] = "answer"
  /\ Goto("web", "idle")
  /\ sensorsMapping' = NoMapping
  /\ UNCHANGED <<stored, app, sensor, data, return, todo>>

setWifi(ssid) ==
  /\ m_mode = "HOSTING_WIFI_CONFIGURATOR"
  /\ ChangeAndSave(setWifiConfig(m_jsonData, ssid), "restart")

----------------------------------------------------------------------------
\* The constructor's defaults and load(), with every task idle.
Start ==
  /\ m_jsonData' = load(file, setDefault)
  /\ pc' = EachTask("idle")
  /\ sensor' = EachTask(NoSensor)
  /\ data' = EachTask(Blank)
  /\ return' = EachTask("idle")
  /\ sensorsMapping' = NoMapping
  /\ todo' = {}
  /\ UNCHANGED file

\* A boot, in the mode that initWifi chooses.
Boot ==
  /\ Start
  /\ m_mode' = IF getWifiConfig(m_jsonData') # NoWifi
               THEN "WAITING_FOR_WIFI" ELSE "HOSTING_WIFI_CONFIGURATOR"
  /\ services' = FALSE
  /\ m_pairingEnabled' = FALSE

\* esp_restart() ends a handler of t, and every other task where it is.
Restart(t) == pc[t] = "restart" /\ Boot

PowerLoss == Boot

----------------------------------------------------------------------------
\* loop: App::update.

OnlyApp == UNCHANGED <<stored, pc, sensor, data, return, request>>

Connected ==
  /\ Free("loop")
  /\ m_mode = "WAITING_FOR_WIFI"
  /\ m_mode' = "NORMAL_OPERATION"
  /\ services' = TRUE
  /\ UNCHANGED m_pairingEnabled
  /\ OnlyApp

CannotConnect ==
  /\ Free("loop")
  /\ m_mode = "WAITING_FOR_WIFI"
  /\ Boot

\* The click handler is set by startServices and stays.
PairClick ==
  /\ Free("loop") /\ services
  /\ m_pairingEnabled' = TRUE
  /\ UNCHANGED <<m_mode, services>>
  /\ OnlyApp

PairingTimeout ==
  /\ Free("loop")
  /\ m_pairingEnabled
  /\ m_pairingEnabled' = FALSE
  /\ UNCHANGED <<m_mode, services>>
  /\ OnlyApp

WifiClick ==
  /\ Free("loop")
  /\ m_mode' = "HOSTING_WIFI_CONFIGURATOR"
  /\ UNCHANGED <<services, m_pairingEnabled>>
  /\ OnlyApp

ConfiguratorTimeout ==
  /\ Free("loop")
  /\ m_mode = "HOSTING_WIFI_CONFIGURATOR"
  /\ Boot

\* Mutation: the reset is not saved.
resetOnly ==
  /\ Free("loop")
  /\ m_jsonData' = setDefault
  /\ Goto("loop", "restart")
  /\ UNCHANGED <<file, app, sensor, data, return, request>>

FactoryReset ==
  /\ Free("loop")
  /\ m_jsonData' = setDefault
  /\ SaveThen("loop", "restart")
  /\ UNCHANGED <<file, app, sensor, data, request>>

----------------------------------------------------------------------------
Radio == \/ \E id \in IDs : PairRequest(id)
         \/ IsPaired \/ HasSpace \/ SendPairOK

Web == \/ \E body \in Mapping : updateSensorsMapping(body)
       \/ \E id \in todo : NextItem(id)
       \/ LastItem \/ SendOK
       \/ \E id \in IDs : RemoveSensor(id)
       \/ \E credentials \in Credentials : setCredentials(credentials)
       \/ \E minutes \in Period : setProperties(minutes)
       \/ \E ssid \in SSID : setWifi(ssid)

Loop == \/ Connected \/ CannotConnect \/ PairClick \/ PairingTimeout
        \/ WifiClick \/ ConfiguratorTimeout \/ FactoryReset

Add == \E t \in Adder : ChooseName(t) \/ CheckSpace(t) \/ Insert(t)

Save == \E t \in Task : Dump(t) \/ Close(t) \/ Restart(t)

Next == Radio \/ Web \/ Loop \/ Add \/ Save \/ PowerLoss

Spec == Init /\ [][Next]_vars

----------------------------------------------------------------------------
\* The document, its copies and the tasks' states are what the code can hold.
TypeOK ==
  /\ m_jsonData \in Conf
  /\ file \in File
  /\ m_mode \in {"WAITING_FOR_WIFI", "NORMAL_OPERATION",
                 "HOSTING_WIFI_CONFIGURATOR"}
  /\ services \in BOOLEAN
  /\ m_pairingEnabled \in BOOLEAN
  /\ pc \in [Task -> Step]
  /\ sensor \in [Task -> [identifier : IDs \cup {NoName}, name : Name]]
  /\ data \in [Task -> File]
  /\ return \in [Task -> {"idle", "item", "answer", "restart"}]
  /\ todo \subseteq DOMAIN sensorsMapping
  /\ sensorsMapping \in Mapping \cup {NoMapping}
  \* an adder has its arguments, the loop adds nothing
  /\ \A t \in Adder : pc[t] \in {"isPaired", "hasSpace", "naming", "space", "insert"}
                       => sensor[t].identifier \in IDs
  \* items are left only while they are being handled
  /\ todo # {} => \/ pc["web"] = "item"
                  \/ /\ return["web"] = "item"
                     /\ pc["web"] \in {"naming", "space", "insert", "dump", "close"}
  /\ pc["loop"] \in {"idle", "dump", "close", "restart"}
  /\ return["loop"] \in {"idle", "restart"}

\* addSensor reads the number of sensors and inserts later, so two tasks can
\* both see the last place free; never more than one sensor gets in that way,
\* in memory, in the file and in what is about to be written
\* (ConfStorage.cpp:166-168).
SensorsBounded ==
  /\ Cardinality(DOMAIN m_jsonData.sensors) <= maxSensorsNum + 1
  /\ file # Blank => Cardinality(DOMAIN file.sensors) <= maxSensorsNum + 1

\* Once no task is saving, a reboot brings back the document as it is in
\* memory: what a 200 or a restart confirms is in the file, whole and newest
\* (WebPageMain.cpp:210-213, 244-253, 271-288, 304-319, App.cpp:73-75, 101-103).
Durable ==
  (\A t \in Task : pc[t] \notin {"dump", "close"})
     => load(file, setDefault) = m_jsonData

\* No more sensors than there is room for readings (ConfStorage.hpp:42-43).
LimitKept == Cardinality(DOMAIN m_jsonData.sensors) <= maxSensorsNum

\* Pairing gives a sensor a default name, one that no other sensor has at that
\* time, over any history of pairing, renaming and removing
\* (ConfStorage.cpp:153-164).
FreshName ==
  [][pc["radio"] = "insert" /\ pc'["radio"] = "dump" =>
       /\ sensor["radio"].name # NoName
       /\ \A id \in DOMAIN m_jsonData.sensors \ {sensor["radio"].identifier} :
             m_jsonData.sensors[id] # sensor["radio"].name]_vars

\* No sensor is without a name: while a task has space one of the default names
\* is free, and nobody takes the space or gives it back before the task has
\* chosen a name and found space (ConfStorage.cpp:153-168).
Named == \A id \in DOMAIN m_jsonData.sensors : m_jsonData.sensors[id] # NoName

\* The page says "Sensors updated" on the 200 (admin.js:94-95): every sensor of
\* the table that is mapped then has the name that was posted.
RenameApplied ==
  pc["web"] = "answer" =>
    \A id \in DOMAIN sensorsMapping \cap DOMAIN m_jsonData.sensors :
       sensorsMapping[id] # NoName
         => m_jsonData.sensors[id] = sensorsMapping[id]

\* The page says "SSID and password configured. Rebooting."
\* (wifiSettings.html:43): the reboot finds the network that was posted.
WifiConfigured ==
  pc["web"] = "restart" => load(file, setDefault).wifi = m_jsonData.wifi

\* "Reset to factory settings!" (App.cpp:100): the restart finds defaults.
ResetSticks ==
  pc["loop"] = "restart" => load(file, setDefault) = setDefault

\* At least it does if nobody has changed the document since the reset.
ResetLasts == m_jsonData = setDefault => ResetSticks
============================================================================
