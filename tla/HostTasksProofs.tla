-------------------------- MODULE HostTasksProofs --------------------------
(***************************************************************************)
(* For any sensors, names, networks, limit and posted tables, and whether  *)
(* or not handlers overlap: HostTasks is type correct, and two unlocked    *)
(* tasks exceed the limit of sensors by one at most.  If handlers do not   *)
(* overlap, the limit is kept, default names are fresh, and what is        *)
(* confirmed is in the file.                                               *)
(***************************************************************************)
EXTENDS HostTasks, ConfStorageProofs

\* A task that found space and has not used it yet.
Claim(t) == IF pc[t] = "insert" THEN 1 ELSE 0

\* How many sensors there may be: two tasks that overlap make one too many.
Limit == IF Overlap THEN maxSensorsNum + 1 ELSE maxSensorsNum

\* The strengthening of SensorsBounded: a claim counts as a sensor, and what is
\* about to be written is as small as what is.
Claimed ==
  /\ Size(m_jsonData) + Claim("radio") + Claim("web") <= Limit
  /\ file # Blank => Size(file) <= Limit
  /\ \A t \in Task : data[t] # Blank => Size(data[t]) <= Limit

\* Without Overlap a task in its handler is the only one: the mutual exclusion
\* that the arguments about one handler rest on.
Alone == Overlap \/ \A t, u \in Task : t = u \/ pc[t] = "idle" \/ pc[u] = "idle"

\* What is printed is the document, if no SSID makes dump() throw.
Printed == \A t \in Task : pc[t] = "close" => data[t] = m_jsonData

\* What the radio task has found out about the sensor it pairs.
Naming ==
  /\ pc["radio"] \in {"isPaired", "hasSpace", "naming"}
       => sensor["radio"].name = NoName
  /\ pc["radio"] = "naming" => isAvailableSpaceForNextSensor(m_jsonData)
  /\ pc["radio"] \in {"space", "insert"}
       => /\ sensor["radio"].name # NoName
          /\ ~nameExists(m_jsonData, sensor["radio"].name)

----------------------------------------------------------------------------
LEMMA LimitType ==
  Limit \in Nat /\ Limit \in {maxSensorsNum, maxSensorsNum + 1}
  BY MaxAssumption DEF Limit

LEMMA NoSensorType == NoSensor \in [identifier : IDs \cup {NoName}, name : Name]
  BY DEF NoSensor, Name

\* What a boot gives the tasks is well typed.
LEMMA IdleTypes ==
  /\ EachTask("idle") \in [Task -> Step]
  /\ EachTask(NoSensor) \in [Task -> [identifier : IDs \cup {NoName}, name : Name]]
  /\ EachTask(Blank) \in [Task -> File]
  /\ EachTask("idle") \in [Task -> {"idle", "item", "answer", "restart"}]
  /\ \A t \in Task : EachTask("idle")[t] = "idle"
  /\ "radio" \in Task /\ "web" \in Task /\ "loop" \in Task
  /\ Adder \subseteq Task
  BY NoSensorType DEF EachTask, Task, Step, File, Adder

LEMMA InitTypeOK == Init => TypeOK
<1> SUFFICES ASSUME Init PROVE TypeOK
  OBVIOUS
<1>1. /\ m_jsonData \in Conf
      /\ file \in File
  BY DefaultType DEF Init, File
<1>2. /\ pc \in [Task -> Step]
      /\ sensor \in [Task -> [identifier : IDs \cup {NoName}, name : Name]]
      /\ data \in [Task -> File]
      /\ return \in [Task -> {"idle", "item", "answer", "restart"}]
      /\ \A t \in Task : pc[t] = "idle"
  BY IdleTypes DEF Init
<1> QED
  BY <1>1, <1>2, IdleTypes DEF Init, TypeOK

\* A boot leaves a loaded document and idle tasks.
LEMMA BootTypeOK == ASSUME TypeOK, Boot PROVE TypeOK'
<1>1. /\ m_jsonData' \in Conf
      /\ file' \in File
  BY DefaultType, ConfTypes DEF TypeOK, Boot, Start
<1>2. /\ pc' \in [Task -> Step]
      /\ sensor' \in [Task -> [identifier : IDs \cup {NoName}, name : Name]]
      /\ data' \in [Task -> File]
      /\ return' \in [Task -> {"idle", "item", "answer", "restart"}]
      /\ \A t \in Task : pc'[t] = "idle"
  BY IdleTypes DEF Boot, Start
<1> QED
  BY <1>1, <1>2, IdleTypes DEF Boot, Start, TypeOK

\* Where a handler of the web task changes the document once.
LEMMA ChangeTypeOK ==
  ASSUME TypeOK, NEW c \in Conf, NEW step \in {"answer", "restart"},
         ChangeAndSave(c, step)
  PROVE  TypeOK'
  BY DEF ChangeAndSave, Free, SaveThen, Goto, TypeOK, Task, Adder, Step, app, request, File

\* Every step of every task keeps the types.
LEMMA NextTypeOK == ASSUME TypeOK, [Next]_vars PROVE TypeOK'
<1> USE DEF Goto, Task, Adder, Step, stored, app, request
<1>1. CASE Radio
  <2>1. ASSUME NEW id \in IDs, PairRequest(id)
        PROVE  TypeOK'
    <3>1. [identifier |-> id, name |-> NoName]
            \in [identifier : IDs \cup {NoName}, name : Name]
      BY DEF Name
    <3> QED
      BY <2>1, <3>1 DEF PairRequest, TypeOK
  <2>2. CASE IsPaired
    BY <2>2 DEF IsPaired, TypeOK
  <2>3. CASE HasSpace
    BY <2>3 DEF HasSpace, TypeOK
  <2>4. CASE SendPairOK
    BY <2>4, NoSensorType DEF SendPairOK, TypeOK
  <2> QED
    BY <1>1, <2>1, <2>2, <2>3, <2>4 DEF Radio
<1>2. CASE Web
  <2>1. ASSUME NEW body \in Mapping, updateSensorsMapping(body)
        PROVE  TypeOK'
    BY <2>1 DEF updateSensorsMapping, TypeOK
  <2>2. ASSUME NEW id \in todo, NextItem(id)
        PROVE  TypeOK'
    <3>1. /\ sensorsMapping \in SensorMap
          /\ id \in DOMAIN sensorsMapping
      BY MappingAssumption, SensorMapForm DEF TypeOK, NoMapping
    <3>2. id \in IDs /\ sensorsMapping[id] \in Name
      BY <3>1, SensorMapDomain
    <3>3. [identifier |-> id, name |-> sensorsMapping[id]]
            \in [identifier : IDs \cup {NoName}, name : Name]
      BY <3>2
    <3> QED
      BY <2>2, <3>2, <3>3 DEF NextItem, TypeOK
  <2>3. CASE LastItem
    BY <2>3 DEF LastItem, TypeOK
  <2>4. CASE SendOK
    BY <2>4 DEF SendOK, TypeOK
  <2>5. ASSUME NEW id \in IDs, RemoveSensor(id)
        PROVE  TypeOK'
    BY <2>5, ConfTypes, ChangeTypeOK DEF RemoveSensor, TypeOK
  <2>6. ASSUME NEW credentials \in Credentials, setCredentials(credentials)
        PROVE  TypeOK'
    BY <2>6, ConfTypes, ChangeTypeOK DEF setCredentials, TypeOK
  <2>7. ASSUME NEW minutes \in Period, setProperties(minutes)
        PROVE  TypeOK'
    BY <2>7, ConfTypes, ChangeTypeOK DEF setProperties, TypeOK
  <2>8. ASSUME NEW ssid \in SSID, setWifi(ssid)
        PROVE  TypeOK'
    BY <2>8, ConfTypes, ChangeTypeOK DEF setWifi, TypeOK
  <2> QED
    BY <1>2, <2>1, <2>2, <2>3, <2>4, <2>5, <2>6, <2>7, <2>8 DEF Web
<1>3. CASE Loop
  <2>1. CASE Connected
    BY <2>1 DEF Connected, OnlyApp, TypeOK
  <2>2. CASE CannotConnect
    BY <2>2, BootTypeOK DEF CannotConnect
  <2>3. CASE PairClick
    BY <2>3 DEF PairClick, OnlyApp, TypeOK
  <2>4. CASE PairingTimeout
    BY <2>4, ZenonT(60) DEF PairingTimeout, OnlyApp, TypeOK
  <2>5. CASE WifiClick
    BY <2>5 DEF WifiClick, OnlyApp, TypeOK
  <2>6. CASE ConfiguratorTimeout
    BY <2>6, BootTypeOK DEF ConfiguratorTimeout
  <2>7. CASE FactoryReset
    BY <2>7, DefaultType DEF FactoryReset, SaveThen, TypeOK
  <2> QED
    BY <1>3, <2>1, <2>2, <2>3, <2>4, <2>5, <2>6, <2>7 DEF Loop
<1>4. ASSUME NEW t \in Adder, ChooseName(t) \/ CheckSpace(t) \/ Insert(t)
      PROVE  TypeOK'
  <2>1. CASE ChooseName(t)
    <3>1. newSensorName(m_jsonData, sensor[t].name) \in Name
      BY ConfTypes DEF TypeOK
    <3> QED
      BY <1>4, <2>1, <3>1 DEF ChooseName, TypeOK
  <2>2. CASE CheckSpace(t)
    BY <1>4, <2>2 DEF CheckSpace, TypeOK
  <2>3. CASE Insert(t)
    <3>1. withSensor(m_jsonData, sensor[t].identifier, sensor[t].name) \in Conf
      BY <2>3, ConfTypes DEF Insert, TypeOK
    <3> QED
      BY <1>4, <2>3, <3>1 DEF Insert, TypeOK
  <2> QED
    BY <1>4, <2>1, <2>2, <2>3
<1>5. ASSUME NEW t \in Task, Dump(t) \/ Close(t) \/ Restart(t)
      PROVE  TypeOK'
  <2>1. CASE Dump(t)
    <3>1. dump(m_jsonData) \in File
      BY ConfTypes DEF TypeOK
    <3> QED
      BY <1>5, <2>1, <3>1 DEF Dump, TypeOK
  <2>2. CASE Close(t)
    <3>1. Blank \in File
      BY DEF File
    <3> QED
      BY <1>5, <2>2, <3>1, NoSensorType DEF Close, TypeOK
  <2>3. CASE Restart(t)
    BY <2>3, BootTypeOK DEF Restart
  <2> QED
    BY <1>5, <2>1, <2>2, <2>3
<1>6. CASE PowerLoss
  BY <1>6, BootTypeOK DEF PowerLoss
<1>7. CASE UNCHANGED vars
  BY <1>7 DEF vars, TypeOK
<1> QED
  BY <1>1, <1>2, <1>3, <1>4, <1>5, <1>6, <1>7 DEF Next, Add, Save

----------------------------------------------------------------------------
\* A task that was in its handler, or was free, leaves the others idle.
LEMMA Turn ==
  ASSUME TypeOK, Alone, ~Overlap, NEW t \in Task, pc[t] # "idle" \/ Free(t),
         NEW step, pc' = [pc EXCEPT ![t] = step]
  PROVE  /\ \A u \in Task \ {t} : pc[u] = "idle" /\ pc'[u] = "idle"
         /\ pc'[t] = step
         /\ Alone'
<1>1. pc \in [Task -> Step]
  BY DEF TypeOK
<1>2. \A u \in Task \ {t} : pc[u] = "idle"
  BY DEF Alone, Free
<1>3. \A u \in Task \ {t} : pc'[u] = "idle"
  BY <1>1, <1>2
<1> QED
  BY <1>1, <1>2, <1>3 DEF Alone

\* A handler of the radio task goes from one step to the next.
LEMMA RadioTurn ==
  ASSUME TypeOK, Radio
  PROVE  /\ pc["radio"] # "idle" \/ Free("radio")
         /\ pc["radio"] \notin {"dump", "close"}
         /\ \E step \in Step \ {"insert", "dump", "close"} :
               pc' = [pc EXCEPT !["radio"] = step]
         /\ UNCHANGED <<m_jsonData, file, data>>
  BY DEF Radio, PairRequest, IsPaired, HasSpace, SendPairOK, Free, Goto, Step,
         stored

\* So does one of the web task, or it changes the document and then saves it.
LEMMA WebTurn ==
  ASSUME TypeOK, Web
  PROVE  /\ pc["web"] # "idle" \/ Free("web")
         /\ pc["web"] \notin {"dump", "close"}
         /\ \E step \in Step \ {"insert", "close"} :
               /\ pc' = [pc EXCEPT !["web"] = step]
               /\ step = "dump" \/ UNCHANGED m_jsonData
         /\ UNCHANGED <<file, data>>
  BY DEF Web, updateSensorsMapping, NextItem, LastItem, SendOK, RemoveSensor,
         setCredentials, setProperties, setWifi, ChangeAndSave, SaveThen, Free,
         Goto, Step, stored

\* The loop boots, or changes no document, or resets it and then saves.
LEMMA LoopTurn ==
  ASSUME TypeOK, Loop
  PROVE  /\ Free("loop")
         /\ \/ Boot
            \/ UNCHANGED <<m_jsonData, file, data, pc>>
            \/ /\ pc' = [pc EXCEPT !["loop"] = "dump"]
               /\ m_jsonData' = setDefault
               /\ UNCHANGED <<file, data>>
  BY DEF Loop, Connected, CannotConnect, PairClick, PairingTimeout, WifiClick,
         ConfiguratorTimeout, FactoryReset, SaveThen, Goto, OnlyApp, stored

\* The steps of addSensor and save.
LEMMA AddTurn ==
  ASSUME TypeOK, NEW t \in Adder, ChooseName(t) \/ CheckSpace(t) \/ Insert(t)
  PROVE  /\ t \in Task /\ pc[t] \notin {"idle", "dump", "close"}
         /\ \E step \in {"space", "insert", "dump"} :
               /\ pc' = [pc EXCEPT ![t] = step]
               /\ step = "dump" \/ UNCHANGED m_jsonData
         /\ UNCHANGED <<file, data>>
  BY DEF ChooseName, CheckSpace, Insert, Goto, stored, Adder, Task

LEMMA SaveTurn ==
  ASSUME TypeOK, NEW t \in Task, Dump(t) \/ Close(t)
  PROVE  /\ pc[t] # "idle"
         /\ \E step : pc' = [pc EXCEPT ![t] = step]
  BY DEF Dump, Close, Goto

LEMMA NextAlone == ASSUME TypeOK, Alone, [Next]_vars PROVE Alone'
<1>1. CASE Overlap
  BY <1>1 DEF Alone
<1>2. CASE UNCHANGED vars
  BY <1>2 DEF vars, Alone
<1>3. CASE Boot
  BY <1>3, IdleTypes DEF Boot, Start, Alone
<1>4. CASE ~Overlap /\ Next
  <2>0. "radio" \in Task /\ "web" \in Task /\ "loop" \in Task
    BY IdleTypes
  <2>1. CASE Radio
    BY <1>4, <2>0, <2>1, RadioTurn, Turn
  <2>2. CASE Web
    BY <1>4, <2>0, <2>2, WebTurn, Turn
  <2>3. CASE Loop
    <3>1. CASE UNCHANGED pc
      BY <3>1 DEF Alone
    <3> QED
      BY <1>3, <1>4, <2>0, <2>3, <3>1, LoopTurn, Turn
  <2>4. ASSUME NEW t \in Adder, ChooseName(t) \/ CheckSpace(t) \/ Insert(t)
        PROVE  Alone'
    BY <1>4, <2>4, AddTurn, Turn
  <2>5. ASSUME NEW t \in Task, Dump(t) \/ Close(t)
        PROVE  Alone'
    BY <1>4, <2>5, SaveTurn, Turn
  <2> QED
    BY <1>3, <1>4, <2>1, <2>2, <2>3, <2>4, <2>5
       DEF Next, Add, Save, Restart, PowerLoss
<1> QED
  BY <1>1, <1>2, <1>3, <1>4

----------------------------------------------------------------------------
\* Claims and documents after a boot.
LEMMA BootClaimed ==
  ASSUME TypeOK, Claimed, Boot
  PROVE  Claimed'
<1>1. Size(load(file, setDefault)) <= Limit
  BY DefaultType, LimitType DEF Claimed, load
<1>2. Claim("radio")' = 0 /\ Claim("web")' = 0
  BY IdleTypes DEF Boot, Start, Claim
<1>3. Size(load(file, setDefault)) \in Nat
  BY DefaultType, ConfTypes, Sizes DEF TypeOK
<1> QED
  BY <1>1, <1>2, <1>3, LimitType DEF Boot, Start, Claimed, EachTask

\* A step that makes no document larger and takes no new claim.
LEMMA ClaimedKept ==
  ASSUME TypeOK, TypeOK', Claimed,
         Size(m_jsonData') <= Size(m_jsonData),
         pc'["radio"] = "insert" => pc["radio"] = "insert",
         pc'["web"] = "insert" => pc["web"] = "insert",
         UNCHANGED <<file, data>>
  PROVE  Claimed'
<1>1. /\ Size(m_jsonData) \in Nat /\ Size(m_jsonData') \in Nat
      /\ Limit \in Nat
  BY Sizes, LimitType DEF TypeOK
<1>2. Size(m_jsonData') + Claim("radio")' + Claim("web")' <= Limit
  BY <1>1 DEF Claimed, Claim
<1> QED
  BY <1>2 DEF Claimed

\* Every step of every task keeps the claims within one of the number of
\* sensors, and within it if no other task can come between.
LEMMA NextClaimed ==
  ASSUME TypeOK, Alone, Claimed, [Next]_vars
  PROVE  Claimed'
<1>0. TypeOK'
  BY NextTypeOK
<1>1. /\ Size(m_jsonData) \in Nat
      /\ Size(m_jsonData') \in Nat
      /\ maxSensorsNum \in Nat /\ Limit \in Nat
  BY <1>0, Sizes, MaxAssumption, LimitType DEF TypeOK
<1> USE DEF Goto, Task, Adder, stored, app, request
<1>2. CASE Radio
  <2>1. /\ UNCHANGED <<m_jsonData, file, data>>
        /\ pc'["radio"] # "insert" /\ pc'["web"] = pc["web"]
    BY <1>2 DEF Radio, PairRequest, IsPaired, HasSpace, SendPairOK, TypeOK
  <2> QED
    BY <1>0, <1>1, <2>1, ClaimedKept
<1>3. CASE Web
  <2>1. /\ UNCHANGED <<file, data>>
        /\ pc'["web"] # "insert" /\ pc'["radio"] = pc["radio"]
    BY <1>3 DEF Web, updateSensorsMapping, NextItem, LastItem, SendOK,
         RemoveSensor, setCredentials, setProperties, setWifi, ChangeAndSave,
         SaveThen, TypeOK
  <2>2. Size(m_jsonData') <= Size(m_jsonData)
    BY <1>1, <1>3, Sizes DEF Web, updateSensorsMapping, NextItem, LastItem, SendOK,
         RemoveSensor, setCredentials, setProperties, setWifi, ChangeAndSave,
         TypeOK
  <2> QED
    BY <1>0, <2>1, <2>2, ClaimedKept
<1>4. CASE Loop
  <2>1. CASE CannotConnect \/ ConfiguratorTimeout
    BY <2>1, BootClaimed DEF CannotConnect, ConfiguratorTimeout
  <2>2. CASE Connected \/ PairClick \/ PairingTimeout \/ WifiClick
    BY <1>0, <1>1, <2>2, ClaimedKept
       DEF Connected, PairClick, PairingTimeout, WifiClick, OnlyApp
  <2>3. CASE FactoryReset
    <3>1. /\ m_jsonData' = setDefault
          /\ UNCHANGED <<file, data>>
          /\ pc'["web"] = pc["web"] /\ pc'["radio"] = pc["radio"]
      BY <2>3 DEF FactoryReset, SaveThen, TypeOK
    <3>2. Size(m_jsonData') <= Size(m_jsonData)
      BY <1>1, <3>1, DefaultType
    <3> QED
      BY <1>0, <3>1, <3>2, ClaimedKept
  <2> QED
    BY <1>4, <2>1, <2>2, <2>3 DEF Loop
<1>5. ASSUME NEW t \in Adder, ChooseName(t)
      PROVE  Claimed'
  <2>1. /\ UNCHANGED <<m_jsonData, file, data>>
        /\ pc'["radio"] = "insert" => pc["radio"] = "insert"
        /\ pc'["web"] = "insert" => pc["web"] = "insert"
    BY <1>5 DEF ChooseName, TypeOK
  <2> QED
    BY <1>0, <1>1, <2>1, ClaimedKept
<1>6. ASSUME NEW t \in Adder, CheckSpace(t)
      PROVE  Claimed'
  <2>1. UNCHANGED <<m_jsonData, file, data>>
    BY <1>6 DEF CheckSpace
  <2>2. CASE isAvailableSpaceForNextSensor(m_jsonData)
    <3>1. /\ Size(m_jsonData) < maxSensorsNum
          /\ Limit = IF Overlap THEN maxSensorsNum + 1 ELSE maxSensorsNum
      BY <2>2 DEF isAvailableSpaceForNextSensor, Size, Limit
    <3>2. CASE t = "radio"
      <4>1. /\ Claim("radio")' = 1 /\ Claim("web")' \in {0, 1}
            /\ ~Overlap => Claim("web")' = 0
        BY <1>6, <2>2, <3>2 DEF CheckSpace, Claim, TypeOK, Alone
      <4> QED
        BY <1>1, <2>1, <3>1, <4>1 DEF Claimed
    <3>3. CASE t = "web"
      <4>1. /\ Claim("web")' = 1 /\ Claim("radio")' \in {0, 1}
            /\ ~Overlap => Claim("radio")' = 0
        BY <1>6, <2>2, <3>3 DEF CheckSpace, Claim, TypeOK, Alone
      <4> QED
        BY <1>1, <2>1, <3>1, <4>1 DEF Claimed
    <3> QED
      BY <3>2, <3>3
  <2>3. CASE ~isAvailableSpaceForNextSensor(m_jsonData)
    <3>1. /\ pc'["radio"] = "insert" => pc["radio"] = "insert"
          /\ pc'["web"] = "insert" => pc["web"] = "insert"
      BY <1>6, <2>3 DEF CheckSpace, TypeOK
    <3> QED
      BY <1>0, <1>1, <2>1, <3>1, ClaimedKept
  <2> QED
    BY <2>2, <2>3
<1>7. ASSUME NEW t \in Adder, Insert(t)
      PROVE  Claimed'
  <2>1. /\ Size(m_jsonData') <= Size(m_jsonData) + 1
        /\ UNCHANGED <<file, data>>
    BY <1>7, Sizes DEF Insert, TypeOK
  <2>2. CASE t = "radio"
    <3>1. /\ Claim("radio") = 1 /\ Claim("radio")' = 0
          /\ Claim("web")' = Claim("web") /\ Claim("web") \in {0, 1}
      BY <1>7, <2>2 DEF Insert, Claim, TypeOK
    <3> QED
      BY <1>1, <2>1, <3>1 DEF Claimed
  <2>3. CASE t = "web"
    <3>1. /\ Claim("web") = 1 /\ Claim("web")' = 0
          /\ Claim("radio")' = Claim("radio") /\ Claim("radio") \in {0, 1}
      BY <1>7, <2>3 DEF Insert, Claim, TypeOK
    <3> QED
      BY <1>1, <2>1, <3>1 DEF Claimed
  <2> QED
    BY <2>2, <2>3
<1>8. ASSUME NEW t \in Task, Dump(t)
      PROVE  Claimed'
  <2>1. /\ UNCHANGED <<m_jsonData, file>>
        /\ pc'["radio"] = "insert" => pc["radio"] = "insert"
        /\ pc'["web"] = "insert" => pc["web"] = "insert"
    BY <1>8 DEF Dump, TypeOK
  <2>2. Size(m_jsonData) <= Limit
    BY <1>1 DEF Claimed, Claim
  <2>3. \A u \in Task : data'[u] # Blank => Size(data'[u]) <= Limit
    BY <1>8, <2>2 DEF Dump, dump, Claimed, TypeOK
  <2>4. Size(m_jsonData') + Claim("radio")' + Claim("web")' <= Limit
    BY <1>1, <2>1 DEF Claimed, Claim
  <2> QED
    BY <2>1, <2>3, <2>4 DEF Claimed
<1>9. ASSUME NEW t \in Task, Close(t)
      PROVE  Claimed'
  <2>1. /\ UNCHANGED m_jsonData
        /\ pc'["radio"] = "insert" => pc["radio"] = "insert"
        /\ pc'["web"] = "insert" => pc["web"] = "insert"
    BY <1>9 DEF Close, TypeOK
  <2>2. /\ file' # Blank => Size(file') <= Limit
        /\ \A u \in Task : data'[u] # Blank => Size(data'[u]) <= Limit
    BY <1>9 DEF Close, Claimed, TypeOK
  <2>3. Size(m_jsonData') + Claim("radio")' + Claim("web")' <= Limit
    BY <1>1, <2>1 DEF Claimed, Claim
  <2> QED
    BY <2>2, <2>3 DEF Claimed
<1>10. ASSUME NEW t \in Task, Restart(t)
       PROVE  Claimed'
  BY <1>10, BootClaimed DEF Restart
<1>11. CASE PowerLoss
  BY <1>11, BootClaimed DEF PowerLoss
<1>12. CASE UNCHANGED vars
  BY <1>12 DEF vars, Claimed, Claim
<1> QED
  BY <1>2, <1>3, <1>4, <1>5, <1>6, <1>7, <1>8, <1>9, <1>10, <1>11, <1>12
     DEF Next, Add, Save

----------------------------------------------------------------------------
\* No interleaving of the tasks' handlers and no power loss makes the document,
\* its copies or the handlers' state anything the code does not expect.
THEOREM TypeCorrect == Spec => []TypeOK
  BY InitTypeOK, NextTypeOK, PTL DEF Spec

LEMMA InitClaimed == Init => Claimed
<1>1. Init => Claim("radio") = 0 /\ Claim("web") = 0
  BY IdleTypes DEF Init, Claim
<1> QED
  BY <1>1, DefaultType, LimitType DEF Init, Claimed, EachTask

LEMMA InitAlone == Init => Alone
<1> SUFFICES ASSUME Init PROVE Alone
  OBVIOUS
<1> QED
  BY IdleTypes DEF Init, Alone

\* The radio and the web task each check for space before they insert
\* (ConfStorage.cpp:166-168) and no lock spans both: whatever the limit, memory
\* and file hold at most one sensor more.
THEOREM BoundedByOneMore == Spec => []SensorsBounded
<1>1. TypeOK /\ Claimed => SensorsBounded
  <2> SUFFICES ASSUME TypeOK, Claimed PROVE SensorsBounded
    OBVIOUS
  <2>1. /\ Size(m_jsonData) \in Nat
        /\ Limit \in Nat /\ maxSensorsNum \in Nat
        /\ Limit <= maxSensorsNum + 1
    BY Sizes, LimitType, MaxAssumption DEF TypeOK
  <2>2. Size(m_jsonData) <= Limit
    BY <2>1 DEF Claimed, Claim
  <2>3. file # Blank => Size(file) \in Nat /\ Size(file) <= Limit
    BY Sizes DEF TypeOK, File, Claimed
  <2> QED
    BY <2>1, <2>2, <2>3 DEF SensorsBounded, Size
<1> QED
  BY InitTypeOK, NextTypeOK, InitAlone, NextAlone, InitClaimed, NextClaimed, <1>1,
     PTL DEF Spec

\* The overlap is what it takes: no power loss and no order of whole handlers
\* lets in a sensor there is no room for.
THEOREM LimitKeptAlone == ASSUME Overlap = FALSE PROVE Spec => []LimitKept
<1>1. TypeOK /\ Claimed => LimitKept
  <2> SUFFICES ASSUME TypeOK, Claimed PROVE LimitKept
    OBVIOUS
  <2>1. /\ Size(m_jsonData) \in Nat /\ maxSensorsNum \in Nat
        /\ Limit = maxSensorsNum
    BY Sizes, MaxAssumption DEF TypeOK, Limit
  <2> QED
    BY <2>1 DEF Claimed, Claim, LimitKept, Size
<1> QED
  BY InitTypeOK, NextTypeOK, InitAlone, NextAlone, InitClaimed, NextClaimed, <1>1,
     PTL DEF Spec

----------------------------------------------------------------------------
\* A step of a handler that is not writing a file leaves the file the newest,
\* or is about to write it.
LEMMA StepDurable ==
  ASSUME TypeOK, Alone, ~Overlap, Printed, Durable,
         NEW t \in Task, pc[t] # "idle" \/ Free(t), pc[t] \notin {"dump", "close"},
         NEW step, step # "close", pc' = [pc EXCEPT ![t] = step],
         step = "dump" \/ UNCHANGED m_jsonData,
         UNCHANGED <<file, data>>
  PROVE  Printed' /\ Durable'
<1>1. /\ \A u \in Task \ {t} : pc[u] = "idle" /\ pc'[u] = "idle"
      /\ pc'[t] = step
  BY Turn
<1>2. Printed'
  BY <1>1 DEF Printed
<1>3. CASE step = "dump"
  BY <1>1, <1>2, <1>3 DEF Durable
<1>4. CASE UNCHANGED m_jsonData
  <2>1. load(file, setDefault) = m_jsonData
    BY <1>1 DEF Durable
  <2> QED
    BY <1>2, <1>4, <2>1 DEF Durable
<1> QED
  BY <1>3, <1>4

LEMMA BootDurable == ASSUME Boot PROVE Printed' /\ Durable'
  BY IdleTypes DEF Boot, Start, Printed, Durable

\* With handlers that do not overlap and names of networks that can be dumped,
\* no step leaves a file that is not the document.
LEMMA NextDurable ==
  ASSUME TypeOK, Alone, ~Overlap, Undumpable = {}, Printed, Durable, [Next]_vars
  PROVE  Printed' /\ Durable'
<1>0. "radio" \in Task /\ "web" \in Task /\ "loop" \in Task
  BY IdleTypes
<1>1. CASE Radio
  BY <1>0, <1>1, RadioTurn, StepDurable
<1>2. CASE Web
  BY <1>0, <1>2, WebTurn, StepDurable
<1>3. CASE Loop
  <2>1. CASE UNCHANGED <<m_jsonData, file, data, pc>>
    BY <2>1 DEF Printed, Durable
  <2> QED
    BY <1>0, <1>3, <2>1, LoopTurn, StepDurable, BootDurable DEF Free
<1>4. ASSUME NEW t \in Adder, ChooseName(t) \/ CheckSpace(t) \/ Insert(t)
      PROVE  Printed' /\ Durable'
  BY <1>4, AddTurn, StepDurable
<1>5. ASSUME NEW t \in Task, Dump(t)
      PROVE  Printed' /\ Durable'
  <2>1. /\ \A u \in Task \ {t} : pc'[u] = "idle"
        /\ pc'[t] = "close"
    BY <1>5, Turn DEF Dump, Goto
  <2>2. data'[t] = m_jsonData /\ UNCHANGED m_jsonData
    BY <1>5 DEF Dump, dump, TypeOK, stored
  <2> QED
    BY <2>1, <2>2 DEF Printed, Durable
<1>6. ASSUME NEW t \in Task, Close(t)
      PROVE  Printed' /\ Durable'
  <2>1. /\ \A u \in Task \ {t} : pc'[u] = "idle"
        /\ pc'[t] = return[t]
    BY <1>6, Turn DEF Close, Goto
  <2>2. return[t] \notin {"dump", "close"}
    BY DEF TypeOK
  <2>3. file' = m_jsonData /\ UNCHANGED m_jsonData /\ m_jsonData # Blank
    BY <1>6, ValuesAssumption DEF Close, Printed, TypeOK
  <2> QED
    BY <2>1, <2>2, <2>3 DEF Printed, Durable, load
<1>7. CASE UNCHANGED vars
  BY <1>7 DEF vars, stored, Printed, Durable
<1> QED
  BY <1>1, <1>2, <1>3, <1>4, <1>5, <1>6, <1>7, BootDurable
     DEF Next, Add, Save, Restart, PowerLoss

LEMMA InitDurable == Init => Printed /\ Durable
<1> SUFFICES ASSUME Init PROVE Printed /\ Durable
  OBVIOUS
<1> QED
  BY IdleTypes DEF Init, Printed, Durable, load

\* If no handlers overlap and every SSID can be dumped, what a handler confirms
\* is in the file, through any history of requests, pairings and power losses.
THEOREM DurableAlone ==
  ASSUME Overlap = FALSE, Undumpable = {} PROVE Spec => []Durable
<1>1. TypeOK /\ Alone /\ Printed /\ Durable /\ [Next]_vars => Printed' /\ Durable'
  BY NextDurable
<1> QED
  BY InitTypeOK, NextTypeOK, InitAlone, NextAlone, InitDurable, <1>1, PTL DEF Spec

\* "SSID and password configured. Rebooting." (wifiSettings.html:43) is true of
\* every SSID that can be dumped when no other handler comes between.
THEOREM WifiConfiguredAlone ==
  ASSUME Overlap = FALSE, Undumpable = {} PROVE Spec => []WifiConfigured
<1>1. ASSUME TypeOK, Alone, Durable
      PROVE  WifiConfigured
  <2> SUFFICES ASSUME pc["web"] = "restart"
               PROVE  load(file, setDefault).wifi = m_jsonData.wifi
    BY DEF WifiConfigured
  <2>1. \A t \in Task : pc[t] \notin {"dump", "close"}
    BY <1>1, IdleTypes DEF Alone
  <2> QED
    BY <1>1, <2>1 DEF Durable
<1>2. Spec => [](TypeOK /\ Alone)
  BY InitTypeOK, NextTypeOK, InitAlone, NextAlone, PTL DEF Spec
<1> QED
  BY <1>1, <1>2, DurableAlone, PTL

----------------------------------------------------------------------------
\* A reset under way: the document, what is printed and what is in the file.
Defaults ==
  /\ pc["loop"] # "idle" => m_jsonData = setDefault
  /\ pc["loop"] = "close" => data["loop"] = setDefault
  /\ pc["loop"] = "restart" => load(file, setDefault) = setDefault

LEMMA NextDefaults ==
  ASSUME TypeOK, Alone, ~Overlap, Defaults, [Next]_vars
  PROVE  Defaults'
<1>0. "radio" \in Task /\ "web" \in Task /\ "loop" \in Task /\ Adder \subseteq Task
  BY IdleTypes
\* A step of another task leaves the loop idle.
<1>1. ASSUME NEW t \in Task, t # "loop", pc[t] # "idle" \/ Free(t),
             NEW step, pc' = [pc EXCEPT ![t] = step]
      PROVE  Defaults'
  <2>1. pc'["loop"] = "idle"
    BY <1>0, <1>1, Turn
  <2> QED
    BY <2>1 DEF Defaults
<1>2. CASE Radio
  BY <1>0, <1>1, <1>2, RadioTurn
<1>3. CASE Web
  BY <1>0, <1>1, <1>3, WebTurn
<1>4. CASE Boot
  BY <1>0, <1>4, IdleTypes DEF Boot, Start, Defaults
<1>5. CASE Loop
  <2>1. CASE UNCHANGED <<m_jsonData, file, data, pc>>
    BY <2>1 DEF Defaults
  <2>2. CASE /\ pc' = [pc EXCEPT !["loop"] = "dump"]
             /\ m_jsonData' = setDefault
    <3>1. pc'["loop"] = "dump"
      BY <1>0, <2>2 DEF TypeOK
    <3> QED
      BY <2>2, <3>1 DEF Defaults
  <2> QED
    BY <1>4, <1>5, <2>1, <2>2, LoopTurn
<1>6. ASSUME NEW t \in Adder, ChooseName(t) \/ CheckSpace(t) \/ Insert(t)
      PROVE  Defaults'
  <2>1. t # "loop"
    BY DEF Adder
  <2> QED
    BY <1>0, <1>1, <1>6, <2>1, AddTurn
<1>7. ASSUME NEW t \in Task, t # "loop", Dump(t) \/ Close(t)
      PROVE  Defaults'
  BY <1>1, <1>7, SaveTurn
<1>8. CASE Dump("loop")
  <2>1. /\ pc'["loop"] = "close" /\ m_jsonData' = m_jsonData
        /\ data'["loop"] = dump(m_jsonData)
    BY <1>0, <1>8 DEF Dump, Goto, TypeOK, stored
  <2>2. m_jsonData = setDefault
    BY <1>8 DEF Dump, Defaults
  <2>3. dump(setDefault) = setDefault
    BY DefaultsAssumption, ValuesAssumption DEF dump, setDefault
  <2> QED
    BY <2>1, <2>2, <2>3 DEF Defaults
<1>9. CASE Close("loop")
  <2>1. /\ pc'["loop"] # "close" /\ m_jsonData' = m_jsonData
        /\ file' = data["loop"]
    BY <1>0, <1>9 DEF Close, Goto, TypeOK
  <2>2. m_jsonData = setDefault /\ data["loop"] = setDefault
    BY <1>9 DEF Close, Defaults
  <2> QED
    BY <2>1, <2>2 DEF Defaults, load
<1>10. CASE UNCHANGED vars
  BY <1>10 DEF vars, stored, Defaults
<1> QED
  BY <1>2, <1>3, <1>4, <1>5, <1>6, <1>7, <1>8, <1>9, <1>10
     DEF Next, Add, Save, Restart, PowerLoss

LEMMA InitDefaults == Init => Defaults
<1> SUFFICES ASSUME Init PROVE Defaults
  OBVIOUS
<1> QED
  BY IdleTypes DEF Init, Defaults

\* "Reset to factory settings!" (App.cpp:100) comes true, whatever SSID was
\* stored, if no other handler runs between the reset and the restart.
THEOREM ResetSticksAlone == ASSUME Overlap = FALSE PROVE Spec => []ResetSticks
<1>1. TypeOK /\ Alone /\ Defaults /\ [Next]_vars => Defaults'
  BY NextDefaults
<1>2. Defaults => ResetSticks
  BY DEF Defaults, ResetSticks
<1> QED
  BY InitTypeOK, NextTypeOK, InitAlone, NextAlone, InitDefaults, <1>1, <1>2, PTL
     DEF Spec

----------------------------------------------------------------------------
\* What the radio task has found out holds until it has inserted the sensor.
LEMMA NextNaming ==
  ASSUME TypeOK, Alone, ~Overlap, Naming, [Next]_vars
  PROVE  Naming'
<1>0. "radio" \in Task /\ "web" \in Task /\ "loop" \in Task /\ Adder \subseteq Task
  BY IdleTypes
<1>1. pc \in [Task -> Step] /\ DOMAIN sensor = Task /\ m_jsonData \in Conf
  BY DEF TypeOK
\* Once the radio task is past its insertion nothing is claimed.
<1>2. ASSUME pc'["radio"] \notin {"isPaired", "hasSpace", "naming", "space", "insert"}
      PROVE  Naming'
  BY <1>2 DEF Naming
\* A step of another task leaves the radio task idle.
<1>3. ASSUME NEW t \in Task, t # "radio", pc[t] # "idle" \/ Free(t),
             NEW step, pc' = [pc EXCEPT ![t] = step]
      PROVE  Naming'
  <2>1. pc'["radio"] = "idle"
    BY <1>0, <1>3, Turn, ZenonT(60)
  <2> QED
    BY <1>2, <2>1
<1>4. CASE Radio
  <2>1. ASSUME NEW id \in IDs, PairRequest(id)
        PROVE  Naming'
    <3>1. /\ pc'["radio"] = "isPaired"
          /\ sensor' = [sensor EXCEPT !["radio"] =
                          [identifier |-> id, name |-> NoName]]
      BY <1>0, <1>1, <2>1 DEF PairRequest, Goto
    <3>2. sensor'["radio"].name = NoName
      BY <1>0, <1>1, <3>1
    <3> QED
      BY <3>1, <3>2 DEF Naming
  <2>2. CASE IsPaired
    BY <1>0, <1>1, <2>2 DEF IsPaired, Goto, Naming
  <2>3. CASE HasSpace
    BY <1>0, <1>1, <2>3 DEF HasSpace, Goto, Naming, stored
  <2>4. CASE SendPairOK
    BY <1>0, <1>1, <1>2, <2>4 DEF SendPairOK, Goto
  <2> QED
    BY <1>4, <2>1, <2>2, <2>3, <2>4 DEF Radio
<1>5. CASE ChooseName("radio")
  <2> DEFINE name == newSensorName(m_jsonData, NoName)
  <2>1. /\ pc'["radio"] = "space"
        /\ UNCHANGED m_jsonData
        /\ sensor' = [sensor EXCEPT !["radio"].name =
                        newSensorName(m_jsonData, sensor["radio"].name)]
    BY <1>0, <1>1, <1>5 DEF ChooseName, Goto, stored
  <2>2. sensor["radio"].name = NoName /\ isAvailableSpaceForNextSensor(m_jsonData)
    BY <1>5 DEF ChooseName, Naming
  <2>3. ~nameExists(m_jsonData, name) /\ name # NoName
    BY <1>1, <2>2, DefaultName, ValuesAssumption
  <2> HIDE DEF name
  <2>4. sensor'["radio"].name = name
    BY <1>0, <2>1, <2>2 DEF TypeOK, name
  <2> QED
    BY <2>1, <2>3, <2>4 DEF Naming
<1>6. CASE CheckSpace("radio")
  <2>1. /\ pc'["radio"] \in {"insert", "dump"}
        /\ UNCHANGED <<m_jsonData, sensor>>
        /\ pc["radio"] = "space"
    BY <1>0, <1>1, <1>6 DEF CheckSpace, Goto, stored
  <2> QED
    BY <2>1 DEF Naming
<1>7. CASE Insert("radio") \/ Dump("radio")
  BY <1>0, <1>1, <1>2, <1>7 DEF Insert, Dump, Goto
<1>8. CASE Close("radio")
  <2>1. pc'["radio"] = return["radio"]
    BY <1>0, <1>1, <1>8 DEF Close, Goto
  <2> QED
    BY <1>0, <1>2, <2>1 DEF TypeOK
<1>9. CASE Web
  BY <1>0, <1>3, <1>9, WebTurn
<1>10. CASE Boot
  BY <1>0, <1>2, <1>10, IdleTypes DEF Boot, Start
<1>11. CASE Loop
  <2>1. CASE UNCHANGED pc
    BY <1>0, <1>2, <1>11, <2>1, LoopTurn DEF Free
  <2> QED
    BY <1>0, <1>3, <1>10, <1>11, <2>1, LoopTurn
<1>12. ASSUME NEW t \in Adder, t # "radio", ChooseName(t) \/ CheckSpace(t) \/ Insert(t)
       PROVE  Naming'
  BY <1>3, <1>12, AddTurn
<1>13. ASSUME NEW t \in Task, t # "radio", Dump(t) \/ Close(t)
       PROVE  Naming'
  BY <1>3, <1>13, SaveTurn
<1>14. CASE UNCHANGED vars
  BY <1>14 DEF vars, stored, Naming
<1> QED
  BY <1>4, <1>5, <1>6, <1>7, <1>8, <1>9, <1>10, <1>11, <1>12, <1>13, <1>14
     DEF Next, Add, Save, Restart, PowerLoss

LEMMA InitNaming == Init => Naming
<1> SUFFICES ASSUME Init PROVE Naming
  OBVIOUS
<1> QED
  BY IdleTypes DEF Init, Naming

\* If no handlers overlap, a sensor is paired under a default name that no
\* other has: there is space, so one of the names is free (the pigeonhole of
\* DefaultNameFree), and it stays free until the insertion.
THEOREM FreshNameAlone == ASSUME Overlap = FALSE PROVE Spec => FreshName
<1>1. TypeOK /\ Alone /\ Naming /\ [Next]_vars => Naming'
  BY NextNaming
<1>2. ASSUME Naming, pc["radio"] = "insert"
      PROVE  /\ sensor["radio"].name # NoName
             /\ \A id \in DOMAIN m_jsonData.sensors \ {sensor["radio"].identifier} :
                   m_jsonData.sensors[id] # sensor["radio"].name
  BY <1>2 DEF Naming, nameExists
<1> QED
  BY InitTypeOK, NextTypeOK, InitAlone, NextAlone, InitNaming, <1>1, <1>2, PTL
     DEF Spec, FreshName

----------------------------------------------------------------------------
\* A document whose sensors all have a name.
AllNamed(c) == \A id \in DOMAIN c.sensors : c.sensors[id] # NoName

\* The strengthening of Named: the copies of the document are like it, and a
\* task that will insert has a name.
Nameable ==
  /\ AllNamed(m_jsonData)
  /\ file # Blank => AllNamed(file)
  /\ \A t \in Task : data[t] # Blank => AllNamed(data[t])
  /\ \A t \in Adder :
        /\ pc[t] = "space" => \/ sensor[t].name # NoName
                              \/ ~isAvailableSpaceForNextSensor(m_jsonData)
        /\ pc[t] = "insert" => sensor[t].name # NoName

\* The calls that keep every sensor's name.
LEMMA NamesKept ==
  /\ AllNamed(setDefault)
  /\ \A c \in Conf : AllNamed(c) =>
        /\ \A id, name : name # NoName => AllNamed(withSensor(c, id, name))
        /\ \A id : AllNamed(removeSensor(c, id))
        /\ \A ssid : AllNamed(setWifiConfig(c, ssid))
        /\ \A a : AllNamed(setAdminCredentials(c, a))
        /\ \A p : AllNamed(setSensorUpdatePeriodMins(c, p))
<1>1. AllNamed(setDefault)
  BY DEF AllNamed, setDefault
<1>2. ASSUME NEW c \in Conf, AllNamed(c), NEW id, NEW name, name # NoName
      PROVE  AllNamed(withSensor(c, id, name))
  BY <1>2 DEF AllNamed, withSensor, Conf
<1>3. ASSUME NEW c \in Conf, AllNamed(c), NEW id
      PROVE  AllNamed(removeSensor(c, id))
  BY <1>3 DEF AllNamed, removeSensor, Conf
<1>4. ASSUME NEW c \in Conf, AllNamed(c), NEW v
      PROVE  /\ AllNamed(setWifiConfig(c, v))
             /\ AllNamed(setAdminCredentials(c, v))
             /\ AllNamed(setSensorUpdatePeriodMins(c, v))
  BY <1>4 DEF AllNamed, setWifiConfig, setAdminCredentials,
              setSensorUpdatePeriodMins, Conf
<1> QED
  BY <1>1, <1>2, <1>3, <1>4

\* What the web task and the loop make of a document in which all are named.
LEMMA ChangeNamed ==
  ASSUME TypeOK, Nameable, Web \/ Loop
  PROVE  AllNamed(m_jsonData') /\ (UNCHANGED <<file, data>> \/ Boot)
<1>1. m_jsonData \in Conf /\ AllNamed(m_jsonData)
  BY DEF TypeOK, Nameable
<1>2. AllNamed(load(file, setDefault))
  BY NamesKept DEF Nameable, load
<1>3. CASE Web
  BY <1>1, <1>3, NamesKept
     DEF Web, updateSensorsMapping, NextItem, LastItem, SendOK, RemoveSensor,
         setCredentials, setProperties, setWifi, ChangeAndSave, stored
<1>4. CASE Loop
  BY <1>1, <1>2, <1>4, LoopTurn, NamesKept DEF Boot, Start
<1> QED
  BY <1>3, <1>4

LEMMA BootNamed == ASSUME Nameable, Boot PROVE Nameable'
<1>1. AllNamed(load(file, setDefault))
  BY NamesKept DEF Nameable, load
<1> QED
  BY <1>1, IdleTypes DEF Boot, Start, Nameable, EachTask

\* A step of the only task that is in a handler, when it is neither about to
\* look for space nor about to insert.
LEMMA StepNamed ==
  ASSUME TypeOK, Alone, ~Overlap, Nameable,
         NEW t \in Task, pc[t] # "idle" \/ Free(t),
         NEW step, step \notin {"space", "insert"}, pc' = [pc EXCEPT ![t] = step],
         AllNamed(m_jsonData'), UNCHANGED <<file, data>>
  PROVE  Nameable'
<1>1. \A u \in Adder : pc'[u] \notin {"space", "insert"}
  BY Turn, IdleTypes
<1> QED
  BY <1>1 DEF Nameable

LEMMA NextNamed ==
  ASSUME TypeOK, Alone, ~Overlap, Nameable, [Next]_vars
  PROVE  Nameable'
<1>0. "radio" \in Task /\ "web" \in Task /\ "loop" \in Task /\ Adder \subseteq Task
  BY IdleTypes
<1>1. m_jsonData \in Conf /\ AllNamed(m_jsonData)
  BY DEF TypeOK, Nameable
<1>2. CASE Radio
  <2>1. \E step \in Step \ {"space", "insert"} :
           pc' = [pc EXCEPT !["radio"] = step]
    BY <1>2 DEF Radio, PairRequest, IsPaired, HasSpace, SendPairOK, Goto, Step
  <2> QED
    BY <1>0, <1>1, <1>2, <2>1, RadioTurn, StepNamed
<1>3. CASE Web
  <2>1. \E step \in Step \ {"space", "insert"} :
           pc' = [pc EXCEPT !["web"] = step]
    BY <1>3 DEF Web, updateSensorsMapping, NextItem, LastItem, SendOK,
       RemoveSensor, setCredentials, setProperties, setWifi, ChangeAndSave,
       SaveThen, Goto, Step
  <2> QED
    BY <1>0, <1>3, <2>1, WebTurn, ChangeNamed, StepNamed
<1>4. CASE Loop
  <2>1. CASE UNCHANGED <<m_jsonData, file, data, pc>>
    <3>1. \A t \in Adder : pc[t] = "idle"
      BY <1>0, <1>4, LoopTurn DEF Free, Alone
    <3> QED
      BY <2>1, <3>1 DEF Nameable
  <2> QED
    BY <1>0, <1>4, <2>1, LoopTurn, BootNamed, ChangeNamed, StepNamed
<1>5. ASSUME NEW t \in Adder, ChooseName(t)
      PROVE  Nameable'
  <2> DEFINE name == newSensorName(m_jsonData, sensor[t].name)
  <2>1. /\ sensor'[t].name = name
        /\ pc' = [pc EXCEPT ![t] = "space"]
        /\ pc[t] = "naming"
        /\ UNCHANGED <<m_jsonData, file, data>>
    BY <1>0, <1>5 DEF ChooseName, Goto, TypeOK, stored
  <2>2. name # NoName \/ ~isAvailableSpaceForNextSensor(m_jsonData)
    <3>1. CASE sensor[t].name = NoName
      BY <1>1, <3>1, DefaultName, ValuesAssumption
    <3>2. CASE sensor[t].name # NoName
      BY <3>2 DEF newSensorName
    <3> QED
      BY <3>1, <3>2
  <2> HIDE DEF name
  <2>3. \A u \in Adder \ {t} : pc'[u] = "idle"
    BY <1>0, <2>1, Turn
  <2>4. pc'[t] = "space"
    BY <1>0, <2>1, Turn
  <2> QED
    BY <2>1, <2>2, <2>3, <2>4 DEF Nameable
<1>6. ASSUME NEW t \in Adder, CheckSpace(t)
      PROVE  Nameable'
  <2>1. /\ pc'[t] \in {"insert", "dump"}
        /\ pc'[t] = "insert" => isAvailableSpaceForNextSensor(m_jsonData)
        /\ pc[t] = "space"
        /\ \A u \in Adder \ {t} : pc'[u] = pc[u]
        /\ UNCHANGED <<m_jsonData, file, data, sensor>>
    BY <1>0, <1>6 DEF CheckSpace, Goto, TypeOK, stored
  <2> QED
    BY <2>1 DEF Nameable
<1>7. ASSUME NEW t \in Adder, Insert(t)
      PROVE  Nameable'
  <2>1. /\ pc[t] = "insert" /\ pc' = [pc EXCEPT ![t] = "dump"]
        /\ m_jsonData' = withSensor(m_jsonData, sensor[t].identifier,
                                    sensor[t].name)
        /\ UNCHANGED <<file, data>>
    BY <1>7 DEF Insert, Goto
  <2>2. AllNamed(m_jsonData')
    BY <1>1, <2>1, NamesKept DEF Nameable
  <2> QED
    BY <1>0, <2>1, <2>2, StepNamed
<1>8. ASSUME NEW t \in Task, Dump(t)
      PROVE  Nameable'
  <2>1. /\ \A u \in Task : data'[u] = data[u] \/ data'[u] = dump(m_jsonData)
        /\ UNCHANGED <<m_jsonData, file, sensor>>
        /\ \A u \in Task : pc'[u] \in {"space", "insert"} => pc'[u] = pc[u]
    BY <1>8 DEF Dump, Goto, TypeOK, stored
  <2>2. dump(m_jsonData) # Blank => AllNamed(dump(m_jsonData))
    BY <1>1 DEF dump
  <2> QED
    BY <1>0, <2>1, <2>2 DEF Nameable
<1>9. ASSUME NEW t \in Task, Close(t)
      PROVE  Nameable'
  <2>1. /\ file' = data[t] /\ UNCHANGED m_jsonData
        /\ \A u \in Task : data'[u] = data[u] \/ data'[u] = Blank
        /\ \A u \in Task : pc'[u] \in {"space", "insert"}
              => pc'[u] = pc[u] /\ sensor'[u] = sensor[u]
    BY <1>9 DEF Close, Goto, TypeOK
  <2> QED
    BY <1>0, <2>1 DEF Nameable
<1>10. CASE UNCHANGED vars
  BY <1>10 DEF vars, stored, Nameable
<1> QED
  BY <1>2, <1>3, <1>4, <1>5, <1>6, <1>7, <1>8, <1>9, <1>10, BootNamed
     DEF Next, Add, Save, Restart, PowerLoss

LEMMA InitNamed == Init => Nameable
<1> SUFFICES ASSUME Init PROVE Nameable
  OBVIOUS
<1> QED
  BY IdleTypes, NamesKept DEF Init, Nameable, EachTask

\* If no handlers overlap, no sensor is stored without a name, however the
\* tables that are posted are filled in: where addSensor finds no default name
\* free it finds no space either (ConfStorage.cpp:153-168).
THEOREM NamedAlone == ASSUME Overlap = FALSE PROVE Spec => []Named
<1>1. TypeOK /\ Alone /\ Nameable /\ [Next]_vars => Nameable'
  BY NextNamed
<1>2. Nameable => Named
  BY DEF Nameable, AllNamed, Named
<1> QED
  BY InitTypeOK, NextTypeOK, InitAlone, NextAlone, InitNamed, <1>1, <1>2, PTL
     DEF Spec
============================================================================
