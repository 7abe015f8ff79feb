------------------------- MODULE ConfStorageProofs -------------------------
(***************************************************************************)
(* Facts about the calls of ConfStorage that the proofs about the host and *)
(* the network share: they yield documents, and of which size.             *)
(***************************************************************************)
EXTENDS ConfStorage, FiniteSetTheorems, WellFoundedInduction, TLAPS

Size(c) == Cardinality(DOMAIN c.sensors)

\* A non-empty set of naturals has a least element.
LEMMA NatMin ==
  ASSUME NEW T, T \subseteq Nat, T # {}
  PROVE  \E x \in T : \A y \in T : x <= y
<1> DEFINE R == {ss \in Nat \X Nat : ss[1] < ss[2]}
<1>1. R = OpToRel(<, Nat)
  BY DEF OpToRel
<1>2. IsWellFoundedOn(R, Nat)
  BY <1>1, NatLessThanWellFounded
<1>3. ASSUME NEW x \in Nat, NEW y \in Nat
      PROVE  <<y, x>> \in R <=> y < x
  OBVIOUS
<1> HIDE DEF R
<1>4. PICK x \in T : \A y \in T : ~(<<y, x>> \in R)
  BY <1>2, WFMin
<1>5. ASSUME NEW y \in T
      PROVE  x <= y
  <2>1. x \in Nat /\ y \in Nat
    OBVIOUS
  <2>2. ~(y < x)
    BY <1>3, <1>4, <2>1, Zenon
  <2> QED
    BY <2>1, <2>2
<1> QED
  BY <1>5

\* A map from some identifiers to names, without the union.
LEMMA SensorMapForm ==
  ASSUME NEW D \in SUBSET IDs, NEW f \in [D -> Name]
  PROVE  f \in SensorMap
  BY DEF SensorMap

LEMMA SensorMapDomain ==
  ASSUME NEW f \in SensorMap
  PROVE  /\ DOMAIN f \subseteq IDs
         /\ f \in [DOMAIN f -> Name]
  BY DEF SensorMap

\* The calls on a document yield documents.
LEMMA ConfTypes ==
  ASSUME NEW c \in Conf
  PROVE  /\ \A id \in IDs, name \in Name : withSensor(c, id, name) \in Conf
         /\ \A id \in IDs : removeSensor(c, id) \in Conf
         /\ \A ssid \in SSID : setWifiConfig(c, ssid) \in Conf
         /\ \A a \in Credentials : setAdminCredentials(c, a) \in Conf
         /\ \A p \in Period : setSensorUpdatePeriodMins(c, p) \in Conf
         /\ \A name \in Name : newSensorName(c, name) \in Name
         /\ dump(c) \in File
         /\ \A f \in File : load(f, c) \in Conf
<1>1. /\ c.sensors \in SensorMap
      /\ DOMAIN c.sensors \subseteq IDs
      /\ c.sensors \in [DOMAIN c.sensors -> Name]
  BY SensorMapDomain DEF Conf
<1>2. ASSUME NEW id \in IDs, NEW name \in Name
      PROVE  withSensor(c, id, name) \in Conf
  <2> DEFINE D == DOMAIN c.sensors \cup {id}
             f == [i \in D |-> IF i = id THEN name ELSE c.sensors[i]]
  <2>1. D \in SUBSET IDs /\ f \in [D -> Name]
    BY <1>1
  <2>2. f \in SensorMap
    BY <2>1, SensorMapForm
  <2> QED
    BY <2>2 DEF withSensor, Conf
<1>3. ASSUME NEW id \in IDs
      PROVE  removeSensor(c, id) \in Conf
  <2> DEFINE D == DOMAIN c.sensors \ {id}
             f == [i \in D |-> c.sensors[i]]
  <2>1. D \in SUBSET IDs /\ f \in [D -> Name]
    BY <1>1
  <2>2. f \in SensorMap
    BY <2>1, SensorMapForm
  <2> QED
    BY <2>2 DEF removeSensor, Conf
<1>4. /\ \A ssid \in SSID : setWifiConfig(c, ssid) \in Conf
      /\ \A a \in Credentials : setAdminCredentials(c, a) \in Conf
      /\ \A p \in Period : setSensorUpdatePeriodMins(c, p) \in Conf
  BY DEF Conf, setWifiConfig, setAdminCredentials, setSensorUpdatePeriodMins
<1>5. ASSUME NEW name \in Name
      PROVE  newSensorName(c, name) \in Name
  <2> DEFINE free == {i \in 1..maxSensorsNum : ~nameExists(c, Unnamed(i))}
             first == CHOOSE i \in free : \A j \in free : i <= j
  <2>1. CASE name # NoName \/ free = {}
    BY <2>1 DEF newSensorName
  <2>2. CASE ~(name # NoName \/ free = {})
    <3>1. free \subseteq Nat /\ free \subseteq 1..maxSensorsNum /\ free # {}
      BY <2>2, MaxAssumption
    <3>2. newSensorName(c, name) = Unnamed(first)
      BY <2>2 DEF newSensorName
    <3> HIDE DEF free
    <3>3. \E i \in free : \A j \in free : i <= j
      BY <3>1, NatMin
    <3>4. first \in free
      BY <3>3
    <3> QED
      BY <3>1, <3>2, <3>4 DEF Name
  <2> QED
    BY <2>1, <2>2
<1>6. /\ dump(c) \in File
      /\ \A f \in File : load(f, c) \in Conf
  BY DEF dump, load, File
<1> QED
  BY <1>2, <1>3, <1>4, <1>5, <1>6

\* The constants the document starts from are documents of no sensors.
LEMMA DefaultType == setDefault \in Conf /\ Size(setDefault) = 0
<1> DEFINE none == [id \in {} |-> NoName]
<1>1. setDefault.sensors \in SensorMap
  <2>1. none \in [{} -> Name] /\ {} \in SUBSET IDs
    OBVIOUS
  <2>2. none \in SensorMap
    BY <2>1, SensorMapForm
  <2> QED
    BY <2>2 DEF setDefault
<1>2. setDefault \in Conf
  BY <1>1, DefaultsAssumption DEF setDefault, Conf
<1>3. DOMAIN setDefault.sensors = {}
  BY DEF setDefault
<1> QED
  BY <1>2, <1>3, FS_EmptySet DEF Size

\* Only an insertion makes a document larger, and by one.
LEMMA Sizes ==
  ASSUME NEW c \in Conf
  PROVE  /\ Size(c) \in Nat
         /\ \A id, name : Size(withSensor(c, id, name)) \in Nat
                           /\ Size(withSensor(c, id, name)) <= Size(c) + 1
         /\ \A id : Size(removeSensor(c, id)) \in Nat
                     /\ Size(removeSensor(c, id)) <= Size(c)
         /\ \A ssid : Size(setWifiConfig(c, ssid)) = Size(c)
         /\ \A a : Size(setAdminCredentials(c, a)) = Size(c)
         /\ \A p : Size(setSensorUpdatePeriodMins(c, p)) = Size(c)
<1> DEFINE D == DOMAIN c.sensors
<1>1. IsFiniteSet(D)
  <2>1. D \subseteq IDs
    BY SensorMapDomain DEF Conf
  <2> QED
    BY <2>1, IDsAssumption, FS_Subset
<1>2. Size(c) \in Nat
  BY <1>1, FS_CardinalityType DEF Size
<1>3. ASSUME NEW id, NEW name
      PROVE  /\ Size(withSensor(c, id, name)) \in Nat
             /\ Size(withSensor(c, id, name)) <= Size(c) + 1
  <2>1. DOMAIN withSensor(c, id, name).sensors = D \cup {id}
    BY DEF withSensor, Conf
  <2>2. Cardinality(D \cup {id}) = IF id \in D THEN Size(c) ELSE Size(c) + 1
    BY <1>1, FS_AddElement DEF Size
  <2> QED
    BY <1>2, <2>1, <2>2 DEF Size
<1>4. ASSUME NEW id
      PROVE  /\ Size(removeSensor(c, id)) \in Nat
             /\ Size(removeSensor(c, id)) <= Size(c)
  <2>1. DOMAIN removeSensor(c, id).sensors = D \ {id}
    BY DEF removeSensor, Conf
  <2>2. Cardinality(D \ {id}) = IF id \in D THEN Size(c) - 1 ELSE Size(c)
    BY <1>1, FS_RemoveElement DEF Size
  <2>3. IsFiniteSet(D \ {id})
    BY <1>1, FS_Subset
  <2>4. Cardinality(D \ {id}) \in Nat
    BY <2>3, FS_CardinalityType
  <2> QED
    BY <1>2, <2>1, <2>2, <2>4 DEF Size
<1>5. /\ \A ssid : Size(setWifiConfig(c, ssid)) = Size(c)
      /\ \A a : Size(setAdminCredentials(c, a)) = Size(c)
      /\ \A p : Size(setSensorUpdatePeriodMins(c, p)) = Size(c)
  BY DEF Conf, Size, setWifiConfig, setAdminCredentials, setSensorUpdatePeriodMins
<1> QED
  BY <1>2, <1>3, <1>4, <1>5

\* As long as there is space one of the default names is free: there are more
\* names than sensors.
LEMMA DefaultNameFree ==
  ASSUME NEW c \in Conf, isAvailableSpaceForNextSensor(c)
  PROVE  \E i \in 1..maxSensorsNum : ~nameExists(c, Unnamed(i))
<1> DEFINE D == DOMAIN c.sensors
<1>1. IsFiniteSet(D) /\ Cardinality(D) \in Nat
  <2>1. D \subseteq IDs
    BY SensorMapDomain DEF Conf
  <2> QED
    BY <2>1, IDsAssumption, FS_Subset, FS_CardinalityType
<1>2. SUFFICES ASSUME \A i \in 1..maxSensorsNum : nameExists(c, Unnamed(i))
               PROVE  FALSE
  OBVIOUS
<1> DEFINE f == [i \in 1..maxSensorsNum |->
                   CHOOSE id \in D : c.sensors[id] = Unnamed(i)]
<1>3. ASSUME NEW i \in 1..maxSensorsNum
      PROVE  f[i] \in D /\ c.sensors[f[i]] = Unnamed(i)
  <2>1. \E id \in D : c.sensors[id] = Unnamed(i)
    BY <1>2 DEF nameExists
  <2> QED
    BY <2>1
<1>4. IsFiniteSet(1..maxSensorsNum) /\ Cardinality(1..maxSensorsNum) = maxSensorsNum
  BY MaxAssumption, FS_Interval
<1>5. Cardinality(D) < Cardinality(1..maxSensorsNum)
  BY <1>4 DEF isAvailableSpaceForNextSensor
<1>6. f \in [1..maxSensorsNum -> D]
  BY <1>3
<1> HIDE DEF f, D
<1>7. PICK x \in 1..maxSensorsNum, y \in 1..maxSensorsNum : x # y /\ f[x] = f[y]
  BY <1>1, <1>4, <1>5, <1>6, FS_PigeonHole
<1>8. Unnamed(x) = Unnamed(y)
  BY <1>3, <1>7
<1> QED
  BY <1>7, <1>8 DEF Unnamed

\* So a sensor without a name gets one that no sensor has.
LEMMA DefaultName ==
  ASSUME NEW c \in Conf, isAvailableSpaceForNextSensor(c)
  PROVE  /\ ~nameExists(c, newSensorName(c, NoName))
         /\ \E i \in 1..maxSensorsNum : newSensorName(c, NoName) = Unnamed(i)
<1> DEFINE free == {i \in 1..maxSensorsNum : ~nameExists(c, Unnamed(i))}
           first == CHOOSE i \in free : \A j \in free : i <= j
<1>1. free # {} /\ free \subseteq 1..maxSensorsNum /\ free \subseteq Nat
  BY DefaultNameFree, MaxAssumption
<1>2. newSensorName(c, NoName) = Unnamed(first)
  BY <1>1 DEF newSensorName
<1>3. \A i \in free : ~nameExists(c, Unnamed(i))
  OBVIOUS
<1> HIDE DEF free
<1>4. first \in free
  BY <1>1, NatMin
<1> QED
  BY <1>1, <1>2, <1>3, <1>4
============================================================================
