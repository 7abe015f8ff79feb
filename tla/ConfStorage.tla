---------------------------- MODULE ConfStorage ----------------------------
(***************************************************************************)
(* ConfStorage (src/src/host/ConfStorage.cpp), the host's configuration:   *)
(* its calls as operators on the JSON document m_jsonData, and the file    *)
(* the document is saved to.  Who calls them, and in which interleaving,   *)
(* is the business of the modules that use this one.                       *)
(*                                                                         *)
(* The document is a record; the port is stored and read with the update   *)
(* period and is not told apart from it, a Wi-Fi password comes with its   *)
(* SSID, and credentials are one value.                                    *)
(***************************************************************************)
EXTENDS Naturals, FiniteSets

CONSTANTS IDs,             \* sensor identifiers
          UserName,        \* names a user types
          NoName,          \* the empty name
          maxSensorsNum,   \* 7 in the source
          SSID,            \* networks a user may configure
          NoWifi,          \* the document has no "wifi" member
          Undumpable,      \* SSIDs that are not UTF-8: dump() throws on them
          Credentials,     \* user and password of the administrator
          DefaultAdmin,    \* admin/admin
          Period,          \* update periods in minutes
          DefaultPeriod,   \* 1
          Blank            \* the contents of an empty or missing file

ASSUME IDsAssumption == IsFiniteSet(IDs)
ASSUME MaxAssumption == maxSensorsNum \in Nat \ {0}
ASSUME DefaultsAssumption == /\ DefaultAdmin \in Credentials
                             /\ DefaultPeriod \in Period
                             /\ Undumpable \subseteq SSID

Unnamed(i) == <<"Unnamed", i>>

Name == UserName \cup {NoName} \cup {Unnamed(i) : i \in 1..maxSensorsNum}

\* What the "sensors" member can be: some identifiers, each with a name.
SensorMap == UNION {[mapped -> Name] : mapped \in SUBSET IDs}

\* null: the member "sensors" is null, not an object, as setDefault() leaves it.
Conf == [sensors                : SensorMap,
         null                   : BOOLEAN,
         wifi                   : SSID \cup {NoWifi},
         admin                  : Credentials,
         sensorUpdatePeriodMins : Period]

\* A file is what one save() wrote, or blank.
File == Conf \cup {Blank}

setDefault == [sensors                |-> [id \in {} |-> NoName],
               null                   |-> TRUE,
               wifi                   |-> NoWifi,
               admin                  |-> DefaultAdmin,
               sensorUpdatePeriodMins |-> DefaultPeriod]

isSensorMapped(c, id) == id \in DOMAIN c.sensors

\* Mutation: one sensor too many is let in.
spaceOffByOne(c) == Cardinality(DOMAIN c.sensors) <= maxSensorsNum

isAvailableSpaceForNextSensor(c) ==
  Cardinality(DOMAIN c.sensors) < maxSensorsNum

nameExists(c, name) == \E id \in DOMAIN c.sensors : c.sensors[id] = name

\* Mutation: the search for a default name stops one short of the limit.
searchStopsShort(c, name) ==
  LET free == {i \in 1..(maxSensorsNum - 1) : ~nameExists(c, Unnamed(i))}
  IN  IF name # NoName \/ free = {} THEN name
      ELSE Unnamed(CHOOSE i \in free : \A j \in free : i <= j)

\* The first part of addSensor: an empty name becomes the first default name
\* that is free, and stays empty when none is.
newSensorName(c, name) ==
  LET free == {i \in 1..maxSensorsNum : ~nameExists(c, Unnamed(i))}
  IN  IF name # NoName \/ free = {} THEN name
      ELSE Unnamed(CHOOSE i \in free : \A j \in free : i <= j)

\* The last part of addSensor: the entry is made or overwritten, which makes an
\* object of null.
withSensor(c, id, name) ==
  [c EXCEPT !.sensors = [i \in DOMAIN @ \cup {id} |->
                           IF i = id THEN name ELSE @[i]],
            !.null = FALSE]

\* All of addSensor, for a caller that no other disturbs.
addSensor(c, id, name) ==
  IF isAvailableSpaceForNextSensor(c)
  THEN withSensor(c, id, newSensorName(c, name))
  ELSE c

removeSensor(c, id) ==
  [c EXCEPT !.sensors = [i \in DOMAIN @ \ {id} |-> @[i]]]

setWifiConfig(c, ssid) == [c EXCEPT !.wifi = ssid]

getWifiConfig(c) == c.wifi

setAdminCredentials(c, credentials) == [c EXCEPT !.admin = credentials]

setSensorUpdatePeriodMins(c, minutes) ==
  [c EXCEPT !.sensorUpdatePeriodMins = minutes]

\* What save() leaves to write: it opened the file for writing, which drops the
\* contents, before dump() can throw.
dump(c) == IF c.wifi \in Undumpable THEN Blank ELSE c

\* load() of a document that is c: a file that does not parse changes nothing.
load(f, c) == IF f = Blank THEN c ELSE f
============================================================================
