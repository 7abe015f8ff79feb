------------------------------- MODULE Charts -------------------------------
(***************************************************************************)
(* The page with the charts: it asks the host for the table of sensors,    *)
(* then for the history of one sensor after the other, and meanwhile takes *)
(* readings from an event stream.  Requests and events travel on different *)
(* connections, so an event may overtake an answer.  The host's store is   *)
(* BoundedReadings, which ReadingsStorage implements.                      *)
(*                                                                         *)
(* A reading is its time; each has a time of its own.  Time is one for the *)
(* host and the browser.                                                   *)
(***************************************************************************)
EXTENDS MicroChart, Sequences

CONSTANTS IDs,
          Size,             \* maxReadingsPerSensor
          MAX_ARR_ELEMS,
          Day,              \* secInDay
          Seconds,          \* between two times
          Measured,         \* at each time, in tenths
          Width,            \* of the canvas, in pixels
          QueueLength,      \* events the host's library keeps for a client
          MaxTime,          \* bound
          MaxRestarts,      \* bound: restarts of the host
          Undefined, None   \* no time, no identifier

ASSUME ChartsAssumption ==
  /\ Size \in Nat \ {0} /\ MAX_ARR_ELEMS \in Nat /\ MAX_ARR_ELEMS >= Size
  /\ {Day, QueueLength, MaxTime, MaxRestarts} \subseteq Nat
  /\ Seconds \in Nat \ {0} /\ Measured \in [0..MaxTime -> Int]
  /\ Width \subseteq Nat /\ \A width \in Width : Plot(width) > 0
  /\ Undefined \notin Nat /\ None \notin IDs
  /\ IDs \cap {"closed", "mapping", "null", "loaded", "failed"} = {}

Time == 0..MaxTime

VARIABLES
  clock,
  mapped,       \* the sensors in the host's table
  null,         \* the table is null: none was ever paired
  kept,         \* the host's readings
  pending,      \* the sensor whose reading was added and not yet sent
  restarts,     \* counter for MaxRestarts
  stream,       \* of events: off, connecting or open
  events,       \* on their way
  at,           \* what the page awaits: the table, the history of a sensor
                \* (null: gSensorIDsToNames is null)
  response,     \* the answer on its way, or None
  todo,         \* the sensors of gSensorIDsToNames to come in the loop
  data,         \* gSensorsData
  lost,         \* history: readings whose event met no open stream, and
  whole         \* sensors whose history came before any event

host    == <<mapped, null, kept, pending, restarts>>
network == <<stream, events>>
loading == <<at, response, todo>>
page    == <<loading, data>>
vars    == <<clock, host, network, page, lost, whole>>

Elements(s) == {s[k] : k \in DOMAIN s}

\* What the host tells of a reading it tells at once, so answers are no state.
Store == INSTANCE BoundedReadings WITH
           Reading <- Time, Void <- None, json <- None

NoData == [id \in {} |-> <<>>]

Init ==
  /\ clock = 0
  /\ \/ mapped = IDs /\ null = FALSE
     \/ mapped = {} /\ null = TRUE
  /\ kept = [id \in IDs |-> <<>>] /\ pending = None
  /\ restarts = 0
  /\ stream = "off" /\ events = <<>>
  /\ at = "closed" /\ response = None /\ todo = {}
  /\ data = NoData
  /\ lost = {} /\ whole = {}

----------------------------------------------------------------------------
\* The host: a reading is added, and then sent to who listens.

Tick ==
  /\ clock < MaxTime /\ clock' = clock + 1
  /\ UNCHANGED <<host, network, page, lost, whole>>

addReading(id) ==
  /\ pending = None /\ id \in mapped
  /\ clock < MaxTime /\ clock' = clock + 1
  /\ Store!Add(id, clock')
  /\ pending' = id
  /\ UNCHANGED <<mapped, null, restarts, network, page, lost, whole>>

Send(event) ==
  /\ pending # None /\ pending' = None
  /\ IF stream = "open" /\ Len(events) < QueueLength
     THEN events' = Append(events, event) /\ UNCHANGED lost
     ELSE /\ lost' = lost \cup {<<pending, t>> : t \in Elements(event.values)}
          /\ UNCHANGED events
  /\ UNCHANGED <<clock, mapped, null, kept, restarts, stream, page, whole>>

\* Mutation: the last reading is asked for before the new one is added.
lastBeforeAdd ==
  Send(Store!Answer(pending,
         LET before == SubSeq(kept[pending], 1, Len(kept[pending]) - 1)
         IN  Store!Newest(before, 1)))

sendEvent == Send(Store!Answer(pending, Store!Newest(kept[pending], 1)))

sensorIDsToNames ==
  /\ at = "mapping" /\ response = None
  /\ response' = [null |-> null, sensors |-> mapped]
  /\ UNCHANGED <<clock, host, network, at, todo, data, lost, whole>>

sensorData ==
  /\ at \in IDs /\ response = None
  /\ response' = Store!Answer(at, kept[at])
  /\ UNCHANGED <<clock, host, network, at, todo, data, lost, whole>>

ChangeTable(id) ==
  /\ \/ id \in mapped /\ mapped' = mapped \ {id} /\ UNCHANGED null
     \/ id \notin mapped /\ mapped' = mapped \cup {id} /\ null' = FALSE
  /\ UNCHANGED <<clock, kept, pending, restarts, network, page, lost, whole>>

----------------------------------------------------------------------------
\* Connections.

\* A reading that the page is told of, or will be.
Sent(id, t) == \E k \in DOMAIN events : events[k] = Store!Answer(id, <<t>>)

Underway(id, t) ==
  \/ Sent(id, t)
  \/ pending = id /\ t \in Elements(Store!Newest(kept[id], 1))

setupEventsSource ==
  /\ stream = "connecting" /\ stream' = "open"
  /\ UNCHANGED <<clock, host, events, page, lost, whole>>

\* The browser connects again; nobody asks for what was missed meanwhile.
Disconnected(gone) ==
  /\ stream' = IF stream = "off" THEN "off" ELSE "connecting"
  /\ events' = <<>>
  /\ lost' = lost \cup gone

StreamBreaks ==
  /\ stream = "open"
  /\ Disconnected({told \in IDs \X Time : Sent(told[1], told[2])})
  /\ UNCHANGED <<clock, host, page, whole>>

\* fetch() rejects, which ends the loop.
Rejected ==
  IF at \in IDs \cup {"mapping"}
  THEN at' = "failed" /\ response' = None /\ todo' = {}
  ELSE UNCHANGED loading

FetchFails ==
  /\ at \in IDs \cup {"mapping"} /\ Rejected
  /\ UNCHANGED <<clock, host, network, data, lost, whole>>

\* The table is in the file, or was reset.
HostRestart ==
  /\ UNCHANGED <<mapped, null>> \/ (mapped' = {} /\ null' = TRUE)
  /\ restarts < MaxRestarts /\ restarts' = restarts + 1
  /\ kept' = [id \in IDs |-> <<>>] /\ pending' = None
  /\ Disconnected({told \in IDs \X Time : Underway(told[1], told[2])})
  /\ Rejected
  /\ UNCHANGED <<clock, data, whole>>

----------------------------------------------------------------------------
\* The page, whose functions run undisturbed between two awaits.

Load ==
  /\ at' = "mapping" /\ response' = None /\ todo' = {}
  /\ data' = NoData
  /\ stream' = "connecting" /\ events' = <<>>
  /\ lost' = {} /\ whole' = {}
  /\ UNCHANGED <<clock, host>>

\* The next request of the loop over the table.
Ask(rest) ==
  \/ rest = {} /\ at' = "loaded" /\ todo' = {}
  \/ \E id \in rest : at' = id /\ todo' = rest \ {id}

\* Object.entries(null) throws, which ends the loop.
fetchSensorsMapping ==
  /\ at = "mapping" /\ response # None
  /\ response' = None
  /\ \/ response.null /\ at' = "null" /\ todo' = {}
     \/ ~response.null /\ Ask(response.sensors)
  /\ UNCHANGED <<clock, host, network, data, lost, whole>>

\* values[0], which is there or not.
First(values) == IF values = <<>> THEN Undefined ELSE values[1]

addDataToSensor(answer) ==
  IF answer.identifier \in DOMAIN data
  THEN [data EXCEPT ![answer.identifier] = Append(@, First(answer.values))]
  ELSE [id \in DOMAIN data \cup {answer.identifier} |->
          IF id = answer.identifier THEN answer.values ELSE data[id]]

\* Neither a chart nor the filter for old readings gets past such a sensor.
Throwing(d) == {id \in DOMAIN d : Undefined \in Elements(d[id])}

initialFetchSensorsData ==
  /\ at \in IDs /\ response # None
  /\ data' = addDataToSensor(response)
  /\ whole' = IF at \in DOMAIN data THEN whole ELSE whole \cup {at}
  /\ response' = None
  /\ IF Throwing(data') = {} THEN Ask(todo)
                             ELSE at' = "failed" /\ todo' = {}
  /\ UNCHANGED <<clock, host, network, lost>>

\* The readings of a sensor as the page has them.
Values == Seq(Time \cup {Undefined})

\* Array.sort is stable and puts undefined last: the value at j goes before the
\* one at k.
Precedes(values, j, k) ==
  \/ /\ values[j] # Undefined
     /\ values[k] = Undefined \/ values[j] < values[k]
  \/ values[j] = values[k] /\ j < k

Rank(values, k) == Cardinality({j \in DOMAIN values : Precedes(values, j, k)})

Sorted[values \in Values] ==
  [i \in DOMAIN values |->
     values[CHOOSE k \in DOMAIN values : Rank(values, k) = i - 1]]

Recent(t) == t + Day > clock

\* The filter, for values in order of time: the recent ones come last.
OnlyRecent[sorted \in Values] ==
  Store!Newest(sorted, Cardinality({k \in DOMAIN sorted : Recent(sorted[k])}))

\* Mutation: the oldest are kept.
keepOldest(values) ==
  LET sorted == Sorted[values]
      number == IF Len(sorted) < MAX_ARR_ELEMS THEN Len(sorted) ELSE MAX_ARR_ELEMS
  IN  OnlyRecent[SubSeq(sorted, 1, number)]

\* Mutation: the number is not limited.
keepAll(values) == OnlyRecent[Sorted[values]]

Trimmed(values) == OnlyRecent[Store!Newest(Sorted[values], MAX_ARR_ELEMS)]

\* Sensor after sensor, up to the first that throws.
removeOlderReadingsThanOneDay(d) ==
  LET With(done, cut) ==
        [id \in DOMAIN d |->
           CASE id \in done -> Trimmed(d[id])
             [] id \in cut -> Store!Newest(Sorted[d[id]], MAX_ARR_ELEMS)
             [] OTHER -> d[id]]
  IN  IF Throwing(d) = {} THEN data' = With(DOMAIN d, {})
      ELSE \E done \in SUBSET (DOMAIN d \ Throwing(d)), id \in Throwing(d) :
             data' = With(done, {id})

newReading ==
  /\ at # "null"
  /\ events # <<>> /\ events' = Tail(events)
  /\ \E d \in {addDataToSensor(Head(events))} : removeOlderReadingsThanOneDay(d)
  /\ UNCHANGED <<clock, host, stream, loading, lost, whole>>

\* null.hasOwnProperty throws before anything is added.
NameThrows ==
  /\ at = "null"
  /\ events # <<>> /\ events' = Tail(events)
  /\ UNCHANGED <<clock, host, stream, page, lost, whole>>

----------------------------------------------------------------------------
Host == \/ Tick \/ sendEvent \/ sensorIDsToNames \/ sensorData
        \/ \E id \in IDs : addReading(id) \/ ChangeTable(id)

Connections == setupEventsSource \/ StreamBreaks \/ FetchFails \/ HostRestart

Page == fetchSensorsMapping \/ initialFetchSensorsData \/ newReading \/ NameThrows

Next == Host \/ Connections \/ Load \/ Page

Spec == Init /\ [][Next]_vars

\* The host sends and answers, and what was sent arrives and is handled.
FairSpec == /\ Spec
            /\ WF_vars(sendEvent) /\ WF_vars(newReading)

----------------------------------------------------------------------------
\* Types; an event tells of one reading, and a reading that is not there is at
\* most once in a sensor's values.
TypeOK ==
  /\ clock \in Time /\ restarts \in 0..MaxRestarts
  /\ mapped \subseteq IDs /\ null \in BOOLEAN
  /\ \A id \in IDs : kept[id] \in Seq(Time) /\ Len(kept[id]) <= Size
  /\ pending \in IDs \cup {None}
  /\ stream \in {"off", "connecting", "open"}
  /\ Len(events) <= QueueLength
  /\ \A k \in DOMAIN events : /\ events[k].identifier \in IDs
                              /\ events[k].values \in Seq(Time)
                              /\ Len(events[k].values) = 1
  /\ at \in {"closed", "mapping", "null", "loaded", "failed"} \cup IDs
  /\ todo \subseteq IDs
  /\ DOMAIN data \subseteq IDs /\ whole \subseteq DOMAIN data
  /\ \A id \in DOMAIN data : data[id] \in Values
  /\ lost \subseteq IDs \X Time

Full(values) == Len(values) >= MAX_ARR_ELEMS

\* Where the history of a sensor came first, its line has no gap: a reading of
\* the last day that the host keeps is in it, on its way, lost with the stream,
\* or older than a full line (charts.js:19-25, 103-114; App.cpp:136-141).  An
\* event that comes first makes the page take only one reading of the history
\* (charts.js:65-68), which is why other sensors are left out.
NoGap ==
  \A id \in whole : \A t \in Elements(kept[id]) :
    Recent(t) => \/ t \in Elements(data[id])
                 \/ Underway(id, t)
                 \/ <<id, t>> \in lost
                 \/ Full(data[id]) /\ \A other \in Elements(data[id]) : t < other

\* An event is handled to the end, up to the charts.
Draws == at # "null" /\ Throwing(data) = {}

\* The page stops drawing in two ways only: the host never had a sensor when the
\* table was asked for (charts.js:18), or the history of a sensor is empty and an
\* event of that sensor overtook it (charts.js:63).  Empty histories and empty
\* tables alone do no harm, nor does any event.
Stands ==
  [][Draws /\ ~Draws' =>
       /\ response # None
       /\ \/ at = "mapping" /\ response.null
          \/ at \in DOMAIN data /\ response.values = <<>>]_vars

\* However long the page is open, it holds one reading more per sensor than its
\* limit at most, while it draws (charts.js:37-40).
Bounded ==
  Throwing(data) = {}
    => \A id \in DOMAIN data : Len(data[id]) <= MAX_ARR_ELEMS + 1

\* All readings that the page has, of every sensor.
Drawn == UNION {Elements(data[id]) : id \in DOMAIN data}

Drawing == Drawn # {} /\ Throwing(data) = {}

\* Whatever a page has drawn, on any canvas that has a plot, which takes more than
\* 260 pixels, and whatever it is resized to: the grid's times are in the plot, not
\* closer than the text they are labelled with is wide, and the lines of the
\* sensors stay in it (microChart.js:55, 269-287).
TimesReadable ==
  Drawing =>
    LET times == {Seconds * t : t \in Drawn}
        range == xRange(times)
    IN  /\ \A t \in times : range.min <= t /\ t <= range.max
        /\ \A width \in Width : \A step \in StepX(range, width) :
              /\ step > 0
              /\ step * Plot(width)
                   >= minPixelsPerTimestamp * (range.max - range.min)
              /\ \A epoch \in drawLegendX(range, step) :
                    range.min <= epoch /\ epoch < range.max

\* Also when all values are equal, or differ in sign, the grid's values make
\* thirteen lines at most, half a degree or more apart but for the ends, and the
\* lines of the sensors leave room above and below (microChart.js:90-102, 215-258).
ValuesReadable ==
  Drawing =>
    LET values == {Measured[t] : t \in Drawn}
    IN  \A range \in expandRange(values) :
          /\ \A v \in values : 10 * range.min < v /\ v < 10 * range.max
          /\ range.min < Pivot(range) /\ Pivot(range) < range.max
          /\ StepY(range) >= 1
          /\ Cardinality(drawLegendY(range)) <= 13

\* A reading under way on an open stream gets into its sensor's line, or is older
\* than a full line or of yesterday when it comes; unless the stream breaks, the
\* queue is full, or the page no longer draws (App.cpp:136-141, charts.js:103-114).
Shown ==
  \A id \in IDs, t \in Time \ {0} :
    stream = "open" /\ Underway(id, t)
      ~> \/ stream # "open" \/ <<id, t>> \in lost
         \/ ~Draws \/ ~Recent(t)
         \/ /\ id \in DOMAIN data
            /\ \/ t \in Elements(data[id])
               \/ /\ Full(data[id])
                  /\ \A other \in Elements(data[id]) : t < other
=============================================================================
