# ThNetwork in TLA+

ThNetwork is a network of battery-powered temperature and humidity sensors.
*Transmitters* (ESP8266) wake up, send one reading over ESP-NOW and go back to
deep sleep; a *host* (ESP32) keeps the last readings of each sensor and serves
charts and an administration page. This directory holds TLA+ modules of that
code, the TLC configurations that check them and proofs that TLAPS checks.
Paths and lines below are those of the repository, which is `src/` here, so the
code of the program is under `src/src/`.

## 1. The system

### Components

| component | state it keeps | operations | who calls it |
|---|---|---|---|
| `host/RingBuffer.hpp`, `host/ReadingsStorage.cpp` | a map of ring buffers, one per identifier ever named | `addReading`, `getReadingsAsJsonStr`, `getLastReadingAsJsonStr` | the radio task adds, the web task reads |
| `host/ConfStorage.cpp` | one JSON document; its file on LittleFS | `load`, `save`, `setDefault`, get and set of Wi-Fi, port, credentials, period, sensors | all three tasks of the host |
| `host/EspNowPairingManager.cpp` | is the pairing window open, its timer | `enablePairing`, `update`, `addNewSensorToStorage` | the button, the loop, the radio |
| `host/EspNowServer.cpp` | callbacks, known peers | `onDataRecv`: answers requests, passes readings on | the Wi-Fi driver's task |
| `host/WebPageMain.cpp` | the event source; no state of its own | pages, charts, and the handlers that change the configuration | the async TCP task |
| `host/WifiConfiguratorWebServer.cpp` | none | the page that sets the Wi-Fi and restarts | the async TCP task |
| `host/App.cpp` | the mode, timers, buttons | `init`, `update`, starting of services, factory reset | the main loop |
| `host/Timer.cpp`, `Button.cpp`, `LedIndicator.cpp`, `WifiConfigurator.cpp` | start times, last levels, access point | `start`, `stop`, `update` | `App` |
| `transmitter/App.cpp`, `config.cpp` | the configuration, in RAM, EEPROM and RTC memory | `init`, `update` | the board's boot |
| `transmitter/EspNow.cpp` | the last answer, whether paired, the channel | `init`, `pair`, `onDataRecv`, `sendReading` | `App`, the Wi-Fi driver |
| `common/Messages.hpp`, `serializer.hpp`, `MacAddr.cpp` | none | the frames `PAIR_REQ`, `PAIR_RESP`, `SENSOR_DATA`, their bytes, the identifier made of a MAC address | both sides |
| `host/html/charts.js` | the readings of each sensor since the page was loaded | fetches of the table and the histories, the listener of `newReading` | the browser |
| `host/html/microChart.js` | the same readings, the canvas | `draw`: ranges, steps and lines of the axes | `charts.js` |
| `host/html/admin.js` | a copy of the table of sensors, the fields | fetch of the configuration, the four posts | the browser |
| `transmitter/Sensor.cpp`, `host/html/wifiSettings.html`, `host/adapters`, `host/Resources.cpp`, `common/logger.cpp` | the sensor's driver, a form, wrappers of libraries | | |

### How they interact

A transmitter whose button is held while it boots broadcasts `PAIR_REQ` on the
channels 0 to 12 in turn, pausing on each. A host whose pairing window is open
stores the sensor under a default name, saves the document and answers
`PAIR_RESP` with its channel and the update period. The transmitter writes what
it heard to EEPROM and to RTC memory. From then on each boot sends one
`SENSOR_DATA` frame and sleeps for the period; after a deep sleep the
configuration comes from RTC memory, after every other boot from EEPROM. The
host stores readings of mapped sensors in ring buffers and sends an event to
open pages.

On the host, three tasks share one `ConfStorage` and there is no lock: the
Wi-Fi task (`EspNowServer::onDataRecv`), the `async_tcp` task (every web
handler) and the loop (`App::update`, buttons, timers, factory reset).
`esp_restart()` may be called by two of them and ends all three where they are.

### What is hard in this code

* the three unlocked tasks: check-then-act in `addSensor`, two saves at once, a
  reading put into a buffer while an answer is made from it;
* power loss between changing the document, printing it, closing the file and
  answering; on the transmitter between erasing and writing the EEPROM and
  writing RTC memory, with two stored copies that different boots trust;
* frames that are lost, and answers that arrive when the transmitter has
  retuned, has given up or sleeps;
* limits: seven sensors, default names out of seven, ring buffers that wrap,
  a period cut to 8 bits and multiplied in 32 bits;
* modes, buttons, timers and the LED of the host's loop, whose callbacks share
  state without knowing of each other, against a clock that wraps;
* a page that loads histories request by request while events of new readings
  come on another connection, and may overtake an answer or be lost;
* pages that post back a whole table they were given some time ago, by requests
  that overtake each other;
* axes whose steps come from divisions rounded in floating point, for whatever
  values the sensors measured;
* services that start one after the other while frames already come in;
* that a paired sensor is heard again and again, and that the host gets back to
  normal operation, whatever went wrong before.

`PROJECT.json` lists each hazard at the line where it bites.

### What makes each component correct

| component | properties |
|---|---|
| readings | the last `size` readings of each sensor, oldest first, nothing that was not put |
| readings, while put | a put in the middle of an answer costs or adds one reading; each answer ends |
| charts | no gap in a line, no reading for ever, the page keeps drawing but in two known cases and stays small; axes that can be read |
| administration | a posted table changes what was edited and nothing else |
| configuration | the limit of sensors; a name for each, and unused default names; what is confirmed survives a reboot |
| pairing | a transmitter that believes it is paired is known to the host; the host answers what it stored |
| transmitter | one configuration in all its memories; it sleeps for the period; it is heard again |
| host app | a factory reset sticks and is meant; the pairing window lasts its two minutes; what waits for a timer has one running; the board recovers |

## 2. The modules

| module | models | built on |
|---|---|---|
| `RingBuffer` | `RingBuffer.hpp`: `put`, the iterators, `getLast` as operators on a record of the class's fields | |
| `ReadingsStorage` | the map of buffers and its three calls | `RingBuffer` |
| `BoundedReadings` | abstract: of each sensor the newest readings | |
| `ReadingsRace` | a put and an answer in steps, by two tasks | `ReadingsStorage` |
| `ReadingsStorageProofs` | proofs about both, the refinements among them | `ReadingsRace` |
| `MicroChart` | the axes of `microChart.js` as operators | |
| `Charts` | `charts.js`, its requests and its event stream, and the host that answers | `BoundedReadings`, `MicroChart` |
| `MCCharts` | the values measured in the run | `Charts` |
| `ChartsProofs` | proofs about the page and its axes | `Charts` |
| `AdminPage` | `admin.js` in several browsers and the requests that start the handlers of `WebPageMain.cpp` | `HostTasks` |
| `MCAdminPage` | the tables posted in the run | `AdminPage` |
| `AdminPageProofs` | proofs about it | `AdminPage`, `HostTasksProofs` |
| `ConfStorage` | the document and every call on it, as operators | |
| `ConfStorageProofs` | the types and sizes those operators keep; that a default name is free | `ConfStorage` |
| `HostTasks` | the three tasks of the host in steps, power loss, restart | `ConfStorage` |
| `MCHostTasks` | the tables posted in the runs | `HostTasks` |
| `HostTasksProofs` | proofs about `HostTasks` | `HostTasks`, `ConfStorageProofs` |
| `HostLoop` | `App::update` against the clock: modes, buttons, timers, LED, pairing window, start of services | |
| `HostLoopProofs` | proofs about it | `HostLoop` |
| `Frames` | the messages and the serializer, byte by byte, as operators | |
| `FramesProofs` | proofs that what was serialized is what is read | `Frames` |
| `Transmitter` | firmware of the transmitter, one action per step of `init`, `pair` and `update` | `Frames` |
| `ThNetwork` | host and transmitters on the air | `Transmitter`, `ConfStorage` |
| `MCThNetwork` | symmetry for TLC | `ThNetwork` |
| `ThNetworkProofs` | proofs about the composition | `ThNetwork`, `ConfStorageProofs`, `FramesProofs` |

Each actor's operators carry the name the source gives them. Definitions whose
comment starts with *Mutation* are not part of a specification: they are
plausible bugs, kept to show that a property can fail.

### RingBuffer and ReadingsStorage

A buffer is `m_buffer`, `m_head`, `m_tailId`, as in the class. `Iterate` is what
a range-based `for` visits. `m_readingBuffers` is a partial function:
`operator[]` of `std::map` makes missing entries, also for reads. JSON is
abstracted to the identifier and the sequence of its values; a reading is a
model value. `ReadingsStorage` has each call as one step; that is the model the
proofs and the refinement are about.

### ReadingsRace

The Wi-Fi task puts a reading while the web task goes through the same buffer.
There is no lock, so the three stores of `put` (`m_head`, the slot, `m_tailId`)
come in any order and so do the loads of `begin()` and `end()`. A put is
`BeginPut`, two `Store`s and `EndPut`; `Memory` is what a load finds meanwhile.
An answer is `BeginAnswer`, two `Load`s, a `Visit` for each slot and `Send`; a
slot that is read while it is written may give a mixture, `Torn`. The iterator
compares with an `end()` taken once, before the loop. `before` and `puts` are
history: what was kept when the answer began, and how many puts overlapped it.
The variable `json` is the last answer that none overlapped, and with it the
module still implements `BoundedReadings`.

`OnePut` says what an overlapped answer may contain. It shows two things a
reader of the code may not expect: the answer of a *full* buffer is empty when
`begin()` is loaded before the put and `end()` after it, and a slot whose number
is stored before its reading may be blank.

### Charts

The host's store is `BoundedReadings` by `INSTANCE`, which the ring buffers are
proved to implement. The callback of `startServices` is two steps, `addReading`
and `sendEvent`, because a request may be answered in between. `response` is the
answer on its way, `events` the stream; they are different connections, so
nothing orders them. `at` is the `await` at which the page is. Between two awaits
a function of the page is one action. `data` is `gSensorsData` without the names
of the lines. A reading is the time at which it came, and no two have the same.

`addDataToSensor` of a sensor that is there already appends `values[0]`, also of
an answer with a whole history: if an event came first, one reading of the
history is taken, and `undefined` if the history is empty. `Throwing` are the
sensors with an `undefined`, on which `MicroChart.#minMax` and the filter of
`removeOlderReadingsThanOneDay` throw; sensors that the loop reached before may
be trimmed by then. A host that never had a sensor answers `null` for the
table, on which the page throws before it asks for a history, and again on each
event (`at = "null"`, `NameThrows`), until it is reloaded. `Draws` is that neither
has happened. `Sorted` is `Array.sort`, which is stable and puts `undefined`
last: a value's place is the number of those that go before it (`Rank`). `lost`
and `whole` are history variables: readings whose event was not delivered,
sensors whose history came before any event.

### MicroChart

Each draw of `Charts` has axes. Times are whole seconds and measured values
tenths, so ranges, steps and lines are integers: seconds on the axis of times,
halves of a degree or percent on that of values, which pixels are proportional
to. Where `microChart.js` rounds a quotient that is exact, its floating point may
be off by one, so such a step has two values (`Floors`, `Ceils`). `TimesReadable`
and `ValuesReadable` say, of each such outcome, that the lines are in the range,
that their labels do not overlap and that they are neither none nor endless.

### ConfStorage

The JSON document is a record. The port is left out: it is set and read with the
update period by the same handlers. Passwords go with their SSID, the two
credentials are one value. `null` says that `setDefault` has left the member
`sensors` null, as it is until the first sensor is stored. `Undumpable` are the
SSIDs that are not UTF-8, on which `dump()` throws inside `save()`; names of
sensors come from JSON bodies, which were parsed as UTF-8. `getWifiConfig` on a document without the member
creates null members as a side effect, which reads as no network again and is
abstracted to `NoWifi`.

### AdminPage

The host is `HostTasks`: the steps of the radio task, the factory reset and the
handlers of the web task are its actions, with `addSensor` and `save` in their
steps, and this module adds the requests that start the web task's handlers
(`updateSensorsMappingReq` and the others) and a restart at any time (`Reboot`).
Its modes and its network are left to `HostTasks`: here services run and the
pairing window is open. A page is the copy of the table it shows. Requests of a
page are on several connections: `posts` and `answers` are sets, and any of them
may be next or be lost. Loading the page again forgets its fetch and leaves its
posts under way; removing a sensor does so without waiting for the answer
(`admin.js`). On the `null` of a host that never had a sensor the page's script
throws and leaves the fields as the HTML has them. Whether a browser knows the
credentials is left open: `auth()` lets a request pass or refuses it, and a
refused request is as one that is lost, like a body in chunks, of which each is
parsed and none parses. The name that HTML takes for a tag comes back empty from
`innerText`, and is posted so.

`work`, `edited`, `fresh` and `old` are history: the post that is being handled,
the rows a user edited, whether another has changed a sensor since the page was
filled, whether the page was loaded again since the post. `OnlyEdited` uses them
to say what the insertion of a posted row may change, whatever other tasks did
between its steps. The post of a table that is *not* fresh does overwrite what
others did, and makes a removed sensor again; the model has these behaviours and
the property's premise leaves them out.

### HostTasks

One program counter per task. A call on `ConfStorage` is one step but for the
two that act on what they read earlier: `addSensor` (name, space, insert) and
`save` (print, close). LittleFS commits a file when it is closed, so a power
loss before leaves the old file, and of two open handles the last to be closed
wins. `Start` resets everything but the file and runs `load()`; `Boot` picks the
mode after it as `App::initWifi` does. `Overlap = FALSE` selects the histories in
which a handler starts only when no other runs: those that a single-threaded test
would see, with power losses in the middle all the same.

`Named` is a property of those histories. With `Overlap` a sensor can be stored
with an empty name: the search finds all default names taken, and a reset or a
removal by another task makes space before it is checked.

### HostLoop

One action per branch of `App::update`, in its order (`step`): the switch over
the mode, the two buttons, the three timers. `millis()` is `now`, modulo `Word`;
sums and differences wrap as `size_t` does. A pass takes up to `MaxPass`, and
all of its time, its delays included, passes at its end, so within a pass all
readings of the clock agree. A timer is its start time or `Stopped` (its period
is a constant of the code), a button the time when it was first seen down or
`Up`; what a pass sees of a button is arbitrary, which covers bouncing. The LED
is off, on or blinking.

`startServices` is two steps, because `m_espNow->init` lets the Wi-Fi task
deliver readings before `startServer` has made the event source: `EarlyReading`
is the call through a null pointer in between, which panics and reboots.
`WebPageMain::stopServer` keeps the event source, so readings under the
configurator are harmless. The configurator disconnects the station, so a
connection is not found there (`Associated`). The Wi-Fi button has no long click
and the pairing button no click before services have started.

Of the configuration file three states matter here: it names a network, it holds
the defaults, or it is blank, as it is when new and after a `save()` that fails.
`setWifi` leaves a network or, of an SSID that is not UTF-8, a blank file. So a
network can be lost in two ways, and `ResetMeant` is about the defaults: they
replace a network only after a long click. Saves that overlap are in `HostTasks`. `openFor` and
`heldFor` are history: how long the window is open and the button down,
up to the numbers the properties tell apart.

### Frames

Both boards have the same sizes and order of bytes, so a byte is the value that
`memcpy` took it from and its place in it. `serialize` and `readValue` compute
the index of a value as the source does, from the sizes of the types from it on
(`indexForValue`). A value is read whole when the bytes at its places are its
bytes in their order, and is `Garbage` otherwise: a wrong index, or a layout that
differs between the two sides, would show. `Message` is what both receive
callbacks begin with: the first bytes are read as a header, and only a frame of
the type expected and with our signature is deserialized, which needs its exact
length.

### Transmitter and ThNetwork

`at` is where the firmware is: off, at the button, in `pair()`, at one of the
three steps of saving, in the loop, asleep. The memories are functions from
boards to configurations. The EEPROM library erases the sector and then writes
it; both are steps. A reset keeps RTC memory, a power cut loses it; a reset while
asleep may read as the end of the sleep, so `WakeUp` does not need a timer.
`SleepTime` is a product modulo the word of `unsigned long`, of a `uint8_t`.

`ThNetwork` conjoins the radio to those actions. A frame is heard when the
receiver's radio is on the sender's channel as it is sent, or is lost. What is
queued are sequences of bytes; `PairReq`, `SensorDatum` and `PairResp` are what
the receivers read of each frame, tables that TLC computes once. `Overheard` is
a frame of another network, which is not signed as ours are. The host
queues what it hears up to `QueueLength`; its handler takes one frame at a time
and may save before it answers, so answers come late: to a board that is on
another channel, that has given up, or that sleeps. `known` is a history
variable, the sensors that were ever in the file or were removed by an
administrator. The host's own small steps are in `HostTasks`; here a handler of
the web is one action, and that of a request three.

## 3. The runs

Passing runs:

| run | instance | shows |
|---|---|---|
| `readings` | `ReadingsRace` with 1 sensor, 2 readings, size 3; the state space is finite but for the history, which counts to 2 | buffers are well formed, iteration meets only written slots, every answer that no put overlaps is that of `BoundedReadings`, one put costs or adds one reading, every answer ends |
| `admin` | 1 browser, 1 sensor, room for 2, one waiting post, all interleavings of the host's tasks | a posted table changes what was edited; periods are cut to 16 bits |
| `host_overlap` | 3 sensors up to symmetry, room for 1, names chosen by the host, all interleavings and power losses | well-formed state, and one sensor too many at most |
| `host_serial` | 3 sensors, room for 2, 2 values of everything, no overlap | `Durable`, `LimitKept`, `Named`, `ResetSticks`, `FreshName` |
| `network_live` | 1 transmitter, 2 channels, periods 1 and 71, queue of 2, 2 resets | a paired transmitter was saved by the host; one configuration, exact sleeps, readings arrive again and again |
| `loop` | clock of 9 values, passes of 0 or 1, 2 tries, a long click of 2, window of 3, hosting of 4, 1 crash | timers, LED and window agree; the window lasts its period; defaults replace a network only after a long click; the board recovers |
| `charts` | 2 sensors or none yet, 3 readings, 1 reading per sensor on both sides, a day of 2, queue of 2, 1 restart of the host, any number of reloads and broken streams; canvases of 261 and 560 pixels, 1000 s between readings | lines without gaps, a page that stops drawing in two ways only and stays small, readings that get into their lines, axes that can be read |

Runs that find a disagreement between code and text (section 6): `rename`,
`wifi`, `reset`, `network_full`, `network_sleep`.

### Bounds, and why they are enough

* `Size = 3` has an empty, a partly full, a full and a wrapped buffer; indices
  take all four values. Two overlapping calls touch each other only in one
  buffer, so one sensor is enough; that buffers of two do not touch is proved
  (`Refinement`). Any number of puts may overlap an answer; from the second on
  the history only says that there were many.
* `AdminPage`: what makes a page stale is a change by another, which the radio
  task, the reset and a restart make as well as a second browser would. A table
  has one row, edited to an empty name, which becomes the next default name;
  65537 is cut to 1. More browsers, rows, names, names that HTML takes for tags
  and posts that wait together are covered by the proofs, which are for any number.
* Axes: 261 pixels leave a plot of one, the narrowest; temperatures are twice
  equal, a span of zero, and then below zero, where the pivot is zero.
* Room for 1 of 3 sensors (2 of 3): the last place can be raced for, and there
  is a third sensor to exceed the limit by two, which `SensorsBounded` excludes.
  In `host_serial`, with two values of names, periods
  and credentials a stale value differs from the new one.
* Channels: `pair()` tries 0 (no channel), 1 and 2 of three; the host is on one
  that is tried neither first nor last, or moves between two.
* Periods: time is in units of 256 µs, so a minute is 234375 units and a
  32-bit word 16777216: 71 is the last period that fits and 72 the first that
  does not, as in the code.
* `MaxResets` bounds the resets and power cuts of all boards and the frames of
  other networks together; two are a loss during recovery from a loss.
  `QueueLength` 2 lets a request of an earlier attempt wait behind a reading. A longer queue only delays answers more, and an
  answer can be delayed past any step already.
* `HostLoop`: the clock wraps any number of times; each period is shorter than a
  turn of the clock, and no two are equal except one try and one pass. The crash
  may hit any step, and restarts by the code itself are not bounded.
* `Charts`: three readings exceed the limit of one, also with one that is
  repeated. The limit is less than the day of 2, so a reading that is recent may
  be older than a full line, and times up to 3 have readings that become old
  while they are under way. `Shown` has an exit for each. One reading may wait in
  the host and two in the queue, whose limit is reached. Longer lines and days are
  covered by the proofs, but for `Shown`.
* One transmitter in `network_live`; that two do not disturb each other's
  pairing is proved for any number, and `network_full` has two.

Deadlock is checked in every run.

### Fairness

`FairSpec` assumes, of code that runs while powered: the host's Wi-Fi task keeps
handling what it queued (`WF` of `Radio`); an awake transmitter goes on (`WF` of
its `Step`; its code has no wait without a bound); a board asleep with its timer
set wakes (`WF`, the hardware's timer; a timer of 0 never wakes a board and gets
no fairness). `SF` of `DataHeard` says that the air does not lose every one of
infinitely many frames sent on the right channel. Buttons, administrators and
resets have no fairness. In `HostLoop`, `loop()` is called for ever (`WF` of
`update`), and `SF` of `Passing` says that not every pass takes less than a unit
of the clock. Readings, the access point and the buttons have no fairness;
`Recovers` has as premise that the network and the buttons come to rest. In
`Charts`, the radio task goes on to send the event and the browser handles what
has come (`WF`); connecting, answering and reloading have no fairness. In
`ReadingsRace` the web task goes on with its answer (`WF` of `Answer`); puts have
no fairness, and may come without end.
`Settled`, the premise of `ReadingsArrive`, is what the users must leave alone:
the sensor stays mapped, the host stays on the channel, nobody holds the button
at each wake.

## 4. What is proved

For all values of the constants that satisfy the named assumptions of the
modules (`SizeAssumption`, `IDsAssumption`, `TransmitterAssumption`, ...):

| theorem | says |
|---|---|
| `ReadingsStorageProofs!TypeCorrect`, `WrittenSlotsOnly` | buffers stay well formed; iteration meets only readings |
| `ReadingsStorageProofs!Refinement` | `Spec => Kept!Spec`: the store implements `BoundedReadings` for any size from 1 to 65534 |
| `ReadingsStorageProofs!RaceRefinement` | so does the store with a put and an answer in steps: an answer that no put of its sensor overlaps is exact |
| `ReadingsStorageProofs!OnePutAnswers` | what one put in the middle of an answer can cost or add, for any size |
| `ReadingsStorageProofs!RaceTypeCorrect`, `RaceWrittenSlots` | buffers stay well formed and answers no longer than the buffer, in each step of the race |
| `FramesProofs!RoundTrip` | of any list of up to five values of the types of a message, what is deserialized is what was serialized |
| `HostTasksProofs!TypeCorrect`, `BoundedByOneMore` | types; never more than the limit and one |
| `HostTasksProofs!LimitKeptAlone`, `FreshNameAlone` | the limit holds and a new sensor's name is unused, if handlers do not overlap (`Overlap = FALSE`) |
| `HostTasksProofs!DurableAlone`, `WifiConfiguredAlone` | what was confirmed is in the file, if handlers do not overlap and each SSID can be dumped (`Undumpable = {}`) |
| `HostTasksProofs!ResetSticksAlone`, `NamedAlone` | a confirmed reset stays and no sensor is without a name, also one that is posted empty, if handlers do not overlap |
| `ThNetworkProofs!TypeCorrect` | types of the composition |
| `ThNetworkProofs!OneConfigurationAlways` | the transmitter's copies agree whenever it runs its loop or sleeps |
| `ThNetworkProofs!SleepsExactly` | sleeps are exact, assuming `PeriodsFit`: each period is below 256 and its product below the word |
| `ThNetworkProofs!PairedAreKnown` | paired transmitters were saved, assuming `SpaceForAll`: as many places as sensors |
| `HostLoopProofs!TypeCorrect`, `TimersRunAlways`, `BlinksAlways` | types; timers run where something waits for them; the LED shows the window |
| `HostLoopProofs!WindowFullAlways`, `WindowClosesInTime` | the window lasts its period and one pass more at most, when its deadline fits the clock (`DeadlineFits`) |
| `HostLoopProofs!ResetMeantAlways` | defaults replace a network only after a long click, across a wrap of the clock and whatever the configurator is posted |
| `AdminPageProofs!PageTypeCorrect` | types of pages, requests and the host's tasks together |
| `AdminPageProofs!OnlyEditedAlways` | a table posted by a fresh page changes only edited names and makes no sensor, for any number of browsers, sensors and posts and any interleaving of the host's tasks |
| `ChartsProofs!TypeCorrect` | types, among them the limits of store and queue |
| `ChartsProofs!NoGaps` | a line whose history came first lacks only what is lost, on its way or older than a full line |
| `ChartsProofs!AlwaysStands`, `AlwaysBounded` | only a null table or an overtaken empty history stops the drawing; unless the latter has come the page holds one reading per sensor more than its limit at most |
| `ChartsProofs!TimesAreReadable`, `ValuesAreReadable` | for any times, values and canvas wider than its margins, each outcome of the rounding gives axes that can be read |

The assumptions are necessary: `network_sleep` and `network_full` show the
theorems fail without `PeriodsFit` and `SpaceForAll`, `wifi` shows it of
`Undumpable = {}` and `reset` of `Overlap = FALSE` (`ResetLasts`, which follows from `ResetSticks`).

How the arguments go:

* *Readings.* `Iterate` of a buffer is described by its head and its number of
  turns (`IterateForm`); `PutForm` shows that `put` appends to it and drops the
  oldest when full, with the modular arithmetic in `Turns*`. The invariant is
  that each buffer is well formed and that slots between tail and head hold
  readings; it is inductive, and each call then maps to the abstract one.
* *The race.* A put is the three stores in some order, an answer the two loads and
  a visit of each slot. `Writing` says what memory holds while a put is under way,
  namely the buffer before it, after it, or any of the mixtures that the stores
  done so far make. `Answering` says what an answer has so far: if no put overlapped it (`Undisturbed`),
  a beginning of what was kept when it began; if one did (`Once`), the bounds it
  took are those of the buffer before or after, and each slot visited since is the
  one before, the one after or, once, `Torn`. From these the cases of `OnePut` follow by the
  arithmetic of the two indices.
* *HostTasks.* `SensorsBounded` alone is not inductive: a task at `insert` has
  already passed the check. `Claimed` adds the tasks at `insert` to the size:
  their sum is at most the limit and one, and the file and each printed copy are
  bounded as well.
* *Handlers that do not overlap.* With `Overlap = FALSE` at most one task is away
  from its idle place, so what a handler read when it began is still so. Then: the
  space that was checked is there at the insertion (`LimitKept`); the text that
  is printed is the document, and the file becomes it before anything is confirmed
  (`Printed`); from a reset's confirmation to the restart both hold the defaults (`Defaults`); and the name chosen is
  not among the document's when it is stored (`Naming`), for there are as
  many default names as places and one place was free (`DefaultNameFree`, a count
  of a finite set).
* *Frames.* The places of the values follow each other without a gap or an overlap
  (`Indices`), so each byte belongs to one value, and each value is found
  whole. `ThNetworkProofs` cites it for each message: the invariants below hold
  of numbers that went through bytes.
* *OneConfiguration* is strengthened by the step between the two writes, where
  EEPROM is new and RTC memory is not yet (`Agree`).
* *SleepsAsSpecified.* Every configuration held anywhere, in four memories and in
  the answer to come, has a period of an administrator if it has an ID
  (`Exact`), and a sleeping board's timer is the product of what RTC memory holds.
* *PairedIsKnown.* The host's peer is in the document while it is being answered
  or was known (`HostKnows`), and a board has its ID only from an answer
  (`BoardsKnown`).
* *HostLoop.* `Open` ties the window's age to the clock and says that
  `PairingDisabled` has not missed its time when a pass ends; `Held` does it for
  the button, modulo the clock. `Services` follows how far the start is, which
  keeps the window shut before, and `TriesLeft` bounds the tries. `DueInTime`
  then shows that the timer is due exactly when the period is over.
* *Named.* There are as many default names as places, so while one place is free
  one of the names is unused, by counting. `Nameable` says that a task that found
  space has a name: without overlap the document is still the one in which the name
  was chosen, and where no name was free the check finds no space.
* *OnlyEdited.* A fresh page's table differs from the document in its edited rows
  only (`UpToDate`), a fresh answer not at all, and a post is fresh only if what
  came before it is harmless to it (`Harmless`): each step that changes a sensor
  clears `fresh` of all that it does not precede, and a row between the steps of
  `addSensor` still belongs to the post that is being handled.
* *The page's readings.* `RanksDiffer` shows that ranks are a bijection, so what
  `sort` returns are the same values in order (`SortedOrder`), and the recent ones
  come last (`OnlyRecentParts`). `TrimmedValues` then says that a reading that the
  trimming removes is old or older than a full line.
* *The page.* `Sound` joins the types to two facts about the loop of requests: it
  asks for no sensor twice, and no sensor it has still to ask for began with its
  history (`Loop`). So a history is added to a line at most once after the last
  trimming, which is why `Limited` allows one reading more only to sensors the
  loop has passed. No value is missing from a line that began with its history
  (`Unbroken`), and events always have one; `DrawsOn` goes through the steps and
  finds the two that can end the drawing.
* *NoGap* needs to know what can still come. Readings have increasing times and
  the stream is first in, first out (`Passed`, `InTurn`), so an event is older than what
  is still under way. `Covered` strengthens `NoGap`: where the line is full of
  later readings, those still to come are later too. `Few` says why a reading that
  comes is not cut off at once: a line that began with its history holds, of the readings
  from any event under way on, no more than fit, since they came with the history. `Told` is the same of
  an answer on its way. Each step then either keeps all that is under way
  (`NoneForgotten`), or is one of four that are treated alone: a reading is added,
  answered, begins a line, or comes into one.
* *The axes.* The set of all values drawn is finite and not empty, so it has a
  least and a greatest; the rest are bounds of divisions, each with its rounding
  error, and a count of the lines between the ends (`FewLines`).

Only model-checked: `ReadingsArrive`, `Recovers`, `Shown` and `EveryAnswerEnds`,
which are liveness under fairness and beyond the prover. Each invariant and each
action property of a passing run is proved. `RenameApplied` is false, as the run
`rename` shows.

## 5. What is not modelled

* The clock in `HostTasks`, which lets a click and a timeout happen whenever
  they could; and three tasks in `HostLoop`, which has the loop, the readings
  that come too early and the configurator's post. The LED's toggling.
* In `NoGap`, the sensors that had an event before their history: their lines lack
  readings until the page is reloaded. `Bounded` and the axes say nothing of a page
  that throws on a reading that is not there, and `Shown` nothing of one that no
  longer draws; `Stands` says how a page gets there. The model has these
  behaviours; `whole`, `Throwing` and `Draws` are where the properties leave them
  out.
* In `ReadingsArrive`, a host that has moved to another channel since the pairing,
  and the boot whose pairing failed; `Settled` is where it leaves them out. In
  `OnlyEdited`, the tables that are out of date (`fresh`).
* A deadline that wraps, in the properties of the window: `Timer::update`
  compares a sum with `millis()`, so every 49.7 days there are two minutes in
  which a click opens a window that closes in the same pass, and one pass in
  which a window may miss its deadline and stay open until the next turn. The
  model has these behaviours; `DeadlineFits` is where the properties say so.
* The data race of two tasks on the JSON tree: a call of `ConfStorage` is one
  step. The same holds of two tasks that make entries of the map of buffers at
  once. A race on one ring buffer is in `ReadingsRace`; `Charts` takes its answers
  as no put had overlapped them. The buffers of removed sensors are never freed,
  and memory has no limit in the model.
* The hash that makes an identifier of a MAC address: two boards with one hash
  would be one sensor. The host's address in the transmitter's configuration
  comes and goes with the ID. The driver's list of peers.
* A message with our header and another length, as of another version of the
  firmware: `deserialize` gives nothing of it, which the handlers do not notice.
  A frame too short for a header is ignored as one of another network is.
* Failing calls of the SDK (RTC memory and EEPROM with constant, valid
  arguments, of which only a line in the log would tell), the sensor's driver and
  the wait for its measurement. `pair()` ends at channel 12, so a host on 13 is
  never found, and such a host is not in the model.
* On the administration page, the values of the fields but for the period, the
  messages to the user, the login and the logout; the order in which a table's rows are handled
  is arbitrary, and two equal posts that wait are one. `wifiSettings.html` is a
  form without a script.
* Drawing itself, and a canvas without a plot (260 pixels or fewer), on which the
  loop of `drawLegendX` does not end; static pages, logging.

## 6. Findings

| run | what it shows |
|---|---|
| `rename` | with the full number of sensors no sensor can be renamed: `addSensor` applies its space check to sensors already mapped, the handler answers 200 |
| `wifi` | an SSID that is not UTF-8 leaves an empty file: `save()` truncates before `dump()` throws, and the board restarts as out of the box |
| `reset` | the web task has printed a posted network and not closed its file; the factory reset sets defaults, prints and closes; the web task closes the older document over it, and the restart finds the network that was posted before the reset |
| `network_full` | a host without space answers requests as if it had stored the sensor |
| `network_sleep` | a period of 72 minutes sleeps for 25 seconds |

That a new period reaches a transmitter only by pairing again is documented
(`src/host/html/admin.html:54`) and modelled, and is no finding.

## 7. Plan

Done, in this order: readings and their refinement; the host's tasks; the
network; the host's loop and its clock; the page with the charts; a put during an
answer; the administration page; the axes of the charts; the bytes of the frames; the proofs of section 4.
To come:

1. That `ThNetwork`'s host implements the handlers of `HostTasks`.
