# QualiAir firmware: specifications and proofs

The repository is the firmware of an ESP32 air-quality monitor: it is given
Wi-Fi credentials over BLE by a phone, connects, sets its clock, reads a dust
sensor, two gas sensors and a BME680 and publishes the readings over MQTT.
It comes with a copy of Espressif's `mdns` component, which it builds and uses
to announce itself. This directory holds TLA+ models of the parts whose
correctness depends on the order in which tasks run, the TLC configurations
that check them and the theorems proved about them with TLAPS.

In the tables below `src/` stands for `esp32_firmware_airquality/src/` and
`mdns/` for `esp32_firmware_airquality/components/mdns/`.

## 1. Inventory

### Application

| part | state | operations | talks to |
|---|---|---|---|
| start and reset task, `src/main.c` | `hold_time`, the button | `app_main`; the polling loop of `reset_button_task` | NVS, LED, `sm_init`, `esp_restart` |
| state machine, `src/state/state_machine.c` | `current_state`, four `*_initialized` flags | `sm_init`, `sm_start`, `sm_transition` | called by `app_main` and by the Wi-Fi event handler; calls MQTT, sensors, LED, provisioning |
| Wi-Fi manager, `src/wifi/wifi_manager.c` | `device_ip`, endpoint | `event_handler`, `device_info_handler`, `wifi_manager_init` | default event loop, provisioning manager, state machine |
| MQTT manager, `src/mqtt/mqtt_manager.c` | `client`, `publish_task_handle` | `mqtt_event_handler`, `mqtt_publish_task`, init and connect | client task, sensor manager, LED |
| sensor manager, `src/sensor/` | driver handles | `sensor_manager_init`, `sensor_manager_read`; one driver per sensor | publish task |
| LED manager, `src/led/led_manager.c` | `current_mode` | `led_manager_set_state`, `led_task` | written by five tasks, no lock |

Seven tasks run this code: `app_main`, the reset task, the default event
loop, the MQTT client, the publish task, the LED task and the BLE transport.
No data of the application is protected by a lock. The state machine has no
task of its own: it runs inside whoever calls it, and its transition to
`STATE_ONLINE` sleeps for up to twenty seconds inside the event loop. Before
that the same handler starts mDNS and waits there until the mdns task has set
the host name (`wifi_manager.c:142-144`).

What makes the parts correct:

* **State machine.** A lost link is always re-established, even if it is lost
  while the event loop sleeps; services are brought up once per boot, in
  order; the state only moves forward; the event loop comes back.
* **MQTT.** One publish task, never before the sensors are set up, never
  stopped by an outage.
* **Reset.** The credentials are gone after a reset, whatever the provisioning
  manager writes meanwhile, and the device offers provisioning again.
* **Provisioning.** Bluetooth is given up by a boot that has found credentials
  (`wifi_prov_mgr_deinit` with `FREE_BTDM`, `state_machine.c:142` and 149) or at
  the end of a provisioning, and only when it is not needed any more.
* **LED.** It shows the mode that its unsynchronised writers leave it in.
* **Sensors.** A cycle without failures delivers a measurement that nobody has
  had yet, its own or one left over from a cycle that failed to fetch it; no
  measurement is delivered twice, the chip is written only while it sleeps,
  its fields come in the order of their age, heating times survive their
  packing into eight bits.

### mdns

| part | state | operations | talks to |
|---|---|---|---|
| service, `mdns_service.c` | action queue, service task, lock, timer | queue an action, execute it, start, stop | every other part |
| querier, `mdns_querier.c` | `s_search_once` | new, get results, delete, blocking query, timer scan, results from packets | service, timer, parser, callers |
| browser, `mdns_browser.c` | `s_browse`, results | new, delete, add, finish, sync, results from packets | service, parser, notifier |
| interfaces, `mdns_pcb.c`, `mdns_netif.c` | PCB state per interface and protocol | enable, disable, announce, probe, duplicate | event loop, transmit queue |
| transmit queue, `mdns_send.c` | `s_tx_queue_head` | schedule, clear, dispatch, handle | timer, service, PCBs |
| reception, `mdns_receive.c` | none | parse a packet | querier, browser, responder, PCBs |
| responder, `mdns_responder.c` | host name, services, `action_sema` | add, remove, rename, look up | API callers, service, PCBs |
| networking, helpers, console | sockets | I/O, strings, allocation, output | lwIP |

Three kinds of task meet here: API callers, the timer task and the service
task. They share lists under one mutex that is not recursive and exchange
*actions*, structures with raw pointers, over one bounded queue. The lock
protects the lists, not the time an action spends in the queue; the hazards of
`PROJECT.json` are mostly about that gap.

What makes the parts correct:

* **Querier.** No freed search is followed, none is forgotten, every blocked
  caller returns.
* **Browser.** One browse per type, owned by somebody until it is freed; what
  the notifier does not know of an instance is on its way to it, or was lost in
  one of the two ways the code has for that.
* **Interfaces and transmit queue.** A PCB that probes has exactly one packet
  that carries its probe on; a name is served when it has been asked for three
  times; nothing scheduled points to what has been removed; an interface that
  is up comes to serve; a duplicate never outlives the interface that serves
  for it.
* **Responder.** Once an announcement is out a listener holds what the services
  have, and nothing of what they no longer have; a call that runs out of memory
  leaves the services as they were.
* **Start and stop.** Everything is freed once, by an owner nobody is in the
  way of, and a waiting caller gets back.

## 2. Modules and the code

| module | models | state | actions |
|---|---|---|---|
| `Nvs` | flash storage *(external)* | `creds`, `nvs` | init, erase, store |
| `LedManager` | `led_manager.c` | `current_mode`, `led_level`, `led_pc` | one per piece of `led_task` between two delays |
| `ResetButton` | `reset_button_task`, the finger | `button`, `held`, `reset_pc`, `hold_time` | sees a press, counts, ignores, erases; press, release, time |
| `Platform` | ESP-IDF as the firmware uses it *(external)* | event queue, link, access point, provisioning manager, clock | the driver's, the phone's, SNTP's |
| `MqttManager` | `mqtt_manager.c`, the sensor manager's two calls | client, publish task, last sample | connected, disconnected, each piece of the publish task |
| `StateMachine` | `state_machine.c`, `app_main`, `event_handler`, the endpoint | `current_state`, `main_pc`, `ev_pc`, flags, counts of initialisations | a step of `app_main` each, an event each, the three pieces of `STATE_ONLINE` |
| `QualiAir` | the whole firmware | all of the above | one disjunct per task or outside party; restarts; the properties and the fairness |
| `BringUp` | what the firmware promises about its services | `stage` | advance, restart |
| `MCLink`, `MCReset` | `QualiAir` with some tasks at rest | | |
| `Bme68x` | `bme68x.c` over I2C, and the chip *(external)* | operators on a state of chip, driver and result code | each driver function as the set of states that may come of it |
| `Sensors` | `sensor_manager.c`, `BME680Sensor.c`, the dust sensor, any client of the driver | the state of `Bme68x`, the static configuration, the cycle | set-up, trigger, a wait cut to whole ticks, fetch; a minute; a restart; any call of the driver |
| `MdnsService` | action queue, service task, lock | `actions`, `current`, `lock` | receive, execute, enqueue |
| `MdnsQuerier` | one-shot searches with their callers and the timer | the fields of a search, the list, the timer's scan, callers | a piece of an API call each, the timer's scan search by search, an action each |
| `OneShotQuery` | what each caller of a query is promised | `phase`, `due` | asks, falls due, ends, releases |
| `MdnsBrowser` | browses and their notifications | browses, results, what the user knows of them, what it will not hear | API calls, an action each, an SRV, TXT or address record |
| `MdnsTransmit` | the list of `mdns_send.c`, the timer's round, the fate of an action's packet | `tx`, `cursor` | timer starts, posts, ends; a packet is skipped or sent |
| `MdnsPcb` | the states of an interface, `mdns_pcb.c` | `pcb` and who was asked for how often | operators: probes begin, an announcement begins, a service is unscheduled; steps after sending; the timer's failed allocation |
| `MdnsResponder` | names and services of `mdns_responder.c`, the events of `mdns_netif.c`, conflicts and questions of `mdns_receive.c` | host and instance names, services | an API call each, an event each, a kind of packet each |
| `MdnsRecords` | what a service says of itself, and a listener that hears it | services with names, TXT items and subtypes, the listener's records, why it may not know | each function that changes a service, with each allocation that fails; the end of the probes, an announcement |
| `MdnsLifecycle` | `mdns_init` and `mdns_free` step by step; the callers of `mdns_hostname_set` | how far the owner is, the timer, the task, the lock, `action_sema` | a step of start or stop each; callback, packets, events; callers |
| `MCBrowse`, `MCProbe`, `MCRecords` | values of constants, symmetry | | |
| `QualiAirProofs` | the theorems about `QualiAir` | | |
| `SensorsProofs` | the theorems about `Sensors` | | |
| `MdnsServiceProofs` | lemmas on the action queue, for every module that extends `MdnsService` | | |
| `MdnsQuerierProofs`, `MdnsBrowserProofs`, `MdnsLifecycleProofs`, `MdnsResponderProofs`, `MdnsRecordsProofs` | the theorems about the mdns modules | | |

Conventions. `xxx_pc` is the place where a task gives up the processor: a step
of the model runs from one blocking call to the next, which is how the code is
interleaved where it really is. A write of a shared variable by another task
between two such places is a step of that task. Where the code calls another
component the model uses that component's operator inside the same action
(`led_manager_set_state` in `PubPublishes`, `esp_wifi_connect` in
`HandleDisconnected`). `PROJECT.json` maps every definition to its lines.

Abstractions that matter:

* *Time.* Delays end eventually and may be outrun, with two exceptions. The
  publish task's first delay of one second does not end while the event loop
  is between the start of the MQTT client and the end of
  `sensor_manager_init` (`ByPublishTask`): what is left there is a set-up with
  I2C timeouts of 100 ms. And no BLE session is opened between the erasure of
  the flash and the restart that follows it at once (`SessionPossible`).
* *Credentials* are none, good or bad; *readings* keep whether the sensors
  were set up and the clock set. A search keeps counts, not results; a
  browse's result keeps its host, text and addresses, and "TTL zero or not".
* *Memory* of the mdns model: a search or browse is identified with its block,
  so that a stale pointer meets whatever was allocated there next. Exhausted
  memory takes the error path of a full queue.
* *Transmission times* are an order: a new packet goes anywhere behind those
  that the timer has already found due. A packet's records keep whom they point
  to, and `"freed"` is a pointer to a string that is gone. The clock does not
  wrap: `mdns_priv_send_after` compares times without sign (`mdns_send.c:1635`),
  so an order across the wrap may be wrong, which delays a packet once in 49
  days. Memory that runs out while an announcing PCB's packet gets more answers
  (`mdns_pcb.c:54`, the break) leaves out a service there, which `MaxFails` does
  not count.
* *Parsing* keeps what a packet does: it is ignored, asks for something, has
  the answer already, conflicts with a name, a text or an address, or comes
  from our own other interface; each is a disjunct, and any may happen.
* *The network's other side* in `MdnsRecords` is one listener that hears every
  packet and forgets nothing by itself. Announcements, probes and goodbyes may
  fail to be allocated, each on its own; `packet.made` says whether there is one.
  `MaxFails` counts the calls that run out of memory, not how often one of them
  does. A service whose answers fit only in part into an announcement that is on
  its way counts as left out. A PCB that announces without a packet
  (`mdns_pcb.c:77`) gets out of that state only by a probe: that it also takes an
  answer to somebody's question for its packet is not in this module.
* *Undefined behaviour* stops a model: `fate` says what it was. In
  `MdnsRecords` these are the lock kept (`mdns_responder.c:1023`), a NULL name
  that is written (`mdns_send.c:685`, although mdns.h:583 lets a caller leave
  the name out), a torn lookup result (`mdns_responder.c:837`) and a removed
  service that a PCB still wants to probe for (`mdns_send.c:1785`: only PCBs
  with packets are looked at). In `MdnsLifecycle` there is also an event handler
  that finds no queue.
* *A failed transfer* to the BME680 has had its effect or not, and a failed
  read leaves what the caller's buffer held. The values themselves are left
  out; a measurement is known by its number. The wait for it is 183 ms cut to
  18 ticks of 10 ms: when it ends the measurement has ended or not
  (`ReadWaits`), but the driver's five tries to fetch, with a tick between them,
  last longer than what was cut off (`TriesLast`), provided the configuration in
  memory is that of the chip.
* *Execution of an mdns action* is one step, since all else that touches the
  lists takes the lock. The accesses that do not are steps of their own:
  the check of `mdns_query_async_delete` and the freeing in
  `mdns_query_generic`. So are the two halves of the timer's stop (state off,
  then post), between which a caller may look.
* `mdns_init` and `mdns_hostname_set` inside the event loop (`HandleGotIp`) are
  one step of the application's model. That this wait ends is a statement about
  the mdns task, `CallersReturn` of `MdnsLifecycle`; `EventLoopReturns` rests on
  it through the fairness of `ByEventLoop`.
* The events that `event_handler` only logs are never queued.

## 3. Runs

| run | asks | states |
|---|---|---|
| `link` | over two outages of the access point, every order of late events and one power failure: retry always pending, services once and in order (`BringUp`), one publisher, Bluetooth freed only by a boot with credentials or by the end of a provisioning, state only forward; an online device gets its link back, the event loop returns, publishing goes on | 0.37 M |
| `reset` | a reset forgets, leads to provisioning, and cannot get stuck | 0.64 M |
| `leds` | types with all tasks together and a phone that confirms at any time; the LED blinks while the device connects and is dark when it is off | 0.35 M |
| `sensors` | the cycle of readings with failing transfers and a restart; any use of the driver in its other modes | 0.19 M |
| `search` | three queries of two callers in two blocks of memory: no use after free, no forgotten search, the searches implement `OneShotQuery`, blocking queries return | 0.51 M |
| `browse` | one browse per type with one owner; no change is lost but those that meet a full queue and first texts | 2.1 M |
| `probe` | one interface and two services of one type: calls, another host's packet and a failed allocation between the timer, the queue and the service task; the probe is on its way, pointers are alive, names asked for before they are served, the interface comes to serve | 0.76 M |
| `twins` | two interfaces that may share a subnet, enabled, disabled, announced and found duplicate: the duplicate's other interface is up | 1.4 M |
| `records` | four calls of any kind, one of which may run out of memory, between announcements: what a listener comes to hold | 0.31 M |
| `lifecycle` | two lives of the component with any step of `mdns_init` failing and `mdns_free` at every point; callers return | 0.84 M |
| `hold_blink`, `browse_bye` | two places where the code breaks what its own comments promise | |

Bounds. `MaxOutages = 2` lets the second outage meet the handling of the
first; an outage can fall into each of the pieces of `STATE_ONLINE`, and the
event queue itself is not bounded. `PubRetries` and `SyncRetries` of 1 or 2
have both a wait that goes on and one that gives up. `HoldTarget = 2` gives a
count that is interrupted and one that is not. `MaxPresses = 2` lets a press
span a restart. One power failure may hit any state. For the mdns modules two
blocks suffice for reuse and for two actors that differ; a queue of one or two
is full as often as not, and three packets give an instance that appears,
changes and leaves; `browse` has a queue of three for the six actions that its
calls and packets may post. `search` has callers who delete what has ended
(`Careful`) and complete authoritative answers (`PacketKinds`).

In `probe` four calls are enough for a service to be added, another added,
renamed or removed while the first is probed, the host renamed under both, and
the default instance renamed while a service with its own name is probed;
the received packet supplies a conflict or a question and the failed allocation
may be any. `twins` begins with two interfaces that serve, and two events and a
packet take one of them down and find it duplicate in either order. In
`records` two names, subtypes and keys are exchangeable (`Symmetry`), and four
calls add, change twice and remove; an array has up to three entries
(`MaxArray`), so that a new one can stand behind one that is there twice.
`lifecycle` stops and starts again, since what a first life leaves is met by the second. In `sensors` two failures can
fall into one cycle or two of three; the chip's index starts at 254 so that it
wraps; the heating times are those at the borders of the packing (0, 63, 64,
256, 1923, 4032); two pulses stand for the dust sensor's many, since a sample
depends on the one before.

Deadlock is not checked where the system may come to rest: a device in
`STATE_CONNECTING` or `STATE_ERROR` waits for ever, `MCLink` and `MCReset`
leave tasks out, and the bounded calls of the mdns modules run out. It is
checked in `leds` and in `search`.

### Fairness

Tasks are scheduled preemptively and each loop blocks in a delay, so a task
that can step eventually does: weak fairness per task (`TaskFairness`). A
Wi-Fi attempt and a DHCP exchange end one way or the other
(`RadioFairness`). Nothing is assumed of the access point, phone, broker, SNTP,
user or power: `OnlineLinkRecovers` and `ResetReprovisions` name what they need
(the access point stays, the button is released) in their premises. In the
querier the service task and callers get strong fairness, because they compete
for a mutex that the timer task takes for a moment every 100 ms and leaves free
in between. Time passes for every search. The responder's service task gets
strong fairness for the same reason, and its timer weak fairness; that every
interface comes to serve also needs that time and again the queue is drained
before the timer goes off again (`DrainedBetweenTicks`, the premise of
`PcbsComeToRun`): the timer has 100 ms, and handling a packet takes far less.
In `lifecycle` the task, the timer's callback and the callers get weak
fairness; the owner is not made to call `mdns_free`.

### What the runs show of the code

The properties of the ten passing runs hold. Some of them hold for reasons that
are easily lost: `RetryPending` needs the driver to report a lost link *after*
the address it invalidates, `SensorsReadyBeforeRead` needs
the publish task's first delay, `ResetForgets` needs `nvs_flash_erase` to close
the storage, `NoUseAfterFree` needs every answer to be looked at by
`mdns_priv_query_done`, `ProbeOnItsWay` needs the list to be cleared
whenever a probe begins.

Properties have exceptions where the code has none of its own; each is a
variable or premise with a name, and without it the run fails:

* `early_ok`: a phone that says OK before it was told an address ends the
  provisioning of a device that may have no credentials (`wifi_manager.c:32`).
* `lost`, and the first text in `Known`: a `BROWSE_SYNC` without room in the
  queue is dropped after the result has been changed (`mdns_receive.c:1223`), and
  a text that comes in a packet of its own after the SRV record is stored without
  a report (`mdns_browser.c:411`). A later change of the same result tells of
  both, a repeated answer does not.
* `mark.left` in `CycleIsFresh`: a field that an earlier cycle failed to fetch is
  new, and since the wait is shorter than the measurement it is taken for this
  cycle's.
* `spoilt`: a probe or an answer that could not be allocated leaves its PCB
  probing without a packet (`mdns_pcb.c:376`), for good. And of a scheduled probe
  for two services of one type the removal of one takes out the first question
  with that type, which may be the other's (`mdns_send.c:1798` compares type and
  protocol only): the other's name is then served without having been asked for
  three times, the question that stays points to the freed name, and when the
  last service goes the probe stays in the list for the sake of that question.
* `dropped`: a new default instance name begins a probe that forgets the
  services with names of their own that were being probed
  (`clear_old_probe`, `mdns_pcb.c`), as does a failed allocation.
* `unsaid`, `stale`: changes without an announcement, and records that go
  without a goodbye. A goodbye is sent only by a running PCB, and given up when
  it cannot be allocated (`mdns_send.c:1519`); a PCB whose announcement could not
  be allocated says nothing, and adds nothing later, until a probe begins
  (`mdns_pcb.c:77` and 51); adding or
  renaming a service while another's announcement is scheduled replaces it; an
  array of subtypes with one that exists already is added up to there and not
  announced (`mdns_responder.c:1281`).
* `posted`, `late`: an `mdns_free` that finds the queue full cannot post
  `TASK_STOP` and deletes the task in the middle of an action
  (`mdns_service.c:327`); and one that stops the timer does not wait for its
  callback, which then takes a deleted lock (`mdns_service.c:337`).
* `handlers = "left"`: an `mdns_init` that fails after `mdns_priv_netif_init`
  leaves its event handlers registered (`mdns_service.c:383`; only `mdns_free`
  unregisters them, `mdns_service.c:398`), and an event then finds no queue.
* `overlapped`: two callers on the one binary `action_sema` lose a completion,
  and one of them waits for ever (`mdns_responder.c:617`).
* `lock = "unregister"`: `mdns_unregister_netif` ends by taking the lock again
  (`mdns_netif.c:431`), and nobody gets it any more.

The violations, each listed as a finding:

* `hold_blink`: "Fast blink during reset hold" (`led_manager.c:35`). The LED task
  ends the blink of a transmission by clearing the mode, without looking whether
  it is still the one it began with (`led_manager.c:23`); the press of the reset
  button in those 200 ms is not shown.
* `browse_bye`: on a goodbye the service task calls an API function that takes
  the lock it holds; mDNS stops for good (`mdns_browser.c:71`).

Observed without a run of their own. The first ten are stated by a property
that the named module defines, with the line it quotes; put in place of the
properties of the configuration in brackets, with that module's behaviours, it
yields the counterexample:

* `FreedOnceProvisioned` (`MCLink.cfg`): a phone that says OK before it has sent
  credentials makes an unprovisioned device release Bluetooth
  (`wifi_manager.c:32`).
* `HeldFiveSeconds` (`MCReset.cfg`): the loop that counts to five seconds
  contains no delay (`main.c:36`), so any press the poll sees erases the
  credentials.
* `BlinkThenOff` (`MCLeds.cfg`): a press that is too short leaves the LED
  blinking (`main.c:47`), against `led_states.h:5`.
* `CycleIsOwn` (`MCSensors.cfg`): after a failed fetch each cycle delivers the
  measurement of the one before and leaves its own
  (`BME680Sensor.c:59` and 122).
* `DeletesFinished` (`MCSearch.cfg` with `Careful = FALSE`): the state that
  `mdns_query_async_delete` checks is cleared before the action that finishes
  the search is even posted (`mdns_querier.c:145`); a search is freed while it
  is in the list. With careful callers, `PacketKinds` that include
  `"partial"` and `MaxPackets = 2`, `NoUseAfterFree` fails: a packet finishes a
  search whose `SEARCH_END` is queued, and the caller frees it in between.
* `EveryChangeReported` (`MCBrowse.cfg`): the first text, as above.
* `NoUseAfterFree` of `MdnsBrowser` (`MCBrowse.cfg`): a browse is freed while a
  `BROWSE_SYNC` with pointers to it is behind the `BROWSE_END` in the queue.
* `EventsMeetQueue` (`MCLifecycle.cfg`): the handlers left by a failed
  `mdns_init`, as above.
* `NothingOfRemoved` of `MdnsResponder` (`MCProbe.cfg`): removing a service
  takes its instance name out of a scheduled probe, not the question about its
  host, which keeps pointing to the freed strings (`mdns_send.c:1776`).
* `PacketAtHead` of `MdnsResponder` (`MCProbe.cfg`): a packet that could not be
  posted is overtaken by the action of the next one, which does not find its
  packet at the head (`mdns_send.c:1840`) and is wasted. While the packet that
  was not posted is the head, the next round posts it and every due packet
  behind it again, queued or not (`mdns_send.c:1728-1743`), so nothing is lost by
  this alone. Only when that head leaves the list otherwise, or the round runs
  out of memory, may a packet come to head the list that is marked queued and has
  no action: then nothing behind it is sent (`Wedged`, which `PcbsComeToRun`
  excepts).
* An update of the subtypes with an array in which one stands twice is given up
  there, after the old ones were freed (`mdns_responder.c:1364`): what the service
  had and the array names behind that place goes without a goodbye, since the
  goodbye is for what the array does not name.
* After twenty attempts MQTT starts with a clock that was never set
  (`state_machine.c:83`); nothing leads out of `STATE_ERROR`
  (`state_machine.c:120`); searches with enough results stay active after an
  answer that is not authoritative (`mdns_receive.c:1209`).
* The sensor manager publishes the zeros of a failed BME680 reading
  (`sensor_manager.c:55`); if its set-up failed, readings are valid without the
  chip's coefficients, against `bme68x.c:141`.
* An event of an interface that meets a full queue is lost
  (`mdns_netif.c:174`), which no property denies; an mdns_init that fails late
  leaks the actions in the queue (`mdns_service.c:385`);
  `mdns_priv_responder_free` looks into `s_server` before it looks whether
  there is one (`mdns_responder.c:64`); `append_host_list` leaves out the first
  delegated host (`mdns_send.c:376`).

## 4. Proofs

A theorem holds for all values of the constants that satisfy the assumptions of
the modules: counts are natural numbers (so the number of outages, callers,
searches, browses, interfaces, failed transfers and restarts is arbitrary), the
numbers of attempts positive, a queue has room for something, twins come in
pairs, heating times are 16-bit numbers. The last column says what a theorem
assumes beyond that.

| module | theorem | states | for |
|---|---|---|---|
| `QualiAirProofs` | `TypeCorrect` | `TypeOK` | |
| | `ServicesSafe` | `OncePerBoot` and `SensorsReadyBeforeRead` | |
| | `BringUpImplemented` | `ServicesInOrder`: the firmware implements `BringUp` | |
| | `RetryAlwaysPending` | `RetryPending` | |
| | `ResetAlwaysForgets` | `ResetForgets` | |
| | `LifecycleAlwaysForward` | `LifecycleForward` | |
| | `BluetoothFreedOnlyThen` | `BluetoothFreedWhenProvisioned` | |
| `SensorsProofs` | `TypeCorrect` | `TypeOK` | |
| | `ConfiguredAsleep` | `WrittenAsleep` | |
| | `FreshCycles` | `CycleIsFresh` | |
| | `EachDeliveredOnce` | `DeliveredOnce` | |
| | `FieldsSortedByAge` | `SortedByAge` | |
| | `HeaterObeys` | `HeatsAsAsked` | |
| `MdnsQuerierProofs` | `TypeCorrect` | `TypeOK` | |
| | `NothingFreedIsFollowed` | `NoUseAfterFree` | `Orderly` |
| | `StoppedWillEnd` | `EndOnItsWay` | `Orderly` |
| | `SearchesImplementOneShotQuery` | `EndsForAReason`: each caller's search implements `OneShotQuery` | `Orderly` |
| `MdnsBrowserProofs` | `TypeCorrect` | `TypeOK` | |
| | `BrowsesOwned` | `OneOwnedBrowsePerType` | |
| | `ChangesReach` | `ChangesReported` | |
| `MdnsLifecycleProofs` | `TypeCorrect` | `TypeOK` | |
| | `FreedOnce` | `FreesOnce` | |
| `MdnsResponderProofs` | `TwinsNotBothSilent` | `TwinIsUp`, from `Init` and from `InitServed` | `MaxFails = 0` |
| | `OneTwinIsUp` | of two twins one is up while one is set aside | |
| | `ProbesOnTheirWay` | `ProbeOnItsWay`, from both | |
| | `PointersStayAlive` | `PointersAlive`, from both | |
| | `NamesAskedBeforeServed` | `AskedBeforeServed`, from both | |
| | `TypeCorrect` | `TypeOK`, with the order of the list and the timer's lock, from both | `Plenty` |
| `MdnsRecordsProofs` | `TypeCorrect` | `TypeOK` | |
| | `ListenersAlwaysForget` | `ListenersForget` | |
| | `ListenersKeepUp` | `ListenersUpToDate` | |
| | `NoMemoryLeavesServices` | `NoMemoryNoChange` | |

A property's exceptions by name (section 3) are part of what is proved. The
premises are those without which TLC finds a counterexample, but for
`Plenty`: it says that the blocks of memory for packets, which are numbers,
never run out, so that `NewIds` is defined. An allocation may fail all the
same, `MaxFails` times, since failing is a step of its own; TLC's runs have as many
blocks as their packets take. `Orderly`: callers delete a search when it
has ended, and answers are complete and authoritative; without it the
counterexamples of section 3 (`mdns_querier.c:685`, `mdns_receive.c:1209`)
apply. `MaxFails = 0`: a probe
that cannot be allocated leaves an interface set aside that was brought up
again, and its twin may then go.

### The application

* *Types* (`TypeInv`). A counter of attempts stays in range only because a wait
  that goes on has an attempt left, so `WaitsBounded` is part of the invariant.
* *Services* (`ServicesInv`). The counts of initialisations are determined by
  the flags, the flags are set in one order, and where the event loop is inside
  `STATE_ONLINE` says how far it has come: a client exists only with its flag,
  the MQTT flag without the sensors' only at `ev_pc = "sensors"`, and a publish
  task past its first delay only with the sensors. The refinement of `BringUp`
  follows from the same invariant: each step leaves `StageReached` alone,
  raises it by one, or is a restart.
* *Retry* (`LinkInv`). That an idle link of an online device has a
  `STA_DISCONNECTED` queued is not inductive: a `STA_GOT_IP` in the queue may
  make the device "online" later. The invariant adds that, while the link is
  idle, every queued `STA_GOT_IP` has a `STA_DISCONNECTED` behind it
  (`Covered`), with lemmas on what appending to and taking from a queue does to
  it, and `QuietStart` for the time before the driver runs.
* *Reset* (`ForgetInv`). Between erasure and restart the flash stays empty: the
  storage is closed, and nobody opens it but a boot.
* *Lifecycle* (`LifeInv`). `PROV_START` is the first event of an unprovisioned
  device, `PROV_CRED_RECV` is queued before anything that comes of the
  credentials, and while the provisioning service waits for credentials the
  link is idle and nothing else is queued; so no late event can move the state
  back.
* *Bluetooth* (`ProvInv`). Its memory goes with `PROV_END`, the end of a chain
  that the invariant goes back along: the service is stopped by a phone that
  was told an address (`StoppedInv`) or was early, an address comes with good
  credentials (`AddressInv`), and what the driver works with has been stored
  (`StoredInv`). A boot that finds credentials gives Bluetooth up before the
  manager runs and has none of that chain (`BootedInv`).

### The sensors

Each function of the driver is a set of outcomes put together by `Then`. A lemma
for each says what any outcome keeps (`Kept`), what it has changed when it reports OK,
and that it reports OK when no transfer failed (`Clean`); the lemmas compose like
the functions do. The invariant (`SensorsInv`) has three parts.

* *The application's cycle* (`SetUp`, `CycleInv`). Field 0, when it is new,
  holds a measurement later than the last one delivered (`FieldInv`), whatever
  failed and whenever the controller restarted: that is `DeliveredOnce`. A
  cycle in which the count of faults has not moved since its start goes from
  `Triggered` to `Ended`, over `MeasuredOne` where the measurement ends in
  time: field 0 holds what it started or what was
  left before (`mark.left`), or nothing while the measurement runs, and then the
  tries last, since the set-up told the chip what the wait is computed from
  (`WaitIsLong`).
* *Any client's calls* (`Sequenced`). New fields hold the last three
  measurements, each in its turn, with an index that follows from its number
  (`InTurn`). Two such fields are at most two measurements apart, and then the
  comparison of 8-bit indices in `sort_sensor_data` decides like the numbers do
  (`Around`, `SwapIs`), for every value that the index starts at; three
  compared exchanges of such fields sort them (`SortedIs`).
* *The heater.* For every 16-bit time there is one unit that it fits with first
  (`SomeUnitFits`), and rounding down to it loses less than a unit
  (`EncodedIs`, `GasWaitIs`, `SharedDurationIs`).

### mdns

`MdnsServiceProofs` has what all of these need: what posting, receiving and
executing an action do to the set of actions that are on their way (`Pending`), and
that an action that is posted once stays so (`Once`).

* *Querier* (`QuerierInv`). Each allocated search belongs to one caller
  (`HandleInv`); each `SEARCH_ADD` and `SEARCH_END` is on its way at most once
  (`EngineInv`); and how far a search is says what still points to it
  (`SearchInv`): while it is being added it is in no list, while it is listed
  its caller has not seen it end, and it is off only when its end is queued or
  in the timer's hands. Stale pointers are then impossible, and each step of a
  search is one of `OneShotQuery` or leaves it alone.
* *Browser.* A live browse is either listed or in one `BROWSE_ADD` on its way,
  never both (`OwnedInv`). For the notifications (`ReportedInv`): what the
  user has not been told is named by a `BROWSE_SYNC` on its way or by `lost`, or
  is a first text, for every allocated browse, listed or not.
* *Lifecycle* (`LifeInv`). As long as nothing has gone wrong, how far the owner
  is determines which parts exist and who may use them (`Parts`): what has been
  built (`BuiltInv`), whether the task runs (`TaskInv`), who has the lock
  (`LockInv`), and that no packet waits behind the `TASK_STOP`, so that a
  stopped task has sent all it was told to send (`StopInv`).
* *Responder* (`TwinInv`). A lemma for each operator of `MdnsPcb` says that it
  brings no interface up or down and sets none aside (`ComeFrom`), which leaves
  events and conflicts to look at.
* *Probes* (`ProbeInv`, which is `TwinInv` with `DataInv` and `SoundInv`). That a
  probing PCB has its probe in the list says too little to survive a step: the
  packet must also ask for what the PCB remembers, and every name must have been
  asked for as often as the state of the PCB says. `Sound` says this of one PCB,
  its packets and its counts; it holds of every PCB that is not `spoilt`. A step
  changes a few PCBs and carries the others' packets along, wherever these come to
  stand in the list. So the proof needs of the list only what selecting
  (`At`), weaving new packets in (`AllSentAfter`) and taking the head do to *the
  packets of one PCB* (`Carried`, `Takes`); the places themselves are dealt with
  once, by the rank of a place among those that stay (`Ranks`). What is left is one
  lemma for each way a PCB changes: it begins to probe (`SoundBegins`), has
  something done to its packets that does not matter (`SoundAlike`), moves on
  (`SoundMoves`), or loses a service (`SoundTrimmed`: where the question taken
  out is not the service's own, the PCB is spoilt).
* *Types of the responder* (`TypeInv`). `TypeOK` says of the list that its packets
  are different blocks, and that those the timer has found due come first. The invariant
  adds what these rest on (`Ordered`): what has been posted is due. Removing
  packets keeps the order (`OrderFollows`); so does weaving new ones in, since a new
  packet goes only where what follows is not due (`OrderWoven`) and in a block that is
  free. That there is one for each new packet, and that `NewIds` names them, takes the
  first `n` numbers of an infinite set (`FirstExist`). While the timer walks, the lock is
  its own, so nobody else touches the list, and what it has passed is due
  (`CursorInv`): the packet it posts next keeps the due ones in front.
* *Records* (`RecordsInv`). `Sound(S, w, u)` relates the services, what is in
  the air together with what the listener holds, and the changes that were not
  said: records are about names that services at two hosts may share, so the
  invariant must know which services are alone with their name, and that what is
  scheduled belongs to services that exist. Each function of the code is put
  together from few building blocks, and there is one lemma for each of them:
  a service is removed with its goodbye or without (`RemovedSound`), probed or
  announced, with memory for it or not (`TurnedSound`, `AnnouncedSound`), changed
  silently (`SilentSound`), heard (`HeardSound`). For an array of subtypes `AddedIs` says
  what adding its elements one by one comes to, which also shows that the
  rollback of a failed allocation restores the service: that is
  `NoMemoryLeavesServices`.

### Model-checked only

The liveness properties, since fairness is out of the prover's reach:
`OnlineLinkRecovers`, `EventLoopReturns`, `KeepsPublishing`, `ResetReprovisions`,
`HoldingResets`, `LedShowsMode`, `PcbsComeToRun`, `CallersReturn` and
`BlockedCallersReturn`.

## 5. Not modelled

* `src/reset/reset.c` is not in the build, and the component's tests and
  examples are not part of the firmware.
* Floating point: the compensation formulas of `bme68x.c` and the conversions
  of the gas sensors, whose readings `sensor_manager_read` does not even take
  and whose calibrations nobody calls. Of `bme68x.c` also the self-test, the
  status queries and sequential mode.
* Bytes: how packets are encoded and decoded (`append_*` and the parsing of
  names in `mdns_send.c` and `mdns_receive.c`), reverse queries, the console,
  debug output, allocation wrappers.
* `mdns_networking_socket.c` is not built for this target; of the lwIP variant
  the posting of packets is modelled, not sockets and multicast groups.
* The unlocked walk through `s_browse` on an IPv6 address
  (`mdns_netif.c:275`), the table of predefined interfaces, and the addresses
  of delegated hosts.

## 6. Plan

An abstract interface (off, asking, announcing, serving), implemented by
`MdnsPcb`; and the accesses that take no lock and that no model has yet
(section 5).
