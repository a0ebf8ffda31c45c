# CanSystems: specification, model checking and proofs

CanSystems is a home network of ESP8266/ESP32 devices on MQTT and ATmega328P nodes on a CAN bus
behind an ESP32 gateway. This directory specifies what runs on it concurrently, fails, retries or
has to survive a reset: the way a firmware travels from the server tool to a device and through
the gateway to the nodes, the rollout over the fleet, the connection and the MQTT client every
device lives on, the CAN bus and its addresses, and the tasks with a state machine of their own
(irrigation, alerts, radio, sensors, the task loop). The modules are TLA+, checked with TLC on
small instances; the most important results are proved with TLAPS for every size.

Paths are relative to the repository (`lib/...`, `ota/...`). `PROJECT.json` gives the source lines
behind every definition, the runs, the mutants that show each property can fail, the findings,
the hazards and the theorems.

## 1. Inventory

### The path of an update

    ota/otaUpdate.py ── MQTT, QoS 0 ──> DataTransfer/MqttCommon ──> file system / updater
      UploadSender       UploadLink       FileUpload                     │ verdict
      FleetRollout                                                       v
                                             OtaRegistry ── a turn ──> CanOta (CanMqttGateway)
                                               OtaBatch                  GatewayOta
                                                                         │ CAN frames, CanOtaTransfer
                                                                         v
                          bootloader <── SPI flash <── OTA <── CanHandlerAtmega328P
                                         SpiFlash       NodeOta, ImageSlot

### Components

| Component | State it keeps | Operations | What makes it correct |
|---|---|---|---|
| `OTA` (node storage) | state, size, CRC, pointer, block, two header bytes in RAM, stall timer | `start`, `storeNextData`, `run` | what the bootloader would start is always one whole image |
| `SPIFlash` | cells, a running erase | program, chip erase, read, busy | a program can only clear bits; a busy chip refuses |
| `CanHandlerAtmega328P` | last reported state, receive budget, address | receive drain, the answer of a pass, `SET_CAN_ID`, announcing, restart | each piece is answered for itself, frames of one pass in order |
| `CanOta` (gateway) | transfer state, file position, checksum, timer | `startOta`, `handleOtaCanFrames`, `runOta` | `[OK]` only for an image that is in the node's flash; every transfer ends |
| `OtaRegistry` | who is queued, the checksum of the batch | `queueForFile`, `claimStart`, `isFileInUse`, `reportImage` | one transfer on the bus; each from a file that stays; everybody's turn comes |
| `DataTransfer`, `MqttCommon` | state, declared name/size/MD5, position, temp file, held errors, a verdict to report | `begin`, `storeBase64`, `runValidityCheck`, `run`, commands | a final name only ever holds a declared content |
| `_BaseTransfer` (server tool) | state, next piece, piece on the wire, repeat | start, answers, sending, repeating | success only for a stored file; it always ends |
| rollout (server tool) | plan, session's view of the retained topics, nodes found live | plan, `FileTransfer`, `OTAUpdater`, `SoakWatcher`, `CanNodePresence` | "done" means restarted on the new build, with its nodes back |
| `CanMqttGateway` (availability) | online and ever seen, per node | `init`, `handlePing`, frames of the node | the retained topics speak of the node as it is |
| `PumpControl`, `CircularBuffer` | queue of irrigations, pump state, safety timers | create, skip, run, calibrate | the pump waters the head of the queue, stops, and stays stopped |
| `CanCommissioner`, `CanIdAssign`, `EepromHandler` | nodes waiting for an address, stored ids | announce, assign, change | a waiting node is listed; a stored address is usable |
| `CanHandlerEsp32`, `ESP32SJA1000`, `MCP2515` | transmit/receive queues and buffers, drop counters, bus-off | send, run, interrupt, recovery | frames in order, none lost without a trace, the queue drains |
| `Connectivity`, `NetworkHandler`, `ReconnectBackoff`, `BootProgress`, `RtcStore` | connection state, timers, rung and stage in RTC memory | start-up, `run` | comes back by itself; the ladder outlives resets; availability is true |
| `PubSubClient` | session, ping run, half-read packet, shared buffer | connect, loop, publish, subscribe, disconnect | keeps or ends the session in time; nothing overwrites a half-read packet |
| `DFPlayer`, `CanAlertDriver`, LED strip | queue, module power, BUSY edge, colours | run, commands, button | a track is played or reported; everything ends dark and off |
| `RCSwitch`, `RfHandler` | recording shared with the interrupt, repeat filter, command queue | edge, run, command | a decoded value is one recording; a held button is reported |
| `AmbientSensor`, `SI7021` | event, last values sent, timers | init, run | the bus knows the room, or is told again |
| `MqttThermometer`, `Ds18b20Reader` | addresses, state, index, timer | init, run | every probe once a cycle, never an old reading |
| `TaskHandler` | index of the task served | `initTasks`, `runTasks` | nobody starves |

The remaining parts (configuration, discovery texts, simple samplers, encodings, tooling) are
listed with their reasons in `PROJECT.json`.

### How they interact, and what is hard

* Every device runs **one cooperative loop**; a handler runs to its end, but a message or a frame
  may be handled between any two passes of any task. Several handlers do not look at the state
  they meet: `storeNextData` and `begin` are the two the properties turn on.
* **Interrupts** share words with the loop: the receive interrupt of the gateway's controller, the
  edge of the radio receiver, the flow meter, the BUSY line of the alert node.
* **Answers carry no number.** A CAN answer names only the command, an MQTT answer nothing at all:
  a late or repeated one can be taken for another piece's, or for the verdict. The MP3 module
  answers nothing but a level.
* **Everything can stop anywhere.** Nodes and gateway reset, the chip refuses a command while it
  is busy, queues overflow, a controller falls off the bus, the broker at QoS 0 loses what a broken
  connection had under way, a start-up dies in any of its stages.
* **Timeouts race** over every silence: the node's stall timer against the gateway's, the device's
  upload timeout against the tool's repeats, the client's ping against the broker's patience.
* **A question asked once.** Whether a file is in use is asked when an upload begins and matters
  when it ends; which nodes a gateway has is found before its update and compared after it.
* **Retained state outlives its truth.** The tool judges devices by retained topics that may be
  those of an earlier start.

The hazards with their source lines and the properties that would catch each are in
`PROJECT.json`.

## 2. The modules

| Module | Models | Notes |
|---|---|---|
| `Bytes` | the byte alphabet | |
| `Fifo` | `CircularBuffer` | put refused when full, peek, pop; used by the pump, the alert node and the radio |
| `SpiFlash` | `SPIFlash`, the NOR cells | `Programmed` ANDs page by page; a refused page leaves the ones before it |
| `OtaFrames` | `otaCanFrame.hpp` | the sequence is the offset modulo `SeqModulus` (256 in the code) |
| `ImageSlot` | – | abstract: one slot, empty or a whole image, replaced in one step; the program follows the slot |
| `NodeOta` | `OTA`, the OTA part of `CanHandlerAtmega328P`, bootloader | on an arbitrary bus: `NodeSpec` |
| `GatewayOta` | `CanOta` | |
| `CanOtaTransfer` | node and gateway joined by the bus | composes `NodeOta` and `GatewayOta`; implements `NodeSpec` |
| `FileUpload` | `DataTransfer`, `MqttCommon`, file system, updater | any message at any time: `UploadSpec` |
| `OtaBatch` | `OtaRegistry`, the turn in `CanMqttGateway::run` | extends `FileUpload` |
| `UploadSender` | `_BaseTransfer`/`FileTransfer` | |
| `UploadLink` | tool and device over the broker | composes `UploadSender` and `FileUpload` |
| `FleetRollout` | the rollout of `otaUpdate.py`, the topics of `Connectivity` and `CanMqttGateway` it reads | takes an upload and a node's transfer as one step each |
| `Connectivity` | `Connectivity`, `NetworkHandler`, `ReconnectBackoff`, `BootProgress`, `RtcStore` | |
| `PubSubClient` | the MQTT client | |
| `CanBus` | `CanHandlerEsp32` with its SJA1000; the MCP2515 of a node | |
| `Addressing` | `CanCommissioner`, `CanIdAssign`, the node's `SET_CAN_ID`, `EepromHandler` | |
| `PumpControl` | the irrigation node | |
| `AlertPlayer` | `DFPlayer`, LED strip, the alert node's commands and `CanAlertDriver` | |
| `AmbientSensor` | `AmbientSensor`, `SI7021` | |
| `RfHandler` | `RCSwitch`, `RfHandler` | |
| `Thermometer` | `MqttThermometer`, `Ds18b20Reader` | |
| `TaskHandler` | the task loop | |
| `NodeOtaProofs` | proofs | about `NodeOta`, and `CanOtaTransfer` as an implementation of it |
| `OtaBatchProofs`, `FleetRolloutProofs`, `PumpControlProofs`, `AddressingProofs` | proofs | about the module of that name |
| `FileUploadProofs` | proofs | about `FileUpload`, and `UploadLink` |
| `CanDeviceProofs` | proofs | about `CanBus`, `AmbientSensor`, `AlertPlayer`, `TaskHandler` |
| `EspDeviceProofs` | proofs | about `Connectivity`, `RfHandler`, `Thermometer`, `PubSubClient` |
| `MC*` | instances for TLC | |

Conventions. An action is one handler, or one pass of a `run()`, from its guards to its last call;
an action that answers takes the answer as a parameter, and the module that composes it says where
the answer goes. Where several calls of one pass follow each other on the same object, the object
is a record and each call an operator from record to record. Timers are ages in ticks that stop
one above their timeout, which is what the unsigned difference of two `millis()` readings compared
with a limit computes, also across the wrap of the clock. A data byte is a member of a small set; a
checksum is an operator with the assumption that no other content has the checksum of an image
(`CrcAssumption`, `Md5Assumption`): collisions are outside the model. Operators introduced with
"Mutant:" are the plausible mistakes the properties are tried against; nothing uses them otherwise.
Fields and variables marked "ghost" or "history" record what happened for a property; no guard
reads them.

Correspondences worth knowing when reading them beside the code:

* `NodeOta`: `HandleRxFrame` is one frame of the receive drain (`rxBudget` is what is left of
  `maxRxFramesPerRun`), `OtaPass` the rest of the pass. `storeNextData` is `StorePiece`,
  `StorePieceFails` (a refused page, with the prefix that was written) and `StorePieceRefused`.
  `crc16` holds the bytes fed so far rather than their checksum. `NodeReset`/`NodeBoot` are the
  reset and the start-up, at which the bootloader copies a bootable flash into `program`; a
  start-up during an erase fails and is tried again.
* `GatewayOta`: `RunOta` is one pass; `TransferSendStart` and `TransferSendPiece` fail when the
  transmit queue is full, `ShortRead` when the file does not give what it said.
* `CanOtaTransfer`: the two receive paths are queues. `GatewayReceives` is one frame of the CAN
  task's drain, so several may come before the next `GatewayRuns`. The code goes from the claim
  to `runOta` in the same pass; the model has two steps there, which nothing else can tell apart.
* `FileUpload`: `request` holds what the last accepted start declared. `NotBegun` is a start that
  replaced those fields and closed the temp file before it failed: the state stays what it was.
  `uploadErr` is whether `dataTransferErrState` holds anything, which decides whether the clean-up
  reports. Base64, JSON and the error texts are parsed away: a piece that does not decode is an
  empty one, an error is "wrong piece number" (the only one the tool looks at) or another.
* `OtaBatch`: of a transfer only what the registry and the file system see is kept
  (`SUM`, `SEND`, `END`); `GatewayOta` has the rest.
* `UploadSender`: `lastPiece` and `resentPiece` are sets of at most one element for Python's
  `None` or a value. One `SenderReceives` is one answer of the drain, so a second answer can meet
  the state the first one left, `DONE` included.
* `FleetRollout`: the tool's waits end by what they wait for or by their deadline, which may come at
  any time. Messages reach the tool in the order the broker sent them (`wire`); a subscription is
  answered with the retained ones (`retained`, one per topic) first. The preflight subscribes and then
  reads one message a turn (phase `draining`) until an availability decides or the deadline comes. The start of a device is one step, so the milliseconds
  between its "online" and its info are not modelled, and the tool is taken to read a topic before
  the device behind it restarts twice (`toolKeepsUp`). The dirty flag and the role prefix of a build
  are left out: a build is old or new.
* `Connectivity`: `esp` holds device, RTC memory and what the broker shows. A start is a sequence of
  stages, each of which can fail or hang; a failed attempt of a running device, the watchdog and
  the power switch act on it between any two steps. The two ends of a session are apart: the broker
  lets go of one it does not hear of (`brokerNotices`), the device of one the broker has ended when a
  write fails or its keep-alive runs out (`deviceNotices`). `failures` and `forgot` are history: the
  failures the ladder was told of since it was last cleared, and whether a start failed before it
  had read the stored rung and wrote over it.
* `PubSubClient`: a packet arrives in pieces; the reader stops wherever the bytes end and goes on
  with the next `loop()`. Everything that builds a packet first settles the reader. A `subscribe`
  that was written whole stays inside its call (`awaits`): `subAckOther` is one packet the broker
  got in first, `subAckEnds` the end of the wait, and no other call comes between. `servicePing`
  asks whether bytes are waiting; of a packet half read there may be more or not. `heardAge` is
  what the broker counts. `loop()` is called at least once a tick.
* `CanBus`: the pass of the gateway task is cut where the interrupt can come (`gw.at`); frames are
  numbered in the order they were handed over. A bus that takes a frame, refuses it for ever or
  pushes the controller off the bus are separate actions.
* `Addressing`: the bus is a broadcast, so two nodes on one provisional address both take what is sent
  to it. `waiting` is ordered by the time of the last announcement instead of carrying the stamps.
* `PumpControl`: `DueItems` lists the overdue safety irrigations in channel order, by rank.
  `Pass` is one `run()`; the flow meter's interrupt and commands come between passes.
* `AlertPlayer`: a command to the module may be lost; what it does afterwards is seen by the level of
  BUSY and, once the interrupt is attached, by its edge. `due` says that the wait of the present
  state is over; every state restarts the timer it compares.
* `RfHandler`: the interrupt can come between any two pulses the decoder looks at. A recording is
  the sequence of the codes its pulses belong to, so that a mixture would be seen.
* `Thermometer`: `readerBegin` is the set of what a search of the bus may find, in bus order and up to
  the cap; `cycle` is history: which probes stayed, what was published, whether a reading was old.
* `TaskHandler`: `singleTaskOnly` is the third discipline, chosen at compile time for a list of one.
  `leftOut` counts the passes an entry was not served.

## 3. What the runs check

| Run | Question | Result |
|---|---|---|
| `node_storage` | a node on an arbitrary bus (any frame, any time), resets, stalls, refused erases and writes | `NodeTypeOK`, `BootableImageIsWhole`, `ValidMeansStored`, `WritesErasedCells`; refines `ImageSlot` (`SlotSpec`) |
| `transfer` | node and gateway, a lost or repeated frame, a reset of either, two transfers, an erase that may never end | `OkMeansInstalled`, `TransferEnds` (both sides); refines `NodeSpec` |
| `server_tool` | uploads of any number of senders in any order with every storage step failing; a rollout over a gateway with a node and a device after it | `StoredAsDeclared`, `RemembersStorage`; `DoneMeansRestarted`, `NodesAccountedFor` |
| `batch` | two nodes of one file, one sender uploading firmware, other files and the gateway's own firmware | `OneTransferAtATime`, `FileStaysForReaders`, `AnnouncedFitsFile`, `EveryTurnComes` |
| `can_devices` | irrigation, alerts, ambient sensor, task loop, CAN drivers, addressing | pump: `PumpServesHead`, `StoppedStaysStopped`, `RepeatKeepsPlace`, `IrrigationEnds`; alerts: `PlayedOrReported`, `AlertsEnd`; `ToldOrRetried`; `EveryTaskServed`; bus: `SentInOrder`, `NoSilentLoss`, `QueueDrains`; addresses: `StoredIdUsable`, `WaiterListed` |
| `esp_devices` | connection, MQTT client, radio, thermometer, the upload between tool and device | connection: `LadderSurvives`, `AvailabilityTruthful`, `Recovers`; client: `BrokerStillWaiting`, `HalfReadIsKept`, `RunBelongsToSession`; radio: `DecodedWhole`, `HeldReported`; `CycleComplete`; upload: `DoneMeansStored`, `UploadFinishes` |
| `refused_read` | is a refused read rejected by the closing checksum, as `ota.cpp:78` says? | violated (finding) |
| `final_ack` | does an arrived final ACK always beat the timeout, as `canMqttGateway.cpp:136` says? | violated (finding) |
| `impatient` | `batch` with any number of senders | `FileStaysForReaders` violated (finding) |
| `early_done` | the upload with two late answers | `DoneMeansStored` violated (finding) |
| `safety_starved` | does an overdue channel get its safety irrigation, as `pumpControl.cpp:145` says? | violated (finding) |
| `ladder` | must a connection hold before the ladder is cleared, as `connectivity.hpp:41` says? | violated (finding) |

`can_devices`, `esp_devices` and `server_tool` are disjoint unions: their parts share no state, so
a behaviour is one of a single part (`part`), and the states of a run are the sum and not the
product of those of its parts. They check the parts beside each other; nothing in them is a claim
about parts interacting. The compositions that are such a claim are `CanOtaTransfer`, `OtaBatch`,
`UploadLink` and `FleetRollout`.

### Bounds, and why they are enough

* **Node**: bytes of two bits, so that AND loses bits; pieces of 3 bytes, images of 4 and 5 bytes,
  so that the last piece is short and the header shares the first piece with the body; pages of 4,
  so that a piece crosses one; two storage blocks; a sequence modulo 4, so that offset 3 and a
  piece of another turn are confused as they are in the code. Two images agreeing in their first
  three bytes make merges of an old and a new transfer possible.
* **Transfer**: one bus fault, one reset, two transfers: each finding and each mutant needs at most
  one of each. The first transfer may end in any way before the second starts. Nothing bounds
  the bus queues: the protocol keeps them short.
* **Uploads** (`server_tool`): two contents of one file, one of them too large for the file system
  (`FreeSpace = 3`), a second file whose content is the first part of the other, one firmware, pieces
  of one and two bytes in any order; messages are not bounded in number. The first part is there
  because a check that is cut short can only take one content for another when one is a prefix of
  the other (section 4): the case `StoredAsDeclared` exempts happens in the instance.
* **Rollout**: a gateway with a node and its node firmware, then a device without any, one mishap
  (a dropped session, a crash, a lost frame, a start on the old image); any initial builds, any
  subset running at first. The deadlines need no bound.
* **Batch**: two nodes make a queue with somebody waiting behind somebody; contents of one byte,
  the transfers' content being what is compared. The order of the nodes in the loop is left open.
* **Upload link** (`esp_devices`): three pieces, the last one short; two repeats (`MaxRetries = 2`; 3
  in the code): one that is answered, one that is not. A tick is the tool's timeout (25 s); the
  device gives up after five of them. `MaxLate` bounds how often time passes although something
  is under way; one is tolerated, two are not. Any number of messages may be lost.
* **Irrigation**: two channels, so a queue of two is full with one irrigation running and one
  waiting; three commands or presses; two pulses between clears; one channel with a safety time.
* **Alert node**: a queue of two, three messages or presses, a playable and an unplayable track,
  one re-send and one power cycle before a track is given up.
* **Ambient sensor**: readings that differ by less than, exactly, and more than the tolerance, one
  reset, `kSendMaxPeriod` of three measuring periods.
* **Task loop**: lists of one to five entries in either discipline, with and without an absent one.
* **CAN bus**: three kinds of traffic (`MCLoads`): three frames of the gateway with a bus-off, five of
  the node (more than its three buffers) with a foreign frame, and both directions with a bus-off;
  a receive queue of one and counters modulo 2, so that an overflow and a wrap happen.
* **Addressing**: three nodes, two of them on one provisional address, two slots, two requests of the
  server (for the master's address, a usable and a provisional one), one power failure.
* **Connection**: a ladder of three rungs, three faults of any kind, and time to settle and to reset
  in reach of each other (2 and 4 ticks).
* **MQTT client**: keep-alive 4, ping after 1, re-asked after 2: the run of a ping spans several
  attempts; one packet waiting on the socket besides the one half read.
* **Radio**: a remote whose frames fit the recording and one whose do not, two presses, one command,
  one report that cannot go out.
* **Thermometer**: three probes of which two are taken, a conversion of two ticks, two unplugs, one
  reboot.

### Fairness

Fairness is put on steps, never on their outcome. The loops keep running (nothing in them blocks:
the watchdogs would reset the board), and `EveryTaskServed` shows that a loop that runs serves every
task of its list; a board that reset comes back, time goes on, and a frame or message that was not
lost is delivered. What is *not* assumed:

* that an erase of the flash ends: the stall timer is there for the chip that stays busy, and
  `TransferEnds` holds without it;
* that a message or an answer arrives: `UploadFinishes` is checked with every message lost for ever;
* that a frame finds a node to acknowledge it: `QueueDrains` rests on the abort after
  `txWaitTimeoutMs`, on the controller obeying an abort, and on a recovery from bus-off that ends;
* that a track ends or a command reaches the module; only that a command that was taken starts the
  track.

`Recovers` assumes that network and broker come back and, by the bound on faults, that nothing goes
wrong for ever; it says that this alone suffices. That the device notices the end of a session the
broker has let go of (`deviceNotices`) is what the keep-alive of `PubSubClient` is for: without an
answer to its ping it gives the session up. `HeldReported` is about a button that stays
pressed. `WaiterListed` assumes that some announcements of a waiting node arrive. In `batch` a
transfer is assumed to end, which is what `transfer` shows of it.

`transfer`, `node_storage`, `server_tool` and `batch` also check for deadlock. The unions and the
findings' runs do not: their bounded environments come to rest.

## 4. Findings

1. **A final ACK that is dropped** (`final_ack`, `canMqttGateway.cpp:67`). The answers to the last
   piece and to the whole image may be handed over in one receive drain. The first moves the
   transfer out of `WAIT_FOR_ACK` and the second is ignored: after five minutes `[ERR]` is
   published for an image that is stored.
2. **A refused read can pass** (`refused_read`, `ota.cpp:79`). The zero-filled buffer is folded
   into the checksum; where the image has zeros it is accepted whatever the flash holds.
3. **A start before the verdict** (`impatient`, `dataTransfer.cpp:43`). After the rename and before
   the pass that queues the nodes, a second start for the same file is accepted; it then replaces
   the file under a running transfer. The same window lets a start change what the verdict
   leads to: `isRestartRequired` is then the new upload's.
4. **Success before the check** (`early_done`, `otaUpdate.py:1459`). With two late answers in
   a row the refusal of one repeated piece confirms the next, and the last piece's ACK is taken for
   the check's.
5. **Safety irrigations that never run** (`safety_starved`, `pumpControl.cpp:90`). One flow pulse in
   an idle node makes every idle pass an error, and the error handler pops the safety irrigation the
   same pass queued. Only the start of an irrigation clears the counter.
6. **A ladder cleared too early** (`ladder`, `connectivity.cpp:331`). The first online pass compares
   with the stamp of the connection before, so one that comes up and dies again can drop back to
   the shortest wait.

Seen while modelling, without a run of their own:

* *Registry.* `queueForFile` of any file clears the turns nodes still wait for, so a certificate
  stored during a batch ends it for the nodes that had not begun. `README.md:133` says "Every node
  expecting that file is updated"; the registry's tests state the replacement as intended.
* *Upload.* A start that fails to open the temp file while another upload is being *checked*
  (`dataTransfer.cpp:117`) leaves the check running against the new name and MD5. If what was hashed
  by then happens to be the newly declared content, the temp file is renamed to the new name,
  whatever it holds: the earlier upload's content when the new one is the first part of it, or
  nothing when a second such start has removed and not opened it. `StoredAsDeclared` exempts exactly
  this (`CheckCutShort` and a hashed content that was declared); without the exemption TLC finds both
  in the instance of `server_tool`. When the ACK of the last piece is
  lost, its repeat meets a device that no longer stores: the tool reports failure for a stored file.
* *Node OTA.* An OTA_START lost while the answer to the erase of an earlier transfer is under way leaves
  the node with the earlier size and checksum; the new pieces are stored under them, and if they make up
  the earlier image (it is a proper prefix of the new one, or, with as many repeated answers as pieces in
  one turn of the sequence number, a piece passes for the one 256 pieces before it) the transfer is
  reported as good with the earlier image in the flash. `ImagesApart` excludes exactly this. With node firmwares of two kinds and equal size, the checksum one transfer reports late
  would be used for the other kind; the shipped gateway has a single node firmware file. An image
  of one byte writes a second header byte that was never received (`ota.cpp:91`).
* *Pump.* An irrigation commanded while the state is `ERROR` is the head the handler drops though it
  never ran; a safety irrigation can be queued twice.
* *MQTT client.* A re-ask the link refuses marks the ping as unsent while it is outstanding; a
  `PINGRESP` then clears only the latter, and the old deadline can end a session whose ping was
  answered.
* *Connectivity.* A start that fails before `waitOutBackoff` (an invalid mutex, `initFileSystem`;
  `connectivity.cpp:48-53`) steps a ladder it has not read back, so it overwrites the stored rung with
  1 (`connectivity.cpp:37-38`) and restarts without a wait. `connectivity.cpp:32-36` and `81-82` and
  `connectivity.hpp:74-75` say that a device that keeps failing its start steps its wait up:
  for these two stages it does not, and it forgets what it had stepped up. `LadderSurvives` exempts
  the ladders this has happened to (`forgot`) and says what is left of them: a rung that is not the
  first and not above the failures. A watchdog reset followed by a start that dies before
  `waitOutBackoff` costs no rung.
* *CAN.* The MCP2515 driver reads buffer 0 before buffer 1 (`MCP2515.cpp:211`), so received frames
  may change places; a frame lost in bus-off is not counted; `filterExtended` drops a mask bit, which
  the 10-bit mask in use does not have.
* *Addressing.* Two nodes that fold to one provisional address both take the address assigned to one
  of them; `canIdAssign.hpp:22` says that 256 addresses cannot separate every pair. The example of
  `README.md:92` assigns an address that `main_esp32_can.cpp:42` registers as a driver, which the
  commissioner refuses.
* *Gateway availability.* Changes of a node while MQTT is down are lost, and `init()` runs only at
  start-up, so the retained state can be stale (`canMqttGateway.cpp:309`).
* *Alert node.* A `PLAY_MP3` that meets a full queue is dropped though its frame is acknowledged. A
  lost stop leaves the earlier track playing and its BUSY level passes for the next one: ghost
  `overrun` exempts such a module in `PlayedOrReported`, until it is powered down. A sound-only track after a coloured one
  keeps its colour; the comment at `canAlertDriver.cpp:103` says the strip is left dark.
* *Radio.* A code, a second one whose report fails, and the first again within the check time: the last
  is swallowed. A command with pulse 0 keeps the previous pulse unless it also sets the protocol.
* *Sensors.* A changed value whose frame `send()` refuses is sent again only after `kSendMaxPeriod`
  (30 minutes); the integer division of the light filter stalls a small rise. A probe plugged in
  between conversion and reading is published with whatever it holds.
* *Rollout.* `CanNodePresence` says that a node is marked online only after its `FW_VERSION` answer;
  any frame does it. A gateway whose session breaks between its info and the drivers' `init()`
  leaves the nodes' availability from before, on which the tool passes (ghost `unsaid`). A node
  whose restart frames are lost is reported as failed; a late duplicate of `FW_VERSION` after the
  baseline can make the watch judge it by its old build.

## 5. What is proved

**`NodeOtaProofs`** (for every chip, page, piece, block and image size, every image set, every
behaviour of the bus):

* `NodeTypeCorrect`: `NodeSpec => []NodeTypeOK`, from the assumptions on the constants alone: the
  pointer never passes the declared size, no access leaves the chip.
* `BootableAlwaysWhole`, `ValidAlwaysStored`, `PiecesOnlyWriteErased`, `NoPieceOutsideTransfer`,
  `HeaderStaysErased`, under `ReadsAnswered` (the chip refuses no read; with refused reads the
  first two are false, finding 2). The last two are not checked by a run: a stray piece outside a
  transfer changes nothing, and the header's cells stay erased until the closing check has passed.
* `SlotRefinement`: under the same condition `NodeSpec` implements `ImageSlot`.
* `TransferImplementsNode`: `CanOtaTransfer!Spec => NodeSpec`, for any number of faults, resets and
  transfers, and with it `TransferLeavesWholeImage`: what is proved of a node on an arbitrary bus
  holds beside a gateway. The mapping is the identity on the node's variables; that a frame the node
  takes is one of `NodeFrames` needs `BusInv`: the gateway reads an image it opened, a known checksum
  is that image's (`GatewayReadsImage`), and losing or repeating frames leaves only frames
  (`BusCarriesFrames`). `PieceAssumption` says that `Pieces` contains those of the images.
* `OkAlwaysInstalled`: `CanOtaTransfer!Spec => []OkMeansInstalled`, for any number of faults, resets and
  transfers, under `ReadsAnswered`, `BeyondHeader` (a piece and an image are longer than the two header
  bytes; in the code 7, and thousands) and `ImagesApart` (no image can be put together from the pieces of
  another; false without it, section 4). TLC evaluates the last two on the instance (`ImagesFit`).

The argument is the inductive invariant `StorageInv`. What the bootloader looks at alone is not
inductive: that the closing check may write the header back needs that what it hashed is what the
flash holds (`FedMatches`), which a late piece during the check would break if it were not for the
length (the checksum is then over fewer bytes than any image has); that a piece never merges with
old bits needs everything ahead of the pointer erased (`ErasedAhead`) and everything outside the
image erased (`ErasedOutside`), from an erase that has ended (`Ready`); that a stray piece outside a
transfer does nothing needs the pointer at its end (`NoTransferTakesNoPiece`, since
`storeNextData` does not test the state); and `Declared` ties size and checksum to one image.
`CrcAssumption` turns an equal checksum into equal content.

For the verdict `TransferInv` is added. The answers do not say which transfer they are for, so it says
what can be under way when one begins (`BeforeStart`: a tick passes only when both sides are quiet, so no
final answer is, and what the node was told before is short of its last piece), that from then on only
frames of the present file are (`FramesOfFile`), and what a node that missed the OTA_START has: nothing
but pieces of the present file, or it waits for pieces that will not come because the gateway has no
answer to go on with (`OldDeclaration`, `Blocked`). The check then accepts either the present file or an
image made of its pieces, which `ImagesApart` makes the same. `Verdict` keeps the file in the flash from
the final answer until it is published: the node restarts, declares nothing and finds no OTA_START.

**`OtaBatchProofs`** (for any number of nodes, files and uploads, whichever storage step fails):

* `OneNodeHasTheBus`: `Spec => []OneTransferAtATime`, with any number of senders.
* `ReadersKeepTheirFile`: `PatientSpec => []FileStaysForReaders`, with a sender that waits for the
  verdict. `FileInv` says that the file of a running upload has neither reader nor waiting node
  (`NoReaderOfUpload`), which survives because a good verdict is only pending once the upload is
  over (`VerdictAtEnd`), so the pass that queues nodes also makes the device idle. Finding 3 is
  the start that breaks exactly this conjunct.
* `AnnouncedIsSent`: `PatientSpec => []AnnouncedFitsFile`, when all nodes expect one file (`OneKind`,
  as in the shipped configurations; with two kinds of equal size it is false, section 4).
  `BatchImageFits` adds that the checksum the batch knows is that of the file the waiting nodes get.

**`FileUploadProofs`** (for any files, contents, pieces and storage faults, in any order):

* `UploadInvHolds`, and from it `RemembersStorageHolds`. That an open image is never left behind needs
  `ImageOwned`: the clean-up recognises a firmware by the flag and by the bytes still missing, so an
  open image must always have both. `StoringSound` relates the bytes stored to the bytes missing.
* `StoredAsDeclaredHolds`: `UploadSpec => StoredAsDeclared`, an action property, without a hypothesis.
  `CheckSound` says that what has been hashed is the first part of the temp file, which is open while a
  check runs unless a start has cut it short. A file then comes under its final name either with all of
  the temp file hashed, so that its MD5 is that of the declared content, or from a check cut short with
  a declared content hashed: the case the property names.
* `DoneAlwaysStored`: `Spec => []DoneMeansStored` of `UploadLink`, when at most one answer comes after
  its timeout (`MaxLate <= 1`; with two it is false, finding 4). Everything else is unbounded: the file
  and its pieces, messages lost or repeated, restarts, faults of the storage. The answers carry no
  number, so the argument is about how many messages can be under way. `LinkInv` says that, unless the
  tool has given up, either the file is stored (`Delivered`) or the two sides are in step (`Expected`):
  the device waits for the piece the tool sends or the next one (`InStep`), at most one ACK is under
  way and belongs to the piece just stored (`OneAck`), a refusal that names the piece while its repeat
  is on the wire means it was stored (`Repeated`), and only a late answer leaves a second message
  behind (`SentOnce`, `InTime`), which is where the hypothesis is used.

**`FleetRolloutProofs`** (for any fleet, order of the steps, drops, crashes and failed starts):

* `DoneAlwaysRestarted`, `NodesAlwaysAccounted`: `Spec => []DoneMeansRestarted` and
  `Spec => []NodesAccountedFor`, from `RolloutInv`. What the tool concludes from a message is true of
  the device only if it was said after the right event, so the invariant follows each message from
  the device over the broker to the tool: `BuildTold` (a build once stored is not given up, so a "new"
  anywhere is true), `LinkTold` (a device retained as online has a session), `WireTold` (during an upload the tool
  reads its own device only, and one acknowledgement at most),
  `PreflightReads` (the retained answers to a subscription come before anything later, so none of
  them is taken for news of the restart), `UploadTold` and `DoneTold` (a step is past its upload only
  with the firmware stored, done only with a start heard since), `NodeTold` (a node counted as back was
  heard of after its gateway's start, or its gateway said nothing about it, `unsaid`).

**`PumpControlProofs`** (for any number of channels, safety times and irrigations, any commands):

* `PumpAlwaysServesHead`, `StopIsLasting`, `RepeatAlwaysQueued` (the action property
  `RepeatKeepsPlace`). The invariant `PumpInv` adds that the queue fits its slots (`IsQueue`), from
  which a repeat finds the slot its own pop has freed, and that no safety time is over after
  everything was stopped (`NothingDue`): without it the next idle pass would queue an irrigation
  nobody asked for. `DueItems` is defined by rank because what `SelectSeq` returns is out of the
  provers' reach.

**`AddressingProofs`** (for any number of nodes and slots, whatever the server asks for):

* `StoredIdAlwaysUsable`. `FramesCarryIds` says that queued and received frames carry numbers; the
  rest follows from the node's own test alone, so the proof does not depend on the gateway's checks.

**`CanDeviceProofs`**:

* `CanInvHolds`, `SentAlwaysInOrder`, `NeverLostSilently` (for every size of the queues, range of the
  counter and load). Order is inductive only for the whole path: out, then the buffer, then the queue
  (`GatewayOrder`), and at the node that the buffers in use are those from `left` on, the highest filled
  first (`NodeOrder`), which is why the controller's own priorities keep the order. `AllAccounted` adds
  that a buffer whose transmission is no longer requested was counted. The two drop counters are the
  true counts modulo `CounterRange` (`Counted`); `GrowthIsExact` then gives that their difference,
  taken in the same width, is the difference of the true counts.
* `AlwaysToldOrRetried` (for all readings, tolerances and periods). `BeliefOk` says who was told what,
  `AgesOk` how long ago: the age of the last send is bounded only where a measurement is judged, so it
  is carried through the wait for the next one. `SentinelAssumption` is what the sentinel of the
  code is chosen for: no reading is within a tolerance of `INT16_MIN`.
* `AlwaysPlayedOrReported` (the action property, for any number of re-sends and restarts).
  `BusyIsOfTrack` says that a module that missed no stop is silent, with no command taken, whenever
  none is waited for; while one is, it plays only the track being handled, and an edge stands only
  for its end. The wait being over excludes a command that was taken and not yet seen on BUSY.
* `TasksAlwaysServed`: `TaskSpec => []EveryTaskServed`, for every length of the list and both
  disciplines. How long an entry was left out is not inductive by itself: `TurnsInv` relates it to the
  distance of the index from the entry, before and after the wrap.

**`EspDeviceProofs`**:

* `LadderAlwaysSurvives`, `AvailabilityAlwaysTruthful` (for any ladder and timing). `LadderOk` needs
  the stage the start is in: until `waitOutBackoff` the rung in memory is the first one whatever RTC
  memory holds, from then on the two agree; both count the failures (`Counts`), or, once a start has
  written over a rung it never read, some of them. `LinkOk` also holds of the states inside a
  connect that a hang or the watchdog cuts short (`CutOk`).
* `DecodedAlwaysWhole` (for any codes, frame lengths and size of the recording). `RecordingOk` says that
  a recording is of one remote, the one being pressed unless its first pause is still to come;
  `PendingOk` that the frame handed over stays while the task walks it.
* `CycleAlwaysComplete` (for any number of probes and any cap). `ConvertingOk` and `ReadingOk` say for
  each position of the reader what has been converted and what published; that a probe is not
  published twice rests on the addresses being distinct, which the search gives.
* `HalfReadAlwaysKept` (for every sequence of calls). `ReaderOk` has to hold after every operator a call is
  composed of, since a callback publishes from inside the reader.
* `RunAlwaysOfSession`, `BrokerAlwaysWaiting`: for every keep-alive and ping interval that leave the
  answer two ticks (`pingAnswerBudget >= 2`). In the code the answer has at least two fifths of a
  keep-alive, so this only says that a tick is at most a fifth of it; with coarser ticks a run
  could expire in the tick after the one it began in. `PingOk` bounds the silence by the run: while a
  run lasts, the silence is no older than the run and the interval that led to it; a ping on the wire
  ended the silence inside the run; and an answered run leaves no more silence than it lasted. The
  deadline counted from when the ping *fell due* is what makes this inductive.

## 6. Only model-checked

Out of the prover's reach: liveness (`TransferEnds`, `EveryTurnComes`, `UploadFinishes`,
`IrrigationEnds`, `AlertsEnd`, `QueueDrains`, `WaiterListed`, `Recovers`, `HeldReported`).

Everything else the passing runs check is also proved in section 5. The inductive invariants of
the proofs were tried with TLC first, on the instances of the runs or with more faults, resets and late
answers than these have.

## 7. Not modelled

* Checksum collisions, bit errors inside a frame, and a cell left half-erased by a power cut during
  the chip erase (`ota.cpp:137`): a model would need the analogue state of a cell, and every
  outcome that passes the checksum is excluded by `CrcAssumption` already.
* Concurrent access by a second core (the registry's mutex covers whole operations).
* `bootloader/` is an external binary, modelled by the test on the first two bytes and the copy.
* `PushButton`, `MoistureReader`, the Geiger counter: samplers of one actor whose native tests reach
  every branch.
* `ConfigHandler`, discovery and topics, Base64 and JSON: parsing and text without state.
* Register addresses, bit timing, pulse tables of the radio's protocols, preambles, noise spikes and
  remotes on the air at once whose pulses mix inside a frame; what becomes of a reading the
  thermometer has handed to the MQTT client (`mqttThermometer.hpp:155` does not look at the result);
  TLS set-up and the file system's inside.
* The build and CI scripts, the command line and the reports of the server tool.

## 8. Plan

The proofs planned are done. What a next version would add: the gateway's availability of a node as a
module of its own that `FleetRollout` composes, with the publications lost while MQTT is down;
`MoistureReader` with the pump it shares a node with.
