# A verification project for the weather station

TLA+ models of the weather station firmware (STM32F7, FreeRTOS, lwIP), the TLC
runs that check them and the theorems proved about them with TLAPS. Paths are
relative to the repository; `App/` stands for `src/Core/App/`.

    tlc -workers 2 -config WeatherStation_tasks.cfg WeatherStationMC   # any run of the table below
    tlapm Ds18b20Proofs.tla                                            # any *Proofs module

## 1. The system

Two application tasks share a Cortex-M7 with lwIP's and the Ethernet port's
threads. FreeRTOS preempts by priority (network task, TCP/IP thread and
Ethernet input 4, link thread 3, sensors task 2) and does not time-slice.

    DS18B20 --UART6, DMA, TIM7--> DS18B20Sensor --\                       /--> HttpClient --> TcpTransport --> lwIP
                                     polled by      SensorsTask           NetworkTask
    BME280  --SPI2, DMA---------> Bme280Sensor  --/      \--> ItcManager --/
                                                             (2 queues)

| component | state it keeps | operations | who calls it |
|---|---|---|---|
| **DS18B20 driver** `App/Sensors/ds18b20` | `_State`, DMA flags, `_LastTempCelsius`, UART and TIM7 handles | `initialize`, `startMeasure`, `isSensorReady`, `getTemperature`; four interrupt callbacks | sensors task; UART, DMA and TIM7 interrupts (all NVIC priority 7) |
| **BME280 driver** `App/Sensors/bme280` | `_SensorState`, `_TransferState`, chip select, calibration, last values | `initialize`, `readCalibrationAndConfigure`, `readMeasurements`, getters; complete and error callbacks | sensors task; SPI DMA interrupts (priority 6) |
| **Sensors task** `App/Sensors/sensors_task.cpp` | `Sequence` | a 2 s cycle: publish the DS18B20 reading and restart it, read the BME280 and publish | FreeRTOS |
| **ITC** `App/InterTaskCom` | a queue of one per channel | `publishMessage` (overwrites), `waitForMessage` (50 ms) | both tasks |
| **Network task** `App/Network/network_task.cpp` | wake time | a 5 s cycle: wait for the link, take from each channel, upload | FreeRTOS |
| **Weather station API** `App/Network/WeatherStationApi` | whether it is initialised | build path and body, post | network task |
| **HTTP client, parser** `App/Network/Http` | response buffer, request header | one blocking request | API |
| **TCP transport** `App/Network/Transport` | `_SocketFd` | connect, send, receive, close | HTTP client |
| **Ethernet interface** `App/Network/LwIP/ethernetif.c` | Tx semaphore, Rx pool, netif flags | output, input thread, link thread, DMA callbacks | lwIP, its own threads, ETH interrupt |
| **lwIP port** `App/Network/LwIP/sys_arch.c` | mailboxes, semaphores, core lock | post, fetch with timeout, protect | lwIP |
| **PHY driver** `App/Network/LwIP/BSP` | PHY registers | initialise, read and map the link state | link thread |
| **Hardware configuration, start-up** `src/Core/Hardware`, `App/app_init.cpp` | peripheral registers | one-time set-up | `main` |

FreeRTOS, the HAL, lwIP and the terminal are submodules that are not in the
tree. They are modelled as the code uses them and marked external.

### What is hard here

* *Interrupts against the task.* `startMeasure` changes the state and starts two
  DMA transfers while the interrupts of the same state machine may run between
  any two of its calls. The BME280 driver shares `_TransferState` and the chip
  select with its interrupts.
* *Completions in either order.* Receive and transmit of one transaction complete
  separately; a flag left over from an aborted transfer must not complete the
  next one.
* *No timeouts in the drivers.* A measurement ends only if each error path leads
  back to idle; the BME280 driver spins without limit.
* *One step of several failing*: a refused transmit after an accepted receive, a
  connection that fails after its socket was opened, a set-up frame in the
  middle of six.
* *Two tasks and an overwriting queue.* What is taken must be the newest message,
  taken once, whatever the requests do.
* *A stream in pieces* into a buffer of fixed size.
* *Two senders, one transmit configuration, one semaphore*: the link thread sends too,
  outside lwIP's core lock, and the cable may go while somebody waits for a completion.
* *Timeouts in milliseconds, waits in ticks of two*: no wait may turn into the wait without
  end that 0 ms stands for, over a clock that wraps.
* *A search over hundreds of transactions* (the DS18B20 build for several sensors) that keeps
  its place in three numbers, any of whose transactions may fail.
* *A pool no larger than the ring it feeds*: reception is exhausted by its first frame
  and lives on wake-ups from whoever frees a buffer.

### What makes each component correct

* DS18B20: a reading is the result of the measurement started last or the
  sentinel, unless noise that no check refuses hit that very measurement; every
  measurement ends; the driver recovers when the bus does.
* BME280: one chip-select pulse frames one transfer; nobody waits for a transfer
  that nobody ends; values come only from frames that arrived.
* Tasks and ITC: each channel is a register that holds the newest message until
  it is taken; numbers are unique; a conversion is reported once; both channels
  are served.
* HTTP: every request ends, leaves no socket open, stays in its buffer, reports
  the error it had, and reports OK only for an answer to this request.
* Ethernet and PHY: every accepted frame is released once; an exhausted receive pool
  resumes; the link flag follows the cable, and the MAC the link flag.
* lwIP port: a call waits for as long as it was asked to and returns, a message has one
  owner, and the check of the core lock stops whoever is outside it, and nobody else.
* Conversions: what a sensor or a server sent comes out as the value it stands for, and noise
  is refused.

## 2. The modules

| module | models | to be read with |
|---|---|---|
| `SensorService` | abstract: what a DS18B20 driver promises a polling task | |
| `Ds18b20` | the driver; implements `SensorService` | `Ds18b20Proofs` |
| `Bme280` | the BME280 driver | `Bme280Proofs` |
| `LatestValue` | abstract: an overwriting register, emptied by its reader | |
| `Itc` | the queue operations | |
| `UploadService` | abstract: a blocking request | |
| `WeatherStation` | both tasks, composed with `Itc`, `SensorService` and `UploadService`; implements `LatestValue` on each channel | `WeatherStationMC`, `WeatherStationProofs` |
| `HttpClient` | client, parser and transport; implements `UploadService` | `HttpClientMC`, `HttpClientProofs` |
| `PhyLink` | the LAN8742's link state as the driver reads it, register by register | |
| `EthernetLink` | sending and the link thread; extends `PhyLink` | `EthernetLinkProofs` |
| `EthernetRx` | the receive pool, the input thread, start and stop of the MAC | `EthernetRxProofs` |
| `RomSearch` | the DS18B20 driver in its second configuration: searching the bus, reading several sensors | `RomSearchProofs` |
| `SysArch` | the lwIP port: core lock, mailbox, semaphores, timeouts, clock | `SysArchProofs` |
| `Conversions` | the pure functions of the drivers, the parser and the PHY's address search | `ConversionsMC` |

The composition is by contract. `WeatherStation` does not run the drivers'
interrupts: it runs `SensorService` and `UploadService`, which `Ds18b20` and
`HttpClient` are shown to implement.

### Ds18b20

State: `state`, `rxDone`, `txDone`, `found`, `temp` are the members of
`DS18B20Sensor`; `hal` is what the HAL handle and the DMA streams do; `timer` is
TIM7; `pc` is the position of the task. A temperature is not a number but its
age: `current`, `old` or the sentinel. `startMeasure` ages everything. That a sensor told to convert has done so when
TIM7 elapses is assumed: 750 ms at most by its data sheet, 800 ms waited. `SensorService` has
two variables: what can be read, and `garbled`, for only a garbled measurement may end with an old value.

* The four interrupts have one priority and cannot preempt each other, so a
  handler with everything it calls is **one action**.
* The task is preempted anywhere, so `startMeasure` is a chain of actions:
  set the baud rate, store `_State`, start receive, start transmit, and on a
  failure stop the DMA, clear flags and temperature, store `IDLE`.
* Transmission has two phases (`sending`: the stream feeds the UART; `draining`:
  until transmission-complete), because `HAL_UART_Init` makes the handle ready
  again without stopping the stream. A transmission that an error abandoned goes
  on, and its completion arrives in a later state.
* Faults: any HAL call may fail (`HalFaults`), the presence
  pulse or the CRC may be missing, the UART may report an error, noise may complete
  a reception before the echo, and noise may change any byte sent or received.
  `BusSettles` ends all faults.
* The driver compares no echo with what it sent. So a byte changed unnoticed changes
  nothing in its control, only what the sensor heard, or what was read: `Unverified`
  adds it to every transaction, and `garbled` remembers it until the next `startMeasure`.
  In a garbled measurement `ReadScratchpad` may find anything: the sentinel (the CRC fails), the
  conversion waited for (the byte did not matter), or one that is `old`, which stands
  for every value this measurement did not convert.

The history variables `rxFor`, `waited` and `disturbed` and the flag `calm` are read by
no guard of the driver, and `garbled` only by what the sensor answers. `disturbed` records that noise completed a reception before anything
was sent, or that a measurement started while an abandoned transmission was still running: what
`NothingLeftBehind` and `Recovery` say ends there.

### RomSearch

The same class compiled with `ENABLE_DS18B20_ROM_SEARCH`. A UART transaction is one step, from
the call that starts it to the handler that acts on its end: pairing of completions and preemption inside a
transaction are `Ds18b20`'s subject. `sensors` is any set of codes on the bus; the bus is a
wired AND of what the sensors that still follow the pass send. Codes are four bits with a parity bit
in place of the CRC-8, which like it detects a single wrong bit. A reading is whose sensor's it
is, and whether it belongs to this measurement. A reset may be unanswered, a call refused, the
UART may report an error, and one sampled bit of the search may be inverted. Outside of the
search no byte is changed unnoticed: `ScratchpadOf` assumes that every sensor heard the command to convert, and the
one addressed that its scratchpad was asked for. This build checks them as little as the other;
what then happens to a reading is `Ds18b20`'s subject, and `OwnReading` says nothing of it.

### Bme280

The six set-up frames and the measurement frame go through `sendFrameBlocking`:
`csSelect`, the store to `_TransferState`, the HAL call and the spin are separate
actions, the two callbacks interleave. `SpinReloads` says whether the build reads
the polled member again: at -O0 it does; it is not volatile, so at -Os it need not.
What the values are computed from is `zero`, `trusted` (all frames arrived) or
`garbage`.

### WeatherStation

One action per step of `SensorsTask::runCyclic` and `NetworkTask::runCyclic` that
touches shared state, so that either task runs between any two steps of the
other. A payload is its sequence number and, for the DS18B20, what was read and
the measurement it belongs to. `garbled` is `SensorService`'s: a garbled measurement may
put an old temperature into a payload. `measurement`, `published`, `taken` and `reported`
are history. A wait of 50 ms that finds nothing is the timeout; the link may go
up and down at any step; a request may fail at any step.

### HttpClient

One action per transport call of `processRequest`. A response is four lengths (the
header, where its Content-Length is, its value, the bytes behind the header) and
whether the rest is well formed; the server sends it in pieces of any size. The
character scanning of the parser is abstracted to these offsets.
`processReceivedData` passes `*HeaderEnd`, the character `\r`, where
`checkResponseBodyComplete` expects the header's length; the model keeps that, so
the branches behind a found Content-Length are translated but never reached. Left out are the
checks of `executeRequest` (initialised, a path): the client is initialised once, before the first
request, with constants it accepts, and the paths are literals.

### PhyLink and EthernetLink

`PhyLink` has the cable, the latched link bit of the status register and what
`LAN8742_GetLinkState` has read so far: it reads several registers over a slow bus, so the
cable may move between two reads and each read may fail. `MapLinkState` is
`eth_phy_io.c`'s mapping to a MAC mode.

`EthernetLink` adds two threads in `low_level_output`. `core` is whoever holds lwIP's core
lock; `link` is the link thread, because `netif_set_link_up` sends an ARP
announcement on the thread that calls it, which here holds no lock. `prepare`
fills in `TxConfig` (one for both threads) and takes the reference; `transmit` is the HAL
call; `take` and `release` are the two halves of the wait. `Blocked` and `Runs` are the
scheduler: the link thread has the lower priority and runs only while the core is
idle or waiting. `low_level_init` runs in the network task and cannot be preempted by the link
thread, so the model starts behind it.

### EthernetRx

`owner` says where each buffer of `RX_POOL` is; `unbuilt` is the HAL's
`RxBuildDescCnt`. The input thread, the TCP/IP thread and the network task have one priority
and there are no time slices, so `low_level_input` and `pbuf_free_custom` are one action each;
the link thread's `HAL_ETH_Start_IT` is cut at each allocation, because the others preempt it
there. The history variable `raced` records a buffer freed while the link thread was preempted between the failed
allocation and the store of the status: what `NoLostWakeup` and `ReceptionGoesOn`
say ends there. `EthernetLink` and `EthernetRx` share only `gState`, which the link thread alone
changes; they are kept apart so that each can be explored whole.

### SysArch

One action per call of the port, two where another thread can look in between: taking the mutex
and noting its holder are separate, in both directions. Application threads post, wait, sleep
and lock; an interrupt posts; the TCP/IP thread runs its loop (fetch with the time to
its next timer, handle, look at the timers) under the core lock, which it gives back while it
fetches. FreeRTOS is `block`, `resume` and `Tick`; time is a wrapping tick count and `goal` is when a wait
asked for in milliseconds should be over. `pool` says who owns each message; what a caller does with
it follows from the answer it is `told`.

`wired` is the build: `lwipopts.h` maps `LWIP_ASSERT_CORE_LOCKED` to the check and neither
`LOCK_TCPIP_CORE` nor `LWIP_MARK_TCPIP_THREAD` to the functions it depends on, so in the
firmware as it is (`wired = FALSE`) the check never stops anybody. The port is
modelled both ways.

### Conversions

A behaviour is one call: the next-state relation picks a function and its argument, the invariant
compares the result with a reference written independently. A 1-Wire bit is a UART byte; characters are a
small alphabet with one header name in two cases; the PHY's special mode register is
what each address answers, or that its read fails.

## 3. The runs

| run | states | what it shows |
|---|---:|---|
| `ds18b20` | 12200 | All faults on. **FreshOrInvalid**: no old temperature is readable when the sensor is ready, unless noise went unnoticed in the measurement started last. **ServiceSpec**: implements `SensorService`. **MeasurementEnds**: no combination of errors, refused calls and stale flags leaves the driver waiting for ever. **NothingLeftBehind**: until disturbed, what is decoded was received for the state it is decoded in, the UART is not re-initialised under a running reception, TIM7 runs only while waited for. **Recovery**: once the bus is quiet, a current reading follows. |
| `rom_search` | 941788 | **SearchExact**: without noise the passes meet the sensors in the order of the search, each once, and all that fit the slots. **CodesReal**: one inverted bit in whichever pass never makes the driver know a sensor that is not there. **OwnReading**: each slot holds its sensor's current value or the sentinel. **SearchEnds**: unless a reset is not answered. `TypeOK` includes that the found codes fit their array. |
| `bme280_debug` | 2249 | Spin that reloads. **HandOver**: chip select frames every transfer, and the task never spins on a transfer nobody ends. **TrustedUnlessFailed**, **TaskNeverHangs**. |
| `bme280_release` | | *Refuted:* the spin waits for the callback, when the compiler does not reload the member. |
| `station_tasks` | 237852 | **LatestSpec**: each channel is a `LatestValue`. **TakenOnce**, **SequenceDistinct**, **ConversionOnce**. **Delivered**: with the cable in, what is published is taken, or something newer is. |
| `http_requests` | 5070 | **UploadSpec**: implements `UploadService`. **SocketsReleased**, **ReceiveErrorIsReal**, **RequestEnds**; `TypeOK` includes that the terminator of the response is inside the buffer. |
| `http_body` | | *Refuted:* a response handled as one without Content-Length has none. |
| `eth_link` | 12146 | Both threads send, their transmissions overlapping; cables are swapped, reads fail; `Preempted = FALSE`. **FramesAccounted**: no pbuf is freed under the DMA, twice or never, whichever thread releases it. **MacFollowsFlag**, **LinkFollowsCable**: the flag comes to tell whether there is a link, unless the link thread is left waiting for a completion. **SendersReturn**: a sender interrupted by a lost cable returns when it is back, and the link thread too, unless two transmissions met. |
| `eth_shared` | | *Refuted:* `low_level_output` sends the pbuf it was given, when both threads send. |
| `eth_rx` | 1731 | **DescriptorsAccounted**: no buffer is lost. **FramesNoticed**: no frame is left to a thread that sleeps. **NoLostWakeup**, **ReceptionGoesOn**: an exhausted pool resumes, whatever restarts come between, until they race as described in section 4. |
| `sys_arch` | 219968 | **CoreCheckExact**: the check stops a thread exactly when it is outside the core, at any nesting. **OneOwner**: no answer of `trypost` lets a caller free what was queued or forget what was not. **WaitsExact**: a wait ends at most a tick early by the stack's clock, and never late, also over the wrap. **CallsReturn**: requests, waits and the stack's timers. |
| `conversions` | 101074 | **ConversionsExact**: noise of one or two bits or a burst of eight is refused by the CRC; bytes, temperatures over the sensor's range and the packed `dig_H4`, `dig_H5` are exact; over the whole range of the converters the compensated temperature and humidity are monotone, humidity is a percentage and no intermediate leaves 32 bits; the header found is the first with the name, its value trimmed; a length is accepted if and only if it is a number the buffer holds; the PHY is found at the first address that answers with itself. |

Deadlock is checked except in `ds18b20`, where `Error_Handler` stops the program, in
`rom_search`, where a driver that found nothing does nothing more, and in `conversions`, where a
behaviour is one call.

### Bounds

* `NUMBER_OF_DS18B20_SENSORS = 1`: the configured build (`Config/app_config.hpp`). With
  it the driver's state space is finite and explored whole: there is no counter in it.
  Two ages suffice because anything two cycles old is treated as one cycle old.
* `Bme280` has no bound.
* `MaxSequence = 5` (`WeatherStation`): the sensors task begins no cycle at or beyond this
  number: three cycles, which may publish twice each, of which the first has no
  conversion to report. The second can report one and the third can report it again, which
  is the least that `ConversionOnce` needs to fail. A channel's history matters only
  through the message published last and the one taken last, so three messages on one
  channel reach every relation between the two. The theorems of `WeatherStationProofs`
  hold for every value. When the sensors task has stopped, the network task and the link go on.
* `BufferSize = 40`, `Sockets = 2` (`HttpClient`): the responses of `MCReplies` are one or
  more for each case the client distinguishes: with and without body, cut short, undeclared
  body, bad length, not JSON, bad status line, silent server, header without end below and
  above the buffer's size, header longer than the buffer. Two sockets are what a leak
  needs to show. The theorems of `HttpClientProofs` hold for every buffer size, number of
  sockets and set of responses.
* `Frame` of three and `TxDescriptors = 2` (`EthernetLink`): each thread waits for a
  completion before it sends again, so the ring never holds more than two frames (checked with
  four descriptors, the HAL's default, and four frames) and the HAL refuses none for want of
  a descriptor. Refusals are those of a stopped MAC. `Modes = {2, 5}`: the slowest and the fastest mode,
  so that a swap of cables changes the mode. `EthernetLinkProofs` has no such bound.
* `EthernetRx` has the code's own sizes: four buffers, four descriptors.
* `RomSearch`: codes of four bits (eight valid ones with even parity, of which all zeros is
  none), three slots and up to four sensors: every shape of the tree a search of three passes can walk, and one
  sensor more than there is room for. `MaxNoise = 1`: what the CRC promises.
* `SysArch`: one application thread besides the TCP/IP thread and an interrupt; two messages for a
  mailbox of one, so that it is full; ticks of 2 ms as configured, timeouts of 1 ms (no tick) and 3 ms (rounded
  down); a clock of four bits, so that it wraps in the middle of waits; `MaxNest = 2`;
  `MaxLag = 2`: a thread that is due runs within one tick.
* `Conversions`: two scratchpads of the data sheet with every error of one or two bits and every burst of eight; all
  bytes; all raw temperatures from -55 to 125 degrees; headers of up to six characters, which hold two
  lines; lengths of up to four digits, around the limit of 1024; four PHY addresses instead of 32; the trimming values
  of two BME280s, the temperature converter in steps of 2^10 and the humidity converter in steps of 2^8.

### Fairness, and why the code justifies it

* *Interrupts, DMA, timer* (`Ds18b20`, `Bme280`): hardware ends what it was told to do.
  Errors are never forced to happen, nor forced to stop, except in `Recovery`, which
  speaks of the time after `calm`.
* *Sensors task* (weak fairness): it has the lowest application priority, but every thread
  above it blocks in each of its cycles, and it calls `startMeasure` in each of its own
  cycles that finds the sensor idle.
* *Network task*: it blocks only in calls that return. For requests that is
  `UploadService`'s end of a request, shown as `RequestEnds`; that in turn assumes that
  lwIP's calls return. They have timeouts of 5 s (`configureSocketTimeouts`) unless the
  TCP/IP thread itself stops; see the Ethernet interface below.
* The link in `Delivered`: only executions in which the cable stays in are judged.
* *Ethernet*: the DMA finishes frames and raises its interrupt, a negotiation ends. The link
  thread has the lowest of the network priorities and is enabled only between the others'
  steps, so it gets strong fairness: the CPU is not saturated. Nobody is made to
  send. `LinkFollowsCable` and `SendersReturn` speak of executions in which the cable is
  left alone in the end (`calm`).
* `QuickSwap = FALSE`: the link thread looks every 100 ms and a negotiation takes longer,
  so it sees a cable gone before it sees the next one.
* *ROM search*: transactions end and the task polls `isSensorReady`.
* *lwIP port*: the tick goes on, but not past a thread that is due (`MaxLag`); a call that was begun
  goes on; FreeRTOS serves a waiter on a mutex or a full queue in its turn, and whoever is
  in the core leaves it (strong fairness). Nobody is made to post or to lock. Callers do not post to a
  full mailbox while they hold the core lock: the TCP/IP thread would then wait for them, and
  they for it.
* *Reception*: frames keep coming and lwIP frees what it was given. `ReceptionGoesOn` judges only
  executions in which the MAC runs in the end and the race did not happen.

### What the HAL is assumed to do

`HAL_UART_Init` sets the handle ready and stops no DMA stream; `HAL_UART_DMAStop` stops
a transmit stream only while the handle is busy with it; a receive error aborts the
reception and leaves the transmission alone; `HAL_UART_Receive_DMA` and `_Transmit_DMA`
refuse a busy stream. These are the contracts `startDmaTransmitReceive` relies on.

`HAL_ETH_SetMACConfig` and `HAL_ETH_Start_IT` want the state READY, `HAL_ETH_Stop_IT`
STARTED; stopping masks the interrupts and leaves the ring as it is; starting gives
descriptors with unread frames back to the DMA and then builds those without a buffer;
`HAL_ETH_ReadData` takes one frame and builds what the pool allows; `HAL_ETH_Transmit_IT` queues
`TxConfig` or refuses. Each of these calls is one step, also where another thread
uses the same handle. Every frame is taken to use one descriptor: for a chain longer
than the ring `low_level_output` returns `ERR_IF` and changes nothing.

lwIP sends only on an interface that is up with its link up, and `netif_set_link_up` announces the
address.

## 4. What is known not to hold

Three runs refute what a comment or the documentation says:

* `bme280_release`: `_TransferState` is not volatile; the loop that "waits for complete or
  error callback" need not wait in a Release build.
* `http_body`: "No Content-Length header" is the branch taken for responses that have one,
  because of `*HeaderEnd`. A body is never given out, and never waited for.
* `eth_shared`: `TxConfig` is shared. With `Preempted` the link thread, preempted between filling it in and
  the HAL call, hands over the other sender's pbuf: that one is then freed twice and its own never.

Three properties name their exception:

* `TrustedUnlessFailed`: `onDmaError` says "Mark transfer as failed", `sendFrameBlocking`
  returns true all the same, so the bytes of a failed frame are used. Failed calibration is kept
  until reset. Drop `~failed =>` and the run refutes it.
* `NoLostWakeup` and `ReceptionGoesOn` hold until `raced`: the link thread,
  preempted between a failed allocation in `HAL_ETH_Start_IT` and its store of `RX_ALLOC_ERROR`, can find every
  buffer freed by threads that saw no error: then the status stays, and nobody wakes the input
  thread again.
* `SearchEnds`: a search reset without presence pulse returns with nothing in flight; the driver
  keeps searching for ever and the sensor is never ready.

Beside these, the link thread may be left waiting in `low_level_output` (`SendersReturn`
names the case): one interrupt may stand for two completions, the core takes
`TxPktSemaphore` and releases both frames, and the link thread stays until a later completion finds
the core elsewhere; meanwhile nobody looks at the cable. A frame the HAL refuses is reported to lwIP as `ERR_OK`; the link thread changes
netif flags without the core lock. And the first cycle of the sensors task publishes the sentinel
before any conversion was started.

Once `disturbed`, the three parts of `NothingLeftBehind` and `Recovery` fail: the interrupt chain can run on while
the task is between `HAL_UART_Receive_DMA` and `HAL_UART_Transmit_DMA`; the task's call is then
refused and its late `setErrorAndIdle` leaves `IDLE` with a reception armed or TIM7 running, and
from there every later conversion fails. `MeasurementEnds` shows that even then every
measurement ends, and `FreshOrInvalid` that what it ends with is not old unless garbled.

`FreshOrInvalid` and `ServiceSpec` except a `garbled` measurement, because the code really publishes old values
as new. `handleTransactionComplete` never compares the echo of `SKIP_ROM` or
`CONVERT_T` in `_RxBuffer` with what it sent, and takes any byte but `0xF0` for a presence pulse. A sensor
that missed `CONVERT_T` still holds its previous conversion (85 degrees after power-on), with a
valid CRC; 800 ms later it is read and published as the result of this measurement. The
CRC protects the way back, not the way there. The same holds for a handler chain that ran on without a
transmission of its own (`disturbed`). What is left, and shown, is that this takes noise in the
measurement itself: no combination of refused calls, noticed errors, left-over timers and interrupts between the steps
of `startMeasure` does it, nor noise in an earlier measurement. Drop `~garbled` and the run refutes the property.

Noticed in passing, visible in the definition named:

* `_LastTempCelsius` is initialised with one element in braces, so with several sensors all but the
  first start at 0.00 degrees (`RomSearch`'s `Init`); the first cycle publishes it.
* A noisy search may find a sensor twice or end early without an error (`passEnds`, `CodesReal`).
  If `HAL_UART_Init` is refused after the reset of a pass, the search state keeps saying "reset", the frames that select
  a sensor are never prepared, and reading gives the sentinel for ever (`searchReset`, `OwnReading`).
* A scratchpad of zeros has a valid CRC, and raw temperatures outside the sensor's range wrap in
  `int16_t` (`centiDegrees`): `TemperatureExact` is about the range of the sensor.
* A management bus that floats high answers every address with ones, so address 31 "is found"
  without a PHY (`LAN8742_Init`).
* The body `BME280_PAYLOAD_FORMAT` makes is an array of name/value pairs, which is not JSON; the text of a body is not
  modelled.
* The check of the core lock is asserted by lwIP but never armed (`wired`).

## 5. The proofs

| module | theorem | for every value of the constants |
|---|---|---|
| `Ds18b20Proofs` | `TypeCorrect`, `NeverOld`, `ImplementsService`, `LeavesNothingBehind` | `TypeOK`, `FreshOrInvalid`, `ServiceSpec`, `NothingLeftBehind` |
| `RomSearchProofs` | `TypeCorrect`, `CodesAreReal`, `SearchFindsAll`, `ReadingsOwned` | `TypeOK`, `CodesReal`, `SearchExact`, `OwnReading` |
| `Bme280Proofs` | `TransfersHandedOver`, `ValuesTrusted` (if `SpinReloads`) | `HandOver`, `TrustedUnlessFailed` |
| `WeatherStationProofs` | `TypeCorrect`, `NumbersDistinct`, `ConversionReportedOnce`, `NothingTakenTwice`, `ImplementsLatest` | `TypeOK`, `SequenceDistinct`, `ConversionOnce`, `TakenOnce`, `LatestSpec` |
| `HttpClientProofs` | `TypeCorrect`, `NoSocketLeaks`, `ReceiveErrorHasCause`, `ImplementsUpload` | `TypeOK`, `SocketsReleased`, `ReceiveErrorIsReal`, `UploadSpec` |
| `EthernetLinkProofs` | `TypeCorrect`, `MacFollows`, `FramesReleasedOnce` (if `~Preempted`) | `TypeOK`, `MacFollowsFlag`, `FramesAccounted` |
| `EthernetRxProofs` | `TypeCorrect`, `NoBufferLost`, `WakeupKept`, `NoFrameForgotten` | `TypeOK`, `DescriptorsAccounted`, `NoLostWakeup`, `FramesNoticed` |
| `SysArchProofs` | `TypeCorrect`, `CoreChecked` (if `NestingFits`), `WaitsAreExact`, `MessagesOwned` | `TypeOK` (no run names it), `CoreCheckExact`, `WaitsExact`, `OneOwner` |

Beyond the runs' properties, for every value of the constants as well:

| module | theorem | what it says |
|---|---|---|
| `Ds18b20Proofs` | `MeasurementsRunDown` | between two starts of a measurement at most 316 steps are made, by task and interrupts together |
| | `NeverWaitsInVain` | while the driver is not idle its timer runs, or each of its two streams is in flight or has just completed |
| | `BurstDetected` | whatever scratchpad was sent, the CRC refuses it when some bits within eight in a row were turned over |
| `RomSearchProofs` | `SearchRunsDown`, `NeverWaitsInVain` | every step of the search brings its end nearer; the driver is in a transaction wherever it waits for one, unless a reset was not answered |
| `Bme280Proofs` | `CalibrationIsExact` | `dig_H4` and `dig_H5` are read as the sensor holds them, for all 2^24 pairs |
| `HttpClientProofs` | `RequestsRunDown` | a request makes at most as many steps as the buffer has bytes, and six |
| `EthernetLinkProofs` | `CoreNeverWaitsInVain`, `LinkLosesOnlyToCore` | who waits for a transmission under the core lock has a completion to come; the link thread is left without one only when the other sender took it |
| `EthernetRxProofs` | `ReceptionNeverStalls` | until `raced`, some step of the receive path is always possible |
| `SysArchProofs` | `CallersNeverWaitInVain`, `TimersAreWatched` | the request of a thread that waits without timeout is queued, handled or answered; no fetch is endless while a timer is set |

A module proves one inductive invariant `IInv`, or several that build on each other where its
theorems have little in common, and draws its theorems from them. Each was model-checked on
the instance of its run first. With them every invariant the runs check is also proved for all values
of the constants, except the one of `Conversions`, of which two parts are.

* *Ds18b20.* `NeverOld` and `ImplementsService` are about measurements that are not garbled; of the others
  they say that they end (with anything) and that the next one starts afresh.
  `FreshOrInvalid` speaks of the moment the task looks; it is not inductive,
  because it does not say why the scratchpad read next is a current one. `IInv` adds
  that TIM7, when waited for, was started in this cycle (`TimerInv`: an older one that
  still runs makes the start fail), that the conversion being read is the one waited for
  (`ReadInv`), and that the sentinel is stored before `IDLE` (`IdleInv`). Every handler is
  then shown to do one of three things: go idle with a fresh value or garbled (`GoesIdle`), move on, stay put; and none
  takes `garbled` back (`NoiseEffect`).
  `NothingLeftBehind` has an invariant of its own, `UndisturbedInv`: until disturbed, nothing is armed and nothing
  marked as received while the driver is idle or waits for the timer (`QuietInv`), so that while
  `startMeasure` runs only what it has armed itself is in flight (`TaskInv`). A transmission
  may outlive its transaction; the invariant leaves it free. The bound of a measurement weighs what is left of it:
  a call of the task more than all states, a state more than what is in flight (`StepsLeft`).
* *The CRC of the DS18B20.* `calculateCrc` is a recursive function. The prover cannot instantiate the
  library's induction, but a set of natural numbers has a least element (`Least`), so a first bit that
  goes wrong can be taken instead. The argument runs the register backwards: a step loses
  nothing, because the highest bit tells whether the polynomial was applied; from the bits above k after
  it follow the bits above k + 1 before it and the parity of what was shifted out and in
  (`StepBack`). Two scratchpads that differ within eight bits have the same register before and,
  if both were accepted, the same after, or the same in the bits not touched where the burst
  reaches into the CRC byte. Eight steps back the bits shifted in are found to be the same (`BurstShows`).
* *RomSearch.* Three layers over `TypeInv`. `CodesInv`: the sensors that listen are those that agree with the bits
  sent so far, and one is there as long as no sample was inverted; a sample inverted at the
  last bit leaves a code one bit away from a sensor, which parity refuses (`OneBitOff`), and one inverted
  earlier leads to a branch where nobody answers or back to a sensor. `SearchInv`, without noise: the
  pass follows the last code up to its last zero branch, takes one there and zero at every branch after it (`Path`);
  `NextInOrder` shows that the code it ends with has exactly the codes found so far below it, and
  `LastInOrder` that a code without a zero branch has all others below it. The order is total and has ranks because codes
  have a first difference (`FirstDifference`) and are finitely many (`CodeFinite`). `ReadingInv`: the
  frame of a slot is its code or was never prepared. Assumed (`SearchAssumption`): a code has more than
  one bit. With a single bit, one inverted sample on an empty bus would already be a valid code.
* *Bme280.* `TransferInv`: a transfer runs only while the task spins on it, so that chip select and
  `_TransferState` are handed over by the callback. `ArrivedInv`: without a failure all set-up frames before the
  one being sent have arrived. Both need the spin to read the member again; for the build where it
  need not, the run `bme280_release` shows what happens.
  `CalibrationIsExact` is arithmetic of nibbles and of the 16-bit sign extension.
* *WeatherStation.* `NumberInv`: `Sequence` has passed all numbers published, and a payload
  being built has a newer one. `QueueInv`: a queue holds at most the message published
  last, until it is taken. `MeasureInv` with `ReadyInv`: between `isSensorReady` and
  `startMeasure` nobody else starts a measurement, so the start cannot be refused, and the next
  temperature belongs to a later measurement. Assumed (`StationAssumption`): two channels,
  queues of length one, as `app_init.cpp` configures them.
* *HttpClient.* `SocketInv`: a socket is held exactly between connect and close. `BytesInv`:
  the buffer's length counts bytes of this connection. `StatusInv`: status OK after the
  receive loop means that the request was sent whole. So a valid header in the buffer is
  the answer to this request. Assumed (`HttpAssumption`): a header has at least
  a status line and a separator.

* *EthernetLink.* `FramesAccounted` does not say that the pbuf in `TxConfig` is the one the
  preparing thread wants sent, nor that only one thread is between filling it in and the HAL call;
  `ConfigInv` and `OutputInv` add this. The second holds only without `Preempted`.
* *EthernetRx.* `CountInv` is the conservation of buffers, by cardinalities. `MarkInv`, until `raced`: while the
  link thread is about to store the error, the pool is empty; then, as there are
  no fewer buffers than descriptors and one descriptor has none, some buffer is outside
  (`SomebodyHasOne`), and its release will wake the input thread. `RxAssumption` (no fewer
  buffers than descriptors) is what makes this work. `FramesNoticed` adds `BusyInv`: the
  MAC receives only when it runs, and is started only with no unread frame in its ring.
* *SysArch.* Three invariants, because lock, clock and messages have little in common. `CoreInv`: count and holder
  lag behind the mutex by one while its owner is inside a lock or unlock call. `TimeInv`: the ticks left
  of a wait and the distance of `sys_now` from its goal go down together; the rest is arithmetic
  of numbers that are whole turns of the clock apart. `OwnerInv`: where the message of a request is
  while its thread goes through post and wait, and that a semaphore given to it means that the answer
  is there. Assumed (`PortAssumption`): a timeout, with lag and rounding, fits half a turn of the
  clock, beyond which the signed difference lwIP uses says nothing; and the names of states are not names
  of threads or messages. `NestingFits`: `lwip_core_lock_count` is a `u8_t`; at 256 nested locks
  it would read zero.

Only model-checked:

* The liveness properties (`MeasurementEnds`, `Recovery`, `SearchEnds`, `TaskNeverHangs`, `Delivered`, `RequestEnds`,
  `LinkFollowsCable`, `SendersReturn`, `ReceptionGoesOn`, `CallsReturn`): the prover has no rules for
  fairness and ENABLED. What they rest on beside fairness is proved where it could be stated without them: that steps
  run down, and that whoever waits has something coming (the second table). That the
  step possible is in the end taken, and that the environment answers, is left to the runs.
* `ConversionsExact` but for the bursts and the calibration. Two wrong bits further apart than eight,
  `decodeByte`, the header scan and the length need facts about folds and recursive functions over
  their input that the provers did not find or cannot state; the compensation formulas are beyond their arithmetic.
  The temperatures the run enumerates completely.

The three refuted properties are counterexamples and need no proof.

## 6. What is not modelled, and the plan

Abstracted in the modelled parts: the text of requests, logging, the tick count of the two
application tasks. Left out of them:

* `setAltitude` and `sendFrameAsync` of the BME280 driver, and most of the LAN8742 driver: no caller.
* The BME280's pressure formula: its 64-bit products are beyond the model checker's
  integers, and scaled down it would be another formula.
* In the lwIP port: creating and deleting objects, `sys_thread_new`, and
  `sys_arch_protect`, whose nesting count lives inside a critical section. lwIP itself is not in the tree, nor
  are FreeRTOS and the HAL.
* The configuration checks of `ItcManager` (its channels are constants), lwIP's start-up, and
  `hardware_config.c` but for `HW_ETH_update_mac_config`: sequential set-up without state of its own.
* `vTaskDelayUntil` after a long wait for the link, which makes the network task catch up in a burst of cycles:
  no property of the tasks depends on the tick count; `TakenOnce` says that a burst uploads nothing
  twice.
* Vendored headers (CMSIS) and start-up code: three quarters of the lines of the repository.

Theorems left: an abstract register with timeouts for the mailbox of the lwIP port, which the port would be
shown to implement; and that the CRC detects two wrong bits at any distance, which needs the order of its
polynomial.
