# VentControl in TLA+

VentControl is the firmware of a ventilation controller: a Raspberry Pi Pico
with a WIZnet W5100S/W5500 Ethernet chip drives the three relays of a
mechanical ventilation unit (speed 2, speed 3, holiday), reads four inputs (for
example bathroom light switches) that ask for a boost, and lets TCP clients on
port 1234 read and set the speed.  It runs four FreeRTOS tasks on one core:

    inputs --> input_task --input_queue--> ventcontrol_task --> relays
                                              ^        |
                                 receive_queue|        |send_queue
                                              |        v
    clients <--TCP--> W5x00 chip <--SPI--> server_task
                          ^                    ^
                          |                    | server_run, ip_assigned_sem
                          +------SPI------ dhcp_task <-- 1 ms timer

The modules here model each task by itself with the rest as its environment, and
then, where tasks depend on each other, the tasks together.
Every definition that stands for code is listed with its lines in the `map` of
`PROJECT.json`.  The comments in the modules call code *external* when it is
not part of the firmware's own sources (the WIZnet library, FreeRTOS, the
chip); it is modelled from how the firmware uses it.

## Inventory

| component | state | operations | interacts through |
|---|---|---|---|
| `ventcontrol_task` (`src/ventcontrol.c`) | `currentVakantie`, `actualSpeed`, `requestedSpeed`, `boostSpeed`, three relays | take a request, take a boost edge, switch relays, send status | `receive_queue`, `send_queue`, `input_queue` |
| `input_task` (`src/input.c`) | per input `input_active`, `input_state`; `boost`, `boost_delay` | read and debounce the inputs, start, keep and run out a boost | `input_queue` |
| `dhcp_task` (`src/main.c`) | `g_dhcp_get_ip_flag`, `dhcp_retry`, `link` | watch the link, run DHCP, start and stop the server, give up | `server_run`, `ip_assigned_sem`, SPI |
| `server_task`, outer loop (`src/server.c`) | - | wait for the semaphore, open the sockets, serve, stop | `server_run`, `ip_assigned_sem` |
| `server_task`, serving loop, and `server_loop` (`src/server.c`) | per socket `socket_open`, `send_buffer`, `receive_buffer`, two time stamps | serve each socket according to the state of the chip | `receive_queue`, `send_queue`, SPI |
| `handle_receive_bufffer` (`src/server.c`) | the receive buffer | find the first command and parse it | called by `server_loop` |
| `main` (`src/main.c`) | queues of 100 items, the semaphore | create queues, timer and tasks | start-up only |
| W5x00 SPI port (`port/ioLibrary_Driver`) | a FreeRTOS critical section and an SDK critical section | lock, unlock, transfers by DMA | both tasks that use the chip |
| W5x00 GPIO interrupt (same directory) | a callback | - | compiled, not used |
| 1 ms timer (`port/timer`, `main.c`) | `g_msec_cnt` | count and call `DHCP_time_handler` every second | DHCP of the WIZnet library |
| configuration (`FreeRTOSConfig.h`, `ssl_config.h`) | - | preemption on, no time slicing, 1 kHz tick, `configASSERT` empty | - |
| `FirmwareTest` (C#) | three clients | connect, ask for the status, check the answer | TCP |
| `pcb` | board design | - | - |

`blink_queue` exists in the sources but carries nothing that another task reads.

What is hard about it, and what makes each part correct:

* **ventcontrol_task** switches two windings of one motor.  A switch takes
  500 ms in which requests and edges keep arriving; two sources (clients and
  inputs) decide the speed; both of its queues towards the server can be full.
  *Correct:* the relays are never closed together and never without the pause;
  the relays, the reported speed and what clients were last told agree; nothing
  the server does or fails to do stops the task; a boost leaves nothing behind.
* **input_task** times two delays with ints, one of which grows for as long as
  an input is high, and ignores the result of `xQueueSend`.  *Correct:* a boost
  begins only after an uninterrupted input, runs on for exactly its delay, is
  started over by a new activation, survives the overflow of the counter, and
  its edges always reach the other task.
* **dhcp_task and the start of the server** share a flag and a counting
  semaphore that are written at different moments.  *Correct:* no start is
  lost, a stopped server stays stopped, failures are counted in a row.
* **server_loop** keeps per-socket state next to the state the chip keeps, and
  the chip changes state by itself.  *Correct:* silent connections are closed
  and others are not, heartbeats are on time, no text of one connection reaches
  the next, every client is served, every socket recovers.
* **handle_receive_bufffer** sees TCP segments, not commands: several in one
  read, or a part of one.
* **SPI port**: two critical sections around every access, both working on the
  one interrupt mask, and tasks that preempt each other in between.  *Correct:*
  transfers never overlap, nobody spins for ever, an access leaves no trace.
  **Timer**: an interrupt that has to go on for ever, with a callback that does
  not return its value.

`hazards` in `PROJECT.json` lists these at their lines.

## Modules

| module | what it is |
|---|---|
| `VentControl` | `ventcontrol_task` with clients, server and inputs as environment |
| `TwoSpeedMotor` | abstract: a motor with windings of which one at a time may be powered, after a pause |
| `InputTask` | `input_task` with the pins and the polling of `ventcontrol_task` as environment |
| `BoostControl` | composition: `InputTask` and `VentControl` with `input_queue` between them, on one clock |
| `ReceiveBuffer` | `handle_receive_bufffer` and the read before it on one socket, with TCP and the client as environment |
| `VentSystem` | composition: `Server` and `VentControl` with both queues between them, and clients that come and go |
| `BoostEdges` | abstract: what `VentControl` assumes about `input_queue` |
| `Network` | `main` up to the scheduler, `dhcp_task` and the outer loop of `server_task`, with the PHY and DHCP as environment |
| `Server` | the serving loop with its stop and start, and `server_loop`, with the chip, the clients and `ventcontrol_task` as environment |
| `SpiPort` | the lock of the chip as `dhcp_task` and `server_task` use it, and the 1 ms timer, with the interrupt mask, the SDK's critical section and the FreeRTOS port as environment |
| `MCVentControl`, `MCServer`, `MCReceiveBuffer`, `MCBoostControl`, `MCVentSystem` | instances for TLC (the other runs need no module of their own) |
| `VentControlProofs`, `InputTaskProofs`, `BoostControlProofs`, `ReceiveBufferProofs`, `VentSystemProofs`, `NetworkProofs`, `ServerProofs`, `SpiPortProofs` | theorems and their proofs |

How they correspond to the code:

* **Granularity.**  The local variables of a task are private, so a step of a
  task is the code between two calls that may block, or that touch something
  another task or the chip can change.  `pc` (`dhcpPc`, `serverPc`) names the
  call the task is at.  Tasks run on one core under priorities (`dhcp_task` 8,
  the others 4, no time slicing); the models let every step interleave with
  every other, which includes all the schedules the priorities allow.
* **Blocking calls with a timeout** are two actions: the one that succeeds, and
  the one for the timeout, enabled only when the call can time out
  (`HandleRequest`/`NoRequest`, `SendStatus`/`DropStatus`,
  `HandleInput`/`NoInput`).
* **VentControl.**  `relays` is the set of speeds whose relay is closed.
  `SelectLow` and `SelectHigh` are the branches of the switch up to the
  `vTaskDelay`, `CloseRelay` what follows it, and `pending` holds the messages
  the task still has to send before it goes on.  Speed 0 is kept as the code
  has it: no branch, so the relays stay as they are.
* **InputTask.**  Time is counted in readings of 100 ms.  One pass of the loop
  is one step (`Pass`) up to the `xQueueSend` (`SendBoost`); `Read` is a pass
  under the assumption that `ventcontrol_task` polls in time.  The branches of
  the pass are `StartBoost`, `ReleaseBoost`, `RunOut`, `KeepBoost`.
  `input_active` wraps around like the 32-bit int of the build, with `IntMax`
  in readings.
* **BoostControl.**  The variables are those of the two modules, `inputBoost` of
  `VentControl` is the edge put last (`lastPut` of `InputTask`), and the steps
  are theirs.  What is added is time: the clock moves with the readings of
  `input_task` and only while `ventcontrol_task` is in a call that blocks
  (`Blocked`), for at most as long as that call waits (`Patience`).
* **Network.**  `main` comes first (`ChipInit`, `WaitPhy`, `PhyUnknown`,
  `CheckVersion`): the calls in it that can wait or never return.  `RunDhcp` is a call of `DHCP_run` and the switch on its result;
  the token is given in a step of its own (`GiveToken`), since `server_run` is
  written before.  The branch for a static address cannot run
  (`g_net_info.dhcp` is `NETINFO_DHCP`) and is left out.
* **Server.**  `Take` is the receive from `send_queue`, `Serve` the turn of one
  socket with one disjunct for each state of the chip and each result of its
  calls, `Put` the send to `receive_queue` that may block in the middle of the
  pass.  A text is represented by the message it is formatted from.  `rx` is
  the first command of what the chip has received: the rest is read and
  dropped with it, as the code does and `ReceiveBuffer` shows.  `Stop` and
  `Start` are the end of the serving loop and the initialisation of the sockets
  before it.  What may go wrong is named by the constant `Faults`: connections
  that are reset, sends that are busy, reads that are busy or return less than
  there is (`ReceiveBusy`, `ReceiveShort`: the code then neither counts what it has
  read nor starts its clock over), a server that is stopped.
* **ReceiveBuffer.**  Texts are sequences of pieces, two for a command and one
  for the end character, so that a read can hold several commands or a part of
  one.  `Cleared` keeps what the `memset` of the code keeps: it starts at
  `receive_size` and not at 0, and reaches behind the buffer, where it may clear
  `receive_size` itself (`SizeAfterClear`) and, from the fourth byte on, the
  beginning of the text that waits in `send_buffer` (`TextAfterClear`; `told` is how
  that text goes out).
* **VentSystem.**  The steps are those of `Server` (without clock and faults)
  and `VentControl` (without inputs), with their queues in common.  The client is
  that of `FirmwareTest`: it connects, sends, waits for the answer to a GET and
  closes; besides, it may send heartbeats and the like and ask again.  A GET comes
  first of what is unread, or behind something, or cut in two (`GetComesFirst`,
  `GetComesBehind`, `GetComesCut`); the server passes on the first kind only.  `seen`
  is what each connection was sent last, `get` what has become of its GET: `waiting`,
  or `lost` in one of the last two ways or by a full queue.
* **SpiPort.**  A step is what a task does between two points at which the
  interrupt mask may change.  A task is named by its priority.  `Lock` and
  `Unlock` are the two functions of the port with one disjunct for each of
  their two calls; what the calls do to the mask is external, as the Pico SDK
  and the `ARM_CM0` port of FreeRTOS (`libraries/CMakeLists.txt`) define it:
  the SDK restores the mask it found, FreeRTOS counts in one variable for all
  tasks and turns interrupts on when it gets to 0.  `Wake` and `Timer` can happen
  whenever interrupts are on, `SwitchTask` must before the task goes on.

A definition `D_Xyz` is `D` with a plausible bug (a dropped guard, a missing
reset).  No specification uses one; the `mutants` of `PROJECT.json` put it in
the place of `D` and name the property that then fails, so that every property
is known to depend on the code.

## Runs

| run | configuration | shows |
|---|---|---|
| `vent_control` | `MCVentControl.cfg` | the interlock, the pause (`MotorSpec`), relays, reported speed and told speed agree, a boost leaves nothing behind; the wanted speed is reached (`SettlesOnWanted`) and requests are taken for ever (`NeverWedged`), also if nobody empties `send_queue`: 288,848 states |
| `input_task` | `MCInputTask.cfg` | edges agree with the inputs, find room, are exact in time, and keep to the contract `BoostEdges`, across the overflow of the counter |
| `boost_control` | `MCBoostControl.cfg` | each task keeps what the other assumes, the polling in time and the order of the edges (`TasksImplemented`); the fan ends up as the clients ask when the inputs stay low, except that a 0 requested in a boost leaves it at 1, and at the boost speed when one stays high: 840,003 states |
| `network_start` | `MCNetwork.cfg` | no lost start, giving up only after enough failures, the server follows its flag, a link that stays gets DHCP to run and a lease the server |
| `server_times` | `MCServer.cfg` | timeout, heartbeat and stale text for connections that end with a FIN, the timeout or a stop of the server: 195,933 states |
| `server_two` | `MCServerTwo.cfg` | two sockets with resets, busy sends, busy and short reads and failures of `socket()` and `listen()`: what a client sends is read whatever the other does, and each socket gets back to work: 21,998 states |
| `receive_buffer` | `MCReceiveBuffer.cfg` | however TCP cuts the stream, a read yields its first command or nothing, and what is left in the buffer never turns into a command; the `memset` spoils a text only for a client that had a command cut: 209,271 states |
| `vent_system` | `MCVentSystem.cfg` | what clients were told is what the fan does, also on a socket that is used again; a GET is lost in the ways named above and in no other (`GetsUnderWay`), and any other is answered, also one that is sent again: 852,467 states |
| `spi_port` | `MCSpiPort.cfg` | transfers stay apart, the spin lock is always free, interrupts get lost in one way only, and accesses end unless they are |
| `spi_timer` | `MCSpiPortTimer.cfg` | **violation**, see findings |
| `server_reset` | `MCServerReset.cfg` | **violation**, see findings |
| `server_15s` | `MCServer15s.cfg` | **violation**, see findings |

### Bounds, and why they are enough

* `VentControl`: `QueueLength` 1 instead of 100.  The task looks at a queue only
  through empty, full and its head, and the environment may refill it after
  every step, so a longer queue allows no new sequence of values received; what
  it changes is how old they are, and the environment already holds requests
  back for as long as it likes.  `SwitchDelay` is 2 ticks so that "half of the pause" is a different number.  Every request the parser can
  produce is in `Requests`.  `VentControlProofs` removes these bounds for the
  properties it proves.
* `InputTask`: three of the four inputs, which the code treats alike: one can rise
  while another falls and a third is high.  The assumption on the constants is what
  the edges need to
  find room: `QueueLength > n`, `n * VentLoop <= InputDelay` and `(n + 1) *
  VentLoop <= BoostDelay` for `n` inputs.  Each input can begin a boost once in
  `InputDelay` readings, also during the rest of another one, and one can end in
  `BoostDelay`, so at most `n + 1` edges come in the time it takes to poll that
  often.  With a shorter queue or a longer `VentLoop` `RoomForEdge` does fail.  The real
  numbers are far inside: 4 inputs, a queue of 100, delays of 1800 and 3000
  readings, and a pass of `ventcontrol_task` takes at most
  500 + 2*10 + 500 + 500 + 10 ticks, 16 readings.  The run has 3 inputs, a queue of
  4, delays of 6 and 8 and a `VentLoop` of 2, the smallest ones that allow it: 64,666
  states.  `IntMax` 8 is above `InputDelay`, so the counter crosses the delay before it
  overflows, is negative for some time and crosses it again.
* `BoostControl`: one input, since what several do is in `InputTask`; one client
  that asks for 0 and 3, below and above both the normal speed, 1, and the boost, 2;
  every wait is one reading, and the delays are the smallest that satisfy the assumption.  `Backlog`
  1 bounds the requests that wait, as in `VentControl`.
* `Network`: 2 retries instead of 5, a semaphore that counts to 3 instead of
  2^31 - 1, so that surplus tokens reach the limit as well.
* `Server`: one socket where times matter, since a step of a socket touches
  only that socket's state and the queues; two where fairness matters.
  `KeepAlive` 2 and `Timeout` 6 in units of 5 s are the real ratio (10 s and
  30 s).  In `server_two` `Timeout` is 0, with which the clock stands still: its
  properties do not depend on time.  The clock moves only after a
  whole pass over the sockets: a pass blocks for at most 100 ms + 10 ms for
  each command.  Time stamps are modelled as ages, which saturate one past the
  largest number the code compares them with.  `ServerProofs` removes these bounds
  for what it proves.
* `ReceiveBuffer`: reads fit in the buffer, which is 7 pieces long, so two whole
  commands and a part of one; 3 commands on a connection, and any number of
  connections.  `ReceiveBufferProofs` removes these bounds, except that reads fit.
* `VentSystem`: one socket, used by one client after the other, because the
  hazard is a reply that finds the next client on its socket.  Nothing is shown here
  of one client next to another: `GetsUnderWayHolds` covers any number of them, and
  that each is served in the end is `server_two`'s subject.  One speed to ask
  for besides the initial one; a queue of 2, which can be full.
  `VentSystemProofs` removes these bounds for the safety properties.
* `SpiPort`: the two tasks that use the chip, with their priorities.  `Second` is
  3 instead of 999, only to make the counter go around.  `MayStop` lets the timer
  stop at any of its calls in `spi_port`; `spi_timer` does without.

### Fairness

* Tasks get weak fairness: every blocking call of theirs has a timeout, or waits
  for the semaphore, and a ready task of the highest ready priority runs.  The
  tasks of equal priority all block in every pass of their loops, and
  `dhcp_task`, above them, sleeps in its loop.
* `Tick` of `VentControl`: the kernel's clock keeps going, so a `vTaskDelay`
  ends.
* `InputTask` states none; in `BoostControl` both tasks are fair, and the clock
  (`Reading`) keeps going.
* `VentSystem`: both tasks and the delay of a switch; clients need not do
  anything.
* `Network`: both tasks, but not `PhyUnknown`: nothing says that the PHY ever
  reports an unknown status.
* `Server` assumes strong fairness for the success of `socket()`, `listen()` and
  `recv()`: they do not fail, or find the chip busy, for ever.  They depend on the
  chip, not on the firmware.
* `SpiPort` assumes strong fairness for the steps of each task, because the
  tasks above it block in every pass of their loops, and for interrupts,
  because one that comes while they are off stays pending.
* Nothing is assumed of clients, inputs, the link or the DHCP server, except in
  the premises of a property.

### Findings

1. **A reset connection leaves `socket_open` set** (`server_reset`).  When the
   chip closes a socket by itself, `server_loop` opens it again at
   `src/server.c:219` and does not clear `socket_open`.  The clocks of the next
   connection are therefore not started (lines 141-145), and it may be closed
   for the silence of the one before.
   For the same reason texts and heartbeats are made for a socket that only
   listens, and one of them is kept for whoever connects (`NoStaleText` fails in
   the same configuration).  `ServerProofs` shows that resets are the only way to
   either.
2. **15 or 30 seconds** (`server_15s`).  The comment at `src/server.c:181` says
   15 seconds, `TIMEOUT_SECONDS` is 30.

3. **Interrupts off for good** (`spi_timer`).  `wizchip_critical_section_unlock`
   (`w5x00_spi.c:134-138`) first leaves the SDK's critical section, which turns
   interrupts on, and then FreeRTOS's.  If the tick that wakes `dhcp_task` comes in
   between, `dhcp_task` runs with a nesting count of 1 that belongs to
   `server_task`; its next kernel call turns interrupts off and leaves them so, and
   no tick, switch or timer follows; `server_task` never gets out of its access.
   `AccessEnds` makes an exception for this state (`InterruptsLost`), and
   `MaskedOnlyByUnlock` shows, and `SpiPortProofs` proves, that there is no other way to it.  Swapping the
   two calls is not a remedy: FreeRTOS then turns interrupts on while the
   spin lock is held (this is the mutant `Unlock_PortFirst`).

One more that no run decides: `wizchip_1ms_timer_callback` (`timer.c:39-45`) is
declared `bool` and returns nothing, so whether the SDK goes on with the timer is
undefined.

For the first finding `server_times` assumes that connections are not reset.  It also
assumes that `send` is never busy, which the code takes for a success, and that `recv`
returns what there is, without which the clock of a connection that does send is not
started over (`Faults` is `{"stop"}`).

## Proofs

`VentControlProofs` proves, for every set of clients and requests, every queue
length and every `SwitchDelay`:

* `TypesHold`: `Spec => []TypeOK`
* `InterlockHolds`: `Spec => []Interlock`
* `RelaysMatchSpeedHolds`: `Spec => []RelaysMatchSpeed`
* `ImplementsMotor`: `Spec => MotorSpec`, the refinement of `TwoSpeedMotor`
* `StatusFreshHolds`: `Spec => []StatusFresh`, and `BoostOverHolds`: `Spec => []BoostOver`

They rest on the named assumptions of `VentControl` about its constants and on
one inductive invariant, `Inv`.  The properties themselves are not inductive:
`Interlock` follows at `CloseRelay` only because the relay opened at
`SelectHigh` is still open at the end of the delay and the wanted speed is still
the same (`Switching`), and `MotorSpec` needs in addition that the time since
both relays opened and the rest of the delay add up to at least the pause
(`CountsOpenTime`).  `SendsSomething` says that `pending` is not empty where the
task sends.  The types are split into a Boolean and an arithmetic part, each of
which one prover handles.

`StatusFreshHolds` and `BoostOverHolds` add to `Inv` that every speed the task still
has to send is the actual one and that outside an announcement the clients were told
the actual speed or the announcement was lost; and that the edge put last is the
last one in `input_queue`.

`InputTaskProofs` proves for every finite set of inputs, and all delays, `IntMax` and
queue lengths the assumptions allow:

* `TypesHold`, `BoostFollowsInputsHolds`, `BoostRunsItsTimeHolds`.  Up to the delay
  `input_active` is exactly the time an input has been high, and from then on
  `input_state` remembers it, so that the overflow does no harm (`CountsHigh`); the
  rest of a boost and the time without an active input add up to `BoostDelay`
  (`CountsIdle`).
* `RoomForEdgeHolds`: every edge finds room.  `RoomForEdge` says nothing about the
  inputs that are about to rise together, so its invariant looks ahead, like a leaky
  bucket: `Owed` is the readings until the queue is certain to be empty, each edge
  adds `VentLoop` to it and each reading takes one off.  `BoostsFit` says that for
  every `t` up to `InputDelay` the bucket has room for the edges of all the inputs
  that can begin a boost within `t` readings: an input that has just begun one is not
  among them.  `EndFits` does the same for the end of a boost.
* `EdgesAgreeHolds` and the refinement `EdgesHold`, `Spec => EdgesSpec`, which follow
  because no edge is dropped (`EdgesInOrder`).  The edges need not alternate: when an
  input becomes active while a boost runs out, its beginning is sent once more.

`BoostControlProofs` proves `PollsInTimeHolds` for all waits, delays and queue
lengths: `ventIdle` is at most what the calls of the pass up to now wait at most
(`Earlier`) and what the present one has waited.  With it `InputTaskImplemented`,
`Spec => I!Spec`: the assumption of `InputTask` on the polling is discharged, and
what is proved about it holds for the two tasks together; `EdgesFindRoom` is that
for `RoomForEdge`.  `TasksImplementedHolds` adds the other half, the assumption of
`VentControl` on the order of the edges, so that each task makes the assumption of
the other true.  `BoostControl` assumes of its delays what `InputTask` does, and that
an `int` holds `InputDelay`.

`ReceiveBufferProofs` proves `TypesHold` and `ReadsStandAloneHolds` for every set of
commands of two pieces none of which is the end character or a 0, every buffer of more than
three pieces and any number of commands and connections.  The code does not reset
`receive_size` when it keeps a part of a command, so the proof must show that what is
left never adds up.  Seen from its end, every third piece of what is still to be read
is an end character (`Framed`), and so the length of what is unread tells how far into
a command the last read went, which bounds what it left (`SizeBounded`).  Between reads
the remains show no end character (`Settled`); after a read the buffer begins with it
(`Fresh`), whatever the `memset` has cleared.  For the text, `TextInv` adds that more
than the byte `VAK1` leaves is there only when the last read had no end character.

`VentSystemProofs` proves, for every range of sockets, every set of speeds the clients
ask for, every queue length and every `SwitchDelay`:

* `RunsServerHolds` and `RunsVentControlHolds`: each task runs as its own model says,
  apart from fairness, with the other one in the place of its environment.  So the
  theorems of `ServerProofs` and `VentControlProofs` hold in the system, their
  assumptions being proved of the constants; `TasksStaySafe` states the relays and
  `NoStaleText`.  TLC finds both true on the instance of `vent_system` as well; no run
  repeats that.
* `ClientsAgreeHolds`.  While a speed message is under way clients may be told an old
  speed; the invariant is that it is overtaken.  Each stale message in
  `send_queue` has the announcement of the actual speed after it (`QueueAgrees`), one
  that the server has taken has it in the queue (`TakenAgrees`), and a client that was
  told a stale speed has it still to come, in the queue or in the present pass
  (`SeenAgrees`); all this if the last announcement found room (`Settled`).  A new
  connection has no text from the one before (`SocketsClear`).
* `GetsUnderWayHolds`.  Added is that a client that waits is connected, and seen by the
  server or about to be when it reads the GET (`Waits`): otherwise its answer would be
  passed over, since `server_loop` makes texts only for sockets it has seen.  `Parsed`
  says that what the parser does not know is never put on `receive_queue`.

`NetworkProofs` proves `TypesHold`, `NoLostStartHolds` and `GivesUpLateHolds`
for every `DHCP_RETRY_COUNT` and every limit of the semaphore.

`ServerProofs` proves, for every number of sockets, every `Timeout` and `KeepAlive`,
every set of messages and every queue length:

* `TypesHold`, under all faults;
* `SilentClosedHolds`, if `recv` returns what there is: resets, busy sends and restarts
  do no harm;
* `HeartbeatInTimeHolds`, if in addition sends are not busy;
* `NoStaleTextHolds` and `ClosedOnlyIfSilentHolds`, if connections are not reset.

Without its condition each of them fails.  The
argument counts turns: `Served(i)` says that socket `i` has had its turn since the
clock moved, and the clock moves only when all have.  A connection that was
not seen yet, or whose command was not read, is at most one unit old, and none
if it was served (`Watched`, `Fed`); at its turn a socket is closed or its clock
is below the limit, so that the history is at most one unit ahead of the clock
of the code.  `Clean` says that without resets a socket gets to `SOCK_LISTEN`
closed and without a text.

`SpiPortProofs` proves, for any number of tasks and priorities, `TypesHold`,
`TransferAloneHolds`, `NeverSpinsHolds` and `MaskedOnlyByUnlockHolds`.  The
invariant behind them: whoever holds the spin lock has the core and interrupts
are off (`HolderRuns`), the nesting count of FreeRTOS is the number of tasks
between its two calls (`NestingCounts`), and without the spin lock interrupts are
off only while that count is not 0 (`MaskCounted`).

All of them rest on the named assumptions of the modules about their
constants, which TLC evaluates in the runs, and on nothing else.

Every invariant and every action property of the passing runs is proved, and so are the
refinements.  Only model-checked is liveness, which is out of the reach of the proof system
(it needs fairness and `ENABLED`): `SettlesOnWanted`, `NeverWedged`, `LinkGetsDhcp`,
`ServerFollowsFlag`, `LeaseIsServed`, `CommandsAreRead`, `SocketsRecover`, `AccessEnds`,
`FanFollowsRequests`, `BoostReachesFan` and `GetIsAnswered`.

## Not modelled, and why

* The characters of commands and answers (`ReceiveBuffer` counts pieces), formatting
  of texts and `printf`.
* Register access, the bytes of SPI transfers, clock set-up: input and output
  without control of interest.  DMA (`USE_SPI_DMA`) is not compiled in.
* That DHCP's second is 999 ms long (`main.c:324`): no source says otherwise.
* The GPIO interrupt and mbedTLS configuration: not used by the firmware.
* `FirmwareTest`: a load generator.  Its client is in `VentSystem`; the number of
  its threads and its display are left out.
* Reads that do not fit in the receive buffer of 128 bytes: a client of the
  protocol sends commands of five or six bytes and waits for answers.
* The library code itself (WIZnet socket and DHCP, FreeRTOS, the Pico SDK): not
  in the repository; its results are chosen freely in the models, as far as the code
  tells them apart.
* Resets and busy or short `recv` and `send` in `VentSystem`: `Server` has them.

## Plan

Done: each task with its abstract specification, the receive buffer, the two
compositions, and the proofs above.  What is left, in the order in which it would
be worth doing:

1. `Network` with `Server`: a link that is lost and back within one pass over the
   sockets.  Each side is modelled with all the other can do, `Stop` and `Start` in
   `Server` and `ServerPass` in `Network`; a composition would show, as
   `VentSystemProofs` does for the two tasks there, that this is all they do.
2. `VentSystem` with the clock of the server and with resets: what then is left of
   `ClientsAgree` and `GetsUnderWay`, and under which conditions.
3. The safety parts of the liveness properties: for each, a bound on the steps it
   takes, as an invariant that can be proved.
