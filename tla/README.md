# A verification project for the pcb-cnc-mill firmware

TLA+ models of the firmware under `src/firmware`, checked with TLC on small
instances, and theorems about them checked with the TLA+ proof system for every
value of the constants. `PROJECT.json` lists the components, the runs, the source
lines of every definition (`map`), the hazards the properties are for, a wrong
variant of the code for every property (`mutants`), and the findings.

    tlc -workers 2 -config SchedulerNested.cfg MCScheduler.tla
    tlapm Scheduler_proofs.tla

## 1. The system

Bare-metal C for a small milling machine: a *mainboard* (BTT SKR Mini E3 V3,
STM32G0B1) with a USB serial port, stepper drivers and limit switches, and a
*display board* (BTT TFT35 E3, GD32F205) linked to it by a serial line. There is no
operating system: each board has one main loop and its interrupt handlers, and
they share memory without locks.

| component | state | operations | talks to |
|---|---|---|---|
| runtime scheduler (`core/runtime/runtime_scheduler.c`) | task table with `next_run_milliseconds` and `running`; `active_callback`, `active_priority` | a pass of the main loop; a preemptive pass of a hook; `run_task` | any role; today the display's main loop. The hooks are an interface (SCHEDULER.md) that no board calls yet |
| circular buffer (`core/runtime/circular_buffer.c`) | storage, `head`, `tail` | count, read, write | display serial, USB CDC |
| display serial (`boards/display/.../usart1.c`) | one ring, filled by an interrupt | byte available, read byte | link service |
| mainboard serial driver (`usart_hal.c`, `usart2.c`) | two rings, `rx_count`, interrupt enables | send, read, space available, handler | link, diagnostics, TMC2209 |
| display link (`rs232_display_protocol.c`, `mainboard_hal.c`, `display_hal.c`) | frame parser; link state; times of the last heartbeat | send heartbeat; receive byte; time out | both boards over the line |
| USB control (`usb_device.c`, `usb_hal.c`, `usb_cdc.c`) | `usb_device`, `control_transfer`, endpoint registers | setup, data and status stage; reset | host, in the USB interrupt |
| USB CDC data (`usb_cdc.c`, `usb_hal.c`) | packet memory, endpoint registers, two rings | receive packet, echo, transmit, open | host, in the USB interrupt |
| USB power (`usb_hal.c`, `usb_device.c`) | `suspended`, offline and wake-up counters | suspend, resume, tick | USB interrupt and main loop |
| chirp player (`core/runtime/chirp.c`) | pending and active tone, next edge | request, service | display's tasks and clock |
| display inputs (`display_hal.c`) | encoder and button history, touch, backlight, time of the last activity | one poll of each | display's main loop, clock interrupt, user |
| TMC2209 (`tmc2209.c`) | registers of four devices | read, write, set up | serial driver, one wire |
| EEPROM, configuration, delays | a version record; counters | read and write; wait | sequential |
| diagnostics, limits | USART1's ring | print, from several contexts | serial driver |
| motion, steppers, rendering, toolhead | see PROJECT.json | | |

What is hard here: an interrupt between any two accesses of a main loop (ring
indexes, counters, the bookkeeping of the scheduler); two status flags served in
one handler entry in an order that is not the order they came in; a transfer given
up or reset half-way; clocks that wrap; bytes lost or garbled on a line, and boards
that restart in the middle of a frame; a register that the hardware and a
read-modify-write of the handler change at the same time; a user between two polls. `hazards` in PROJECT.json has each at its
line.

What makes each component correct: the scheduler preempts strictly, re-enters no
task, restores its bookkeeping, serves by priority and starves no task; a ring is a
FIFO that announces only what it holds; frames go out whole; the display
shows the link up only while the mainboard is alive, notices silence and recovers;
every USB request is answered, in order, with no packet left over, and what was
acknowledged has been applied; the serial port keeps listening and echoes in order; a tone
has its length and its pitch and ends silent; the encoder's position follows the knob, one
press is one press, and the screen goes dark after the timeout and only then.

## 2. Modules

| module | models | state and actions |
|---|---|---|
| `Scheduler` | `runtime_scheduler.c` | Level 0 is the main loop, level l > 0 a hook; each level has a program counter (`pc`) and the locals of its pass. One action per access to memory that another level reads or writes: `Activate`, `Prioritise`, `StartCallback`, ... are the stores of `run_task` in their order |
| `SchedulerTiming` | the same with a history variable | time since each task's last start |
| `MCScheduler`, `MCSchedulerTiming` | task tables | |
| `CircularBuffer` | `circular_buffer.c` | operators over storage, `head`, `tail` |
| `ByteFifo` | - | what a receive ring promises: the abstract specification |
| `DisplaySerial` | display `usart1.c` | `UsartHandler` against a reader with one action per access to the ring; refines `ByteFifo` |
| `UsartDriver` | `usart_hal.c`, `usart2.c`, `write_display_serial_frame` | `Handler` against the accesses of `usart_send` and `usart_read`, with and without a look at `rx_count` before (`WaitForCount`); the history variables `raced`, `overrun` and `wrapped` record the three things the code does not prevent |
| `Tmc2209`, `Delays`, `Configuration` | `tmc2209.c`; `timers.c` and the polling of `eeprom_hal.c`; `configuration_hal.c` | operators, no state: the code is sequential |
| `MCMainboard` | | `UsartDriver` with facts on those operators, as ASSUMEs |
| `Crc16` | the checksum | the code's bit loop, and the remainder of a polynomial division as its reference |
| `DisplayLink`, `MCDisplayLink` | heartbeat, parser, link service | sender, line with faults, receiver one byte at a time, restarts |
| `UsbControl`, `MCUsbControl` | endpoint 0 | the interrupt handler (`Interrupt`, from `Snapshot` to `TransmitComplete`) against the host and the peripheral (`Host`), which act between any two of its steps |
| `UsbCdc` | `usb_cdc.c` over `usb_hal.c`, the echo of `main.c` | `Handler`, from `Snapshot` to `EndReceive`, one action per access to CHEPnR, against `HostOut`, `Fetch` and `Acknowledge`, which change it or read packet memory |
| `UsbEndpoints` | the walk over the configuration descriptor, endpoint assignment, packet memory | operators over the constant tables |
| `MCUsbCdc` | | `UsbCdc` with facts on those operators, as ASSUMEs |
| `DisplayInputs` | `encoder_poll`, `touch_poll`, `backlight_check_idle_timeout` | the polls in their order, each of the two pin readings a step, against `Turn` and `SysTick_Handler` |
| `Chirp` | `chirp.c` | request, and a service with time passing between its clock reads |
| `Scheduler_proofs`, `DisplaySerial_proofs`, `UsartDriver_proofs`, `DisplayLink_proofs`, `UsbControl_proofs`, `UsbCdc_proofs`, `DisplayInputs_proofs`, `Chirp_proofs` | | invariants and theorems about the module of that name (section 5) |

A definition named after a slip (`ReadyIgnoringContext`, `UsartHandlerUnguarded`,
`ChunkFromStart`, ...) is a wrong variant of the definition below it. Next uses none
of them; they are the mutants, and each shows that a property would notice that slip.

How the modules compose: `DisplayLink` takes the line and the two rings as one queue
of bytes. `DisplaySerial` justifies that at one end (it implements `ByteFifo`) and
`UsartDriver`'s `SentInOrder` and `Drains` at the other. `UsbControl` takes the data
endpoints away (endpoint 0 alone); `UsbCdc` begins where its SET_CONFIGURATION ends, and
`UsbEndpoints` says which endpoints that opens, where. `UsbCdc` and `DisplaySerial` share
the ring of `CircularBuffer`.

Sequential code that computes from its inputs alone is written as operators, and what it
computes is stated as an ASSUME over bounded inputs, which TLC evaluates before the run of
that module: the checksums against polynomial division, parsers against what they parse,
the set-up of a stepper driver for every number of writes and chosen losses, a delay for
every reading of the counter, a reset of the configuration cut off after every write.

## 3. Runs

| run | bounds | shows |
|---|---|---|
| scheduler_nested | 3 tasks of 3 priorities, main loop and 2 hooks, clock of 6 values, every start value | strict preemption, no re-entry, bookkeeping restored, service by priority, with a hook inside a hook |
| scheduler_one_hook | 3 tasks, one hook, clock of 8 values | a task found due is still due when rescheduled; every task keeps running |
| scheduler_period | 2 tasks, no hook | expected violation: the documented minimum period |
| display_serial | ring of 4, 2 bytes | types, announced bytes are there, refinement of `ByteFifo` with its liveness |
| usart | rings of 5 and 3, frames of 2, numbers of 10 values, a count of 4 values | frames have room, go out in order and drain unless the handler transmits inside `usart_send`; no byte announced that is not there unless the ring overflows or an unannounced read wraps the count |
| display_link | 500 ms to a tick, timeout of 3, one fault, the real checksum | shown state is true; silence noticed; recovery |
| usb_control | packets of 2 bytes, 18 requests, one give-up, one bus reset | every supported request answered, in order, no stale packet, acknowledged means applied |
| usb_refused | the same, 4 requests | expected violation: refused requests are not stalled in the IN direction |
| usb_late_ack | the same, late handler | expected violation: an old acknowledgement is taken for the new status stage |
| chirp | 12 us to a second, clock of 26 values, two requests | pitch, length, silence at the end |
| usb_cdc | ring and packets of 4, 9 bytes sent, a host that types or streams | the port keeps listening, the echo is in order and ends with the last byte, a typed byte comes back once |
| display_inputs | 4 encoder positions, 4 samples of the button, timeout of 3 in a clock of 6 | position follows the knob; a press is debounced; dark when idle and only then |

Why these are enough: a ring of three to five slots has a full, an empty and a
wrapped state, and a frame of two bytes has a first and a last one; two does not divide
five, so frames begin at every place of the transmit ring and some wrap inside a frame, as
five bytes do in the 2048 of the code (a ring of four hid what `raced` does to
`FrameHasRoom`). Ten numbers for a ring of five tell a byte from the one before it in its
slot; a count of four values is one more than the receive ring needs and wraps as that of
2^32 does, upwards in an overflow and downwards in a read that was not announced. Two hooks are the smallest case in which a hook interrupts a hook, and the
clocks wrap several times in every cycle. `Half` and `ClockRange` keep the proportion that the code
relies on (periods and lateness below half the range) as named assumptions. Packets
of two bytes make responses of less than one, exactly two and more than two packets. A
CDC packet may be as long as the ring, as in the code (64 and 64), and nine bytes go round
the ring twice. Four samples of a button have every pattern of bouncing that eight have as
far as the code distinguishes them (all up, all down, neither); an encoder has four phases,
and the clock of the inputs wraps during every few polls. The
display link has one fault because each fault is already in every place and followed
by every continuation; two faults were too many states for the checksum, and a
garbled length is drawn from two values only, `Noise`.

Choices a reader should know:

- `UsartDriver`, `UsbCdc` and `DisplayInputs` say what the code guarantees and name what it
  does not: `raced`, `overrun`, `wrapped`, `flagLost`, `missed` and `skipped` are history
  variables that become true at exactly one event each (a transmission from within
  `usart_send`, a full receive ring, a count of zero decremented in a read that nothing
  announced, a flag written back as zero, a byte written while the one before was in
  flight and whose register was read too early, a knob that moved two steps between
  polls), and the properties hold unless it has happened. Each event is reachable in its
  run and each property fails without its exception; all but the last are findings. The
  display link is silent towards the mainboard, so `raced` never happens there.
- `usart_read` has no guard on `rx_count`, and neither has `DisableReceive`. `announced`
  is what the caller of `usart_wait_for_count` or `usart2_byte_available` may still read;
  with `announced` at zero a read is one that nothing announced, as those of
  `tmc2209_parse_response` are after one of its twelve found the ring empty.
- An IN transaction of `UsbCdc` is two steps, the IN token with the data (`Fetch`) and
  the host's handshake (`Acknowledge`), and the handler may write packet memory or the
  register in between. The bus carries one transaction at a time. No packet is damaged
  and no handshake lost: the retries of the protocol are left to the peripheral.
- In `UsbControl` endpoint 0 is handled in coarser steps: a SETUP from the clearing of
  VTRX to the queueing of the answer, and a packet from its fetch to its acknowledgement,
  are one each. A host that gives up inside such a step is not covered. That a status OUT
  is armed with a receive count of 0 (usb_hal.c:924) is left out.
- `ActiveMatchesInterrupted` of `Scheduler` bounds the active priority by that of the
  interrupted task; it does not claim equality.
- In `UsbCdc` the transmit ring is left out: `usb_cdc_write` puts one byte in and
  `usb_cdc_write_ep` takes it out again within the same call. A new configuration
  (`Reconfigure`) makes the host forget what it waits for. `MaxSent` bounds the bytes;
  after it the host fetches what is left and reconfigures.
- In `DisplayInputs` a poll may come as late as it likes, but not so late that the
  clock wraps completely between two polls of a lit screen (49 days).
- `UsbControl` with `PromptAck` assumes that the handler has seen an acknowledged
  packet before the host's next setup. A USB host starts a setup no sooner than the
  next transaction, tens of microseconds later, but nothing in the code enforces it:
  usb_late_ack shows what happens otherwise. Endpoint halts, refused requests and
  reads of no bytes are excluded from `SupportedIsAnswered` by name, since the code
  does not answer them.
- The USB runs do not check deadlock: a host whose refused request is never answered,
  and that may give up no more, waits for ever.
- In `DisplayLink` a tick is long beside a frame: what was sent has been read and a
  service has ended before the next tick. A service reads at most 32 bytes, more
  than arrive in a tick.
- `MaxPass`, `MaxLate`, `MaxFaults`, `MaxAborts`, `MaxResets`, `MaxRequests`,
  `MaxSent` and `Positions` are bounds of the models and appear in guards.

## 4. Fairness

- `Scheduler`: the clock ticks (weak fairness); every level is strongly fair. A hook
  can disable the main loop's steps again and again, and the hardware resumes the main
  loop after each: the code relies on hooks that leave it time. `EveryTaskRuns` needs
  this, and fails in a machine whose interrupts use all of its time.
- `DisplaySerial`: the interrupt and the background task are weakly fair; the scheduler
  runs the task every millisecond.
- `UsartDriver`: the line shifts, interrupts are served, and a frame that was begun is
  finished. Nothing says that a new frame is ever begun, that a byte arrives or that the
  reader reads.
- `DisplayLink`: the two main loops and the clock go on; no fault and no restart has to
  happen. Nothing restarts a stopped mainboard.
- `Chirp`: the service runs in every pass (its task has no period), and the clock ticks.
  Requests are not fair.
- `UsbCdc`: the interrupt handler runs while its interrupt is pending, and the host polls
  the IN endpoint and acknowledges what it gets. It need not send anything, and no new configuration has to come.
- `DisplayInputs`: the display's scheduler keeps running the background task. Neither the
  clock nor the user is fair: `IdleGoesDark` speaks of a timeout that has passed.

## 5. Proofs

`Scheduler_proofs`, for any task table, any number of nested hooks and any counter range:

- `TypeCorrect`, by induction with `PickedInv`: a level that picked a task has its
  priority.
- `Bookkeeping`: `IInv`, the inductive invariant. `StrictPreemption` alone is not
  inductive: it says nothing of a hook that lands between the stores around a
  callback. `IInv` says for each level which of those stores it has done (`InRun`: the
  active flag; `Owns`: the active priority), that `active` and `activePriority` are the
  flag and a bound on the priority of the levels that own them (`ActiveInv`,
  `ActivePriorityInv`), that each level has saved the same of the levels below, and that
  a level that has chosen a priority chose one more urgent than all below it (`ChoiceInv`).
  The last one is where the order of the stores matters.
- `PreemptionIsStrict`, `TasksAreNotReentered`, `ActiveStateIsRestored` follow from it.
- `OneHookStillDue`: with at most one hook, a task found due is still due when it is
  rescheduled. The premise is necessary: with two hooks a preemptive task can be run by
  the second between the check and the store of the first.
- `PassServesInOrder`: a pass runs a task only when none of a more urgent priority that
  it may run is due. The invariant says what a pass has left behind (`ServedInv`): a task
  it has come past and may run is not due on its sample of the clock. It needs how old a
  sample may be (`SampleInv`), so that a task rescheduled by a hook in the meantime is not
  due on the older sample either, and that what a level may run is the same after every
  hook that landed during its pass (`MayRunAt`, from `RestoredInv`).

`DisplaySerial_proofs`, for any ring size above 1 and any bytes:

- lemmas on the operators of the ring: `Advanced` stays in the storage; storing one
  byte appends it to `Contents` as long as a slot stays free; moving `tail` drops the oldest.
- `SerialInvariant`, `AnnouncedBytesAreThere`, `SerialTypeCorrect`: what the reader knows
  of the ring survives an interrupt between its two reads of `head`.
- `SerialImplementsFifo`: every step is a step of `ByteFifo` or a stutter.

`UsartDriver_proofs`, for rings and frames of any size. The directions share only the
entry of the handler, so each has its invariant. `TxInv` says, unless `raced`, how much
room is left at each step of `usart_send` (`RoomInv`) and which byte of the stream each
slot holds (`OrderInv`, which counts the head of the ring apart from the used bytes, since
the store and the increment of one byte are separate steps). `RxInv` says, unless
`overrun` or `wrapped`, that `rx_count` lies between the reads still announced and the
bytes in the ring, with the difference of one that each step of `usart_read` makes
(`CountInv`): so no announced read decrements zero, and the count never wraps.
From them `FramesHaveRoom`, `BytesSentInOrder`, `AnnouncedBytesAreThere` and the types.

`UsbCdc_proofs`, for rings of any size, any number of bytes and both kinds of host.
`CdcInv`: which flags the handler may have armed (`ArmedInv`), that some step will make the
endpoint valid again (`ListenInv`), what packet and ring hold between the reads and the
writes of the endpoint register (`DataInv`), that the byte in flight lies between what the
host has and what is echoed and its packet stays VALID until it is acknowledged
(`FlightInv`), and which byte the echo has come to (`EchoInv`). From them `CdcKeepsListening`, `CdcQuietMeansEchoed`, `CdcEchoInOrder`.

`UsbControl_proofs`, for packets of any size and every request. Between two steps of the
handler a transfer is at one of a few stages, at which host, device and endpoint agree
(`SetupWaits`, `OutWaits`, `InWaits` while the handler has not yet seen the packet; `Sending`,
`StatusOut`, `Receiving`, `StatusIn`, `Unanswered` afterwards; `Forgotten` under a bus
reset). `ControlInv` says so for every state; the proof has one lemma for each thing that
can happen at a stage. From it `SupportedGetsAnswer`, `ResponseIsRead`,
`NothingStaleIsQueued`, `AcknowledgedTakesEffect`. All are under `PromptAck`, a constant
of the module that says that the handler sees an acknowledgement before the next setup;
without it they are false (usb_late_ack).

`DisplayLink_proofs`, for every width of the clock, size of a service and timing of the
two boards. `LinkInv` bounds the line by what faults put there and one frame. As long as
nothing went wrong, the parser has taken the part of a frame the line no longer holds
(`CleanInv`) and heartbeats are read in the tick they were sent (`TimelyInv`):
`OnlyFaultsLoseTheLink`. What is on the line is of this tick, but for one byte that
completes no heartbeat (`LineInv`), so a link shown as up has been silent no longer than
the display has waited (`AliveInv`): `UpMeansAlive`. Hypotheses:

- `CrcIs16Bits`: the checksum is a `uint16_t`. The proof uses nothing else of it.
- `TimeoutSpansHeartbeats`: interval and lateness of a heartbeat stay below the timeout
  (500 ms and 1500 ms in the code, so the mainboard may be almost a second late).
- `MaxFaults <= 1`, for `UpMeansAlive` only. With two faults it is false, as TLC shows:
  the first loses the last byte of a heartbeat, and a byte that the second puts on the
  line long afterwards completes it, so that the display shows as up a mainboard that
  stopped meanwhile. The parser has no timeout between the bytes of a frame.

`DisplayInputs_proofs`, for any number of positions, any history and any timeout.
`InputsInv`: unless `skipped`, the position counted is one the knob had between the last
two polls, with the phase the decoder remembers, and the two pins read one after the other
are of adjacent positions (`EncoderInv`); the history ends in as many equal samples as
were taken (`ButtonInv`); a lit screen has measured the quiet time without a wrap
(`LitInv`). From it
`KnobIsFollowed`, `ButtonIsDebounced`, `DarkMeansIdle`.

`Chirp_proofs`, for any pitch, any length, any lateness below half the clock, and no bound
on the length of a tone. `ToneInv`: the distance of the clock from the next edge is, as the
clock wraps, how late that edge is, `Late`: the age of the tone less the edges made times
the half period. From it `SilentUnlessPlaying`, `NeverTooFast`, `WholeToneIsPlayed`.

What the proofs changed in the models, since each attempt that failed had a reason:

- `FrameHasRoom` held in a ring of four only because two divides four. A ring that is no
  multiple of the frame keeps room for a part of one once the handler has transmitted
  inside `usart_send`; the property excludes `raced` now, and the run has a ring of five.
- The lateness of a chirp has to stay below half the clock less one, or a late edge is
  taken for one to come: an assumption of `Chirp`, which no longer caps the age of a tone.
- `RequestAssumption` of `UsbControl` says what the driver takes as given of each kind of
  request: 16 bits of length, no data stage with those that have none.

Assumptions are the named ASSUMEs of the modules and the hypotheses above. The ASSUMEs
say what the types are, that a ring has more than one slot, and that periods, waits and
lateness stay below half the range of the counter. TLC evaluates each of them in the runs;
that the checksum of the code has 16 bits is evaluated with `MCDisplayLink`.

Only model-checked: liveness (`EveryTaskRuns`, `Drains`, `SilenceIsNoticed`, `Recovers`,
`EndsSilent`, `TypedIsEchoed`, `IdleGoesDark` and the fairness part of `ByteFifo`), which
the prover does not reach; the checksums and the other operators stated by ASSUMEs, which
fold over bits and bytes and would need induction over data. Every safety invariant and
every action property of a passing run has a theorem.

## 6. Findings

Shown by a run: the period is not a minimum (scheduler_period); refused requests are not
stalled in the IN direction (usb_refused); a late acknowledgement completes the wrong
request (usb_late_ack).

Excluded by name from a property that holds otherwise: the transmission from within
`usart_send`, the receive ring without a limit, the count that wraps below zero (usart);
the received packet whose flag is written back as zero, the echoed byte that is put in
place of one in flight and not sent (usb_cdc).

Stated by an ASSUME: the walk over the descriptors moves twice the distance
(MCUsbCdc); lost answers and a wrapped count of the TMC2209 are reported wrongly, 0xb111,
the torn configuration record, the polling that ends at a wrap (MCMainboard).

Read from the code while modelling: `rx_count` loses increments; the echo loses bytes that
come in one packet; a packet as long as the ring reads as empty; a status stage missing for
endpoint features and empty reads; GET_CONFIGURATION answers with the request's own value;
SET_CONFIGURATION clears `addressed`; HAL_API.md describes the heartbeat as one byte; the
polling of the EEPROM uses an unshifted address. PROJECT.json quotes the lines.

## 7. Not modelled, and the plan

Not modelled: rendering, texts, start-up code, clocks and pin set-up (no state that
interacts); the motion planner (not executed behind a `return`); the toolhead and the
Mini12864 module (skeletons). Suspend, remote wake-up and the offline counter of the USB
end in `usb_device.suspended`, which is read by one function that nothing calls; it is set
by the main loop and by the interrupt in a word that both write, and once set is cleared
only by a new configuration. What callbacks, hosts and peripherals do is modelled as far as
this code can see it.

Three quarters of the lines under `src/firmware` are vendored device headers, tables of
register addresses and bits, which have no behaviour to model. The map's share of all lines
is therefore small; of the firmware's own C it is about two fifths.

Plan, in order:

1. Proofs: what the operators without recursion compute for every input (a delay for
   every reading of the counter, the reset of the configuration cut off anywhere, the masks
   of `Tmc2209`); the two rings of `CircularBuffer` by lemmas shared between `DisplaySerial_proofs`
   and `UsartDriver_proofs`, and the transmit direction of `UsartDriver` as a refinement
   of `ByteFifo`.
2. `Diagnostics`: several writers over the ring of `UsartDriver`; the exchanges of
   `Tmc2209` over it, with echo and timeout, instead of as functions.
3. `UsbPower`: suspend, remote wake-up and the offline counter, when something reads them.
