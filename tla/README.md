# Verification of the Pico keyboard real-time recorder

TLA+ specifications, TLC runs and TLAPS proofs for the firmware under
`src/pico/` and the service under `src/zero/app/`. Every definition is
translated from that source; `PROJECT.json` gives the lines of each one, and
lists the runs, the mutants, the findings, the hazards and the theorems.

## 1. Inventory

### The Pico: one main loop, two interrupts

| Part | State | Operations | What makes it correct |
|---|---|---|---|
| main loop (`main.c`) | flow-control fault, the order of its calls | dispatch of 8 commands, fault handling, watchdog, callbacks | handlers never disagree about the run, whoever calls them |
| mode state (`mode_state.c`) | `state` | mode_set, play_start, play_abort, play_finish, enter_error | a transition clears what belongs to the old mode and owes a release |
| safety release (`safety_release.c`) | `pending` | request, service | an owed release is sent, before anything else |
| keyboard capture, physical dispatch | ring of 16 reports, `head_recorded`, input block | report callback, record and forward the head | recorded exactly once in RECORD, never in PASS; only a full ring drops |
| playback queue | FIFO of 512 events | push, pop, clear | order, capacity |
| playback scheduler | running, ended, waiting, underrun, alarm, samples | start, task, stop, watchdog, alarm interrupt | never early, never waits on an event it holds; every run ends and is reported once; metrics of that run |
| UART transport | RX ring 512, parser, 8 commands, TX ring 2048, fault latch | receive interrupt, poll, pop, queue_frame, tx_task | bounded rings; no command is lost unnoticed |
| UART protocol | none | encode, validate | both sides agree on frames |
| USB host and device | mounted keyboard, transfer under way; endpoint readiness | callbacks of TinyUSB | the keyboard in use is listened to, and no other |

### The Zero: threads over one serial port

| Part | State | Operations | What makes it correct |
|---|---|---|---|
| codec (`uart_protocol.py`) | `_buffer`, errors | feed | an intact frame is decoded, whatever surrounds it |
| transport (`transport.py`) | `_pending`, `cancel_event` | send, await a type and defer the rest, set_mode with a retry | a frame is attributed to the right wait |
| playback session (`playback.py`) | position, credit, armed/playing/finished | start, finish, abort | within the advertised capacity; the whole recording, in order and in time; always ends, and leaves PASS |
| recording session (`service.py`), builder and store (`recording.py`) | events, `finished`; files | start, consume, stop, abort; save, load, rename, delete, list | everything captured and nothing else is recorded; nothing saved is lost |
| controller (`controller.py`) | claim, state, generation, worker, stop event, last outcome | start/stop of two kinds, safe_stop, rename, delete | one user of the port; someone is always in charge of giving the claim back; a stop tells the truth |
| web API, command line, static page | none of their own | routing, Ctrl-C | - |

### How the parts interact

Pico and Zero exchange frames over two FIFO byte streams. Zero sends commands,
Pico answers and also sends notices of its own (RECORD_EVENT, PLAY_UNDERRUN, a
BUFFER_STATUS when a full queue gets room, the outcome of a run). Inside the
Pico everything but the UART interrupt and the alarm interrupt runs in the main
loop; the mode machine and the scheduler call each other through callbacks.
Inside the Zero a request thread does the handshake of a session, and a worker
thread then owns the transport until the session ends. Requests that rename,
delete or list recordings run beside the worker that saves one.

### What is hard

Callbacks that re-enter (a run that ends inside a mode handler, or in the call
that starts it); a release that competes with playback for a busy endpoint;
frames dropped by a full TX ring; alarms that fire for an event already sent;
bytes lost or damaged, and payloads that read like headers; notices and
acknowledgements of one type in one stream; credit computed from frames that are
read late; frames of one session left for the next; request threads that
interleave with the worker they stop; failures and deaths between two steps of
a start, a save or a rename. `PROJECT.json` lists these under `hazards`, each at
its line.

## 2. Modules

```
UartProtocol                vocabulary: modes, messages, frame sizes, queue guard
   |
PicoFirmware --(refines)--> SafeOutput      what the PC is promised
   |    |    \--(refines)--> PicoPeer       what the Zero may rely on
   |    \-- PicoFirmwareProofs             |
PlaybackStream              Zero's feeder and the firmware over two links
   \-- PlaybackStreamProofs                 |
                                            RecordingLink   recording sessions
                                               \-- RecordingProofs
PlaybackSession             the life of playback sessions over one stream
   \-- PlaybackSessionProofs
TimedScheduler --(refines)--> Playout       events on time, in order, once
   \-- SchedulerProofs
LatenessMetrics             samples, percentiles and PLAY_METRICS
   \-- SchedulerProofs
UartFrames                  the bytes of a frame
   |-- UartReceive --(refines)--> BoundedFifo (both rings)
   |      \-- UartProofs
   \-- StreamDecoder
          \-- UartProofs
KeyboardHost --(refines)--> BoundedFifo     plugging, and the capture ring
   \-- RecordingProofs
Timeline                    timestamps to deltas to offsets
   \-- RecordingProofs
RecordingStore              files, savers, rename, delete, lists, crashes
   \-- RecordingProofs
Controller                  request threads and workers of the web service
   \-- ControllerProofs
SequenceLemmas              induction, and buffers one behind the other, for proofs

MCPlayback  = TimedScheduler, LatenessMetrics, PlaybackSession
MCUart      = UartReceive, StreamDecoder
MCRecording = KeyboardHost, RecordingLink, Timeline, RecordingStore
```

The MC modules put components side by side that meet through finished data only
(a report, a recording, a deadline) and share no variable. A variable of the MC
module chooses which one moves in a behaviour, so that the size of a run is the
sum of its parts' sizes and not their product. Where components do interact
step by step they are one model: the firmware's parts in PicoFirmware, firmware
and feeder in PlaybackStream, Pico and sessions in RecordingLink and
PlaybackSession, saver and requests in RecordingStore.

### The Pico

**UartProtocol** has no state. A frame is a record with its type and the payload
fields that some code branches on; its size in bytes is kept, as the TX ring
counts bytes.

**PicoFirmware** is the main loop with everything it drives. `loop` names the
call that comes next, so that faults, commands, the release, physical input, the
scheduler, the checks and the transmitter run in the order of `main.c:396-463`;
inner C loops take one step per pass. A command handler is one step with every
callback it makes, as the firmware has one thread. Each operator that queues
frames takes the TX ring and returns the ring after it, with the frames of this
step in `tx.sent`: this is how the order of frames in a step can be stated.
Input is unrestricted: any command in any state, any report at any time, an
endpoint that is or is not ready after each `tud_task`, a transport fault at any
moment, and a UART that accepts none or all of the ring's bytes. Deadlines are
abstracted to choices (TimedScheduler has them). `tud_task` and `tuh_task`
belong to TinyUSB and are modelled from how this code uses them; that the
endpoint's readiness changes only inside `tud_task` is an assumption about
TinyUSB.

**SafeOutput** is what the PC and its user are promised, in three variables: the
mode graph, that every mode change owes an all-keys-released report, that no
report goes out before it, and which source may write in which mode.

**PicoPeer** is the Pico as the Zero's sessions know it: a mode, and the
MODE_CHANGED and RECORD_EVENT frames of a step, of which a full TX ring may drop
the last ones. PicoFirmware is checked, and proved for every ring and queue, to
implement it (`PeerKept`), and RecordingLink is built on it: what is shown there
of sessions holds of this firmware. `News` picks those frames out of all that a
step sends; it is a recursive function, so that it can be proved about.

**TimedScheduler** has the clock, the alarm pool and the alarm interrupt.
`pc` is the place in `pico_playback_scheduler_task` or `arm_next`; the interrupt
and the clock may advance between any two accesses to what they share. An alarm
may get a slot, get none, or fire at once because its deadline has passed.
**Playout** is the promise: against one epoch, events in order, each once, none
before epoch + offset. `MaxClock` bounds the clock, so `TimeModulus` is larger
than any sum and the addition does not wrap in the run (see section 4).

**LatenessMetrics** computes what a run reports: lateness clamped to `int32_t`,
kept in an array that outlives its run and is sorted in place, the nearest-rank
percentiles, and the unsigned form on the wire. The property compares this with
a reference definition over the gaps of that run.

**UartReceive** is the interrupt that fills the RX ring and the main loop that
parses it, takes the fault and pops the commands. Counters are free-running and
wrap at `RxWrap` and `CommandWrap`. **BoundedFifo** is what a ring promises;
both rings implement it, and so does the capture ring. **UartFrames** has the
bytes: a header of magic, version and length, the payload, one byte of CRC. That
byte is `Crc`, any function of the payload: it may be the start byte, as each of
the two CRC bytes of the code may (`uart_protocol.c:42-44`). A byte remembers
which frame and place it was sent in, and a CRC is right exactly when the
candidate is a frame as it was sent: that a 16-bit CRC may accept damage is left
out on purpose.

`DamageCostsOneFrame` says of a version that is damaged or lost that it costs its
own frame only, as the comment on early rejection wants
(`uart_transport.c:97-105`, "could consume a following valid frame"). It holds
when the rest of the damaged frame, payload and CRC, has no start byte
(`LooksPlain`); the other frames may have any. Otherwise the parser, which skips
that rest, begins a candidate in it and drops it with the first bytes of the
frame behind, which is then lost, too: with a start byte for a CRC the next
frame's magic is read as a version. TLC shows this at once when the conjunct
about `Crc` is left out of `LooksPlain`.

**KeyboardHost** has the mount, unmount and report callbacks against interfaces
that come, go and complete transfers in any order, and the capture ring with
its indices. `tuh_hid_receive_report` may refuse a request. A keyboard that is
plugged in while another one is in use is not armed, and stays so when the other
one leaves, until it is plugged in again: "heard" is said of the one in use.

### The Zero

**StreamDecoder** is `IncrementalDecoder.feed` as the turns of its loop (`Turn`),
taken until one breaks (`Waits`), on a stream that may be joined anywhere, cut into chunks of any size, and
damaged.

**PlaybackStream** EXTENDS PicoFirmware and adds `PlaybackSession.start()` and
`finish()` with the transport's receive loop. `stage` is the wait Zero is in;
`pending` is the transport's `_pending`, `deferred` the frames that the current
wait has passed over and puts back in front. The physical keyboard is idle and
the links neither lose nor damage bytes. Commands are the head of `toPico`:
`backlog` of them have been parsed. Zero's own deadlines are left out here on
purpose: a wait that nothing ends is a wait for ever, so a deadlock cannot hide
behind a timeout. What the firmware cannot take is lost as in
`enqueue_command`.

**PlaybackSession** is the life of sessions: `start()`, `finish()` and `abort()`
as the list of their waits. `Awaits` gives the frame each wait needs,
`Requests` what is written before it, `Following` the wait after it, and
`Cleanup` where a failure leads. A wait can be answered, time out (because
nothing will come, or too early), be cancelled by a stop request, or read a
damaged chunk. One event stands for a batch. Sessions and safe_stops follow each
other over one `pending`. A wait for PASS that a stop request ends is repeated like
one that timed out, as in the code; `cancelled` is the history of the waits that
ended so.

**RecordingLink** is the same for recordings, over PicoPeer: MODE_SET with its
retry, frames read in chunks, deferred, kept and drained, the error paths of
`RecordingSession`, the controller's safe_stop, Ctrl-C, and a restart of the
process. The n-th key event ever captured is the report n, so that order and
ownership can be told. `Meet` allows each kind of trouble once per behaviour
and `MaxTrouble` kinds in all; `MaxLate` bounds waits that end too early.

**Timeline** takes timestamps to deltas, checks them as `Recording` does, takes
them back to offsets at a speed that is a quotient, rounded like Python's
`round`, and counts the prebuffer. Python's quotient is a double; that it is
exact is assumed, which holds while offsets stay far below 2^53 µs (285 years).
That `expand_offsets` refuses an offset beyond 64 bits (`playback.py:82-85`) is
left out.

**RecordingStore** is the directory. `saving` is how far each of two `save()`s
is (the worker's, which holds no lock, and a rename's, which does), a system
call a step; `request` the rename that holds `_meta_lock`; `kept` a history of
what was published and not deleted on request. Lists and downloads hold no
lock. The process may die between any two steps, and a write may fail. The file
system is assumed to keep the order of a process's calls. An unlink that fails
(`recording.py:155`, `187`) is left out: it leaves a file too many, never one too
few.

**Controller** has the request threads, the workers and what `_meta_lock`
protects. A locked section is a step. An exchange with the Pico is a step at its
end, and a thread owns the transport from the step before; whether it is
acknowledged is a choice. A session's number is its generation and stands for
its worker and its stop event, too. A request that `start_*` or `stop_*` refuses
changes nothing and is no step. `safe_stop` with a session is a stop request.
Without one it looks twice, in two sections: the first finds no session
(`SafeStop`), the second takes the claim and reconciles (`ClaimIdle`), or finds it
taken (`LoseRace`). Then it calls `status()` inside the section, which asks for
the lock it holds; `_meta_lock` is not re-entrant, so the thread has no further
step and the lock is never free again. A section is therefore entered only if
`LockFree`, and a thread that is past its last section before and needs the lock
to go on is "blocked" from there (`Locking`). Histories: `sent` and `confirmed` (the last
MODE_SET and whether it was acknowledged), `last.of` (whose outcome is shown).

A definition whose comment begins with "Fault:" is not part of any
specification. It is the definition after it with a plausible bug, and a mutant
in `PROJECT.json` puts it in place to show that a property notices.

## 3. Runs

| Run | Question | Bounds | States |
|---|---|---|---|
| `pico_firmware` | Is the shared state consistent, is a report recorded once, is a run's end reported in order? Are SafeOutput and PicoPeer implemented? | 2 reports, capture 2, queue 2, 2 commands per poll, a TX ring of 100 bytes that drains all or nothing | 2.9 M |
| `pico_firmware_live` | Does a run end when Zero is silent, is an owed release sent? | capture 1, queue 2, 1 command, 77 bytes | 324 k |
| `playback_stream` | Credit, pipelining, deferred frames, completion, order; can feeder and firmware wait for each other? | 5 events, queue 3, window 2, 2 commands, any prebuffer 1..5 | 170 k |
| `playback_stream_credit` | Does Zero stay within `free_capacity`? **No** | as above | |
| `playback_parts` | Are alarms the head's? Is the watchdog late enough? Is Playout implemented, punctually? Do metrics describe their run? Does every session leave PASS, read its own outcome, succeed when nothing is wrong, and end? | offsets 0, 1, 3, queue 2, clock to 6, timeout 2; 3 samples, 4 dispatches, 2 runs, `int32_t` of 3 bits; 3 sessions, 2 stop requests, 1 kind of trouble, 1 early timeout | 982 k |
| `uart` | Is every loss noticed, in order, and no wider than it must be? Do the rings keep their promise through wraps? Are intact frames decoded? | 3 frames, one with a start byte for its CRC, 1 byte damaged or lost, RX ring 2 of 4, command ring 1 of 3 | 2.8 M |
| `recording` | Is the keyboard heard, is a recording whole and in order, does every session leave PASS, are times kept, are files safe? | 2 keyboards and a mouse, ring 3, 7 reports; 2 sessions, 3 keys, 2 kinds of trouble, 2 early timeouts; 5 events below 10 µs, speeds 1/3..4; 3 names, 2 recordings, 1 crash, 1 failed write | 4.4 M |
| `controller` | One user of the transport, a sound claim, the cancel event, whose outcome, does a stop end its session? | 3 request threads, 2 sessions | 236 k |
| `controller_outcome`, `controller_error`, `controller_armed` | What three comments say of the controller. **Violated** | 2 request threads, 2 sessions | |
| `controller_race` | Does a `safe_stop` that loses its race leave the session that just started be? **No** | 2 request threads, 1 session | |

Why the bounds are enough to meet the cases. A queue of 2 is empty, partly
filled and full, and both edges are crossed; a capture FIFO of 2 has a head that
is marked and an entry behind it that is not. 100 bytes hold every run end with
its start and still fill up within a few frames. The stream's recording is
longer than the queue, longer than two windows, and equal to the prebuffer for
one initial state; the window is smaller than the queue and as large as the
command ring, as it must fit in there (4 and 8 in the code). In PlaybackStream
the TX ring has its real 2048 bytes and never fills. Two sessions are what the
generation check and leftovers are about; the third one in PlaybackSession is a
safe_stop between two others; the third request thread makes a stop, a start
and a reconciliation meet. The clock of 6 units has an event that is early, two
that share a deadline, a stall, and a watchdog period with a refill inside. The
rings' counters wrap within one script of three frames, whose payloads include
complete headers. Seven reports take the capture ring round twice. Three names
are an old one, a new one and one of somebody else. Damage beyond one byte is
more of the same for a parser that keeps one candidate.

The runs whose bounds stop them (counters of sessions, clock, keys, recordings)
say `CHECK_DEADLOCK FALSE`: a behaviour that has used up its bounds stops. So do
those of the controller, as a lost race stops the service. `pico_firmware` and
`playback_stream` do check deadlock.

### Fairness

`PicoFirmware!Fairness`: the main loop is never blocked (`WF` on it). The PC
polls the endpoint (`SF` on a `tud_task` that finds it ready), the head event's
time comes (`SF` on `SchedulerDispatch`), and two seconds pass while the loop
turns (`SF` on `WatchdogExpires`). No fairness is asked of commands, reports or
faults. `PlaybackStream!StreamFairness` asks the same of the firmware, progress
of Zero, and delivery of the wire; the watchdog gets none, so a stream may not
depend on it. `Controller!Fairness`: a thread that can run does, and every wait
on the Pico has a timeout; nobody is bound to make a request, and a recording is
not bound to break. The lock is given to a waiting thread as long as it is free:
once a lost race keeps it, the steps that need it are not enabled, and fairness
asks nothing of them. `TimedFairness`: code in the task goes on (`WF`), the main
loop calls the task again and again and the PC takes reports (`SF`); nothing is
asked of the alarm or the clock, so `Punctual` holds though no alarm ever fires.
`SessionFairness`: the Pico handles commands and ends runs, the session's thread
reads and acts, its waits are bounded.

### What the runs found

1. `WithinAdvertisedCapacity` (`playback.py:356`): a PLAY_UNDERRUN that was
   deferred during an earlier wait is read as fresh credit although the last
   acknowledgement said that the queue is full. Zero writes a batch into a full
   queue, and Pico enters ERROR. In a longer recording (found with 12 events) the
   next notice is then taken for the acknowledgement of an event that is still
   on the wire, and Zero outruns the command ring, too. `WithinLimits` says that
   a stale notice is the only way to either.
2. `StopTellsOwnOutcome` (`controller.py:331`): a reconciliation ends a claim
   without a new generation, so a stop request may return its outcome.
3. `ErrorNotMasked` (`controller.py:181`): a playback request with a bad
   parameter turns a shown ERROR into PASS.
4. `ArmedIsLeft` (`controller.py:180`): the clean-up of an unconfirmed ARMED
   handshake sends nothing.
5. `LeftBe` (`controller.py:275`): a `safe_stop` that finds the claim taken when
   it looks again returns `status()` while it holds `_meta_lock` (lines 272, 69,
   50). The comment says "Lost a race with a session that just started; leave it
   be", but the session can then neither publish its worker nor end, and every
   later request waits. A start between the two sections is enough, and so is a
   second `/api/stop`. What the other properties say of the controller is true all
   the same: `SingleOwner` and its like hold in the states where the lock is lost,
   `ClaimIsSound` says that nothing else keeps an owner from giving the claim
   back, and `StopEndsSession` makes the exception.

### Further deviations

What follows was met while modelling, and the models contain it; the property
that would say otherwise is not among the runs, as each is a smaller matter than
those above.

- `playback_scheduler.c:145`: `playback_start_us + offset_us` is an unsigned
  64-bit sum and wraps; an offset near 2^64 is dispatched at once. The lateness
  in `docs/protocol.md:147-148` is against the sum that does not wrap. With
  `TimeModulus` within reach of the clock, TLC finds `PlayoutKept` violated.
- `transport.py:61`: if the answer to the first MODE_SET is only late, it
  acknowledges the second one, whose own answer then meets the recording
  (`service.py:46`), which fails with "Pico mode changed unexpectedly".
  `docs/realtime-design.md:128-130` calls mode commands safe because MODE_SET
  is idempotent and repeated.
- `transport.py:61`, with `playback.py:262`: `set_mode` takes a wait that a stop
  request has ended for one that timed out and writes MODE_SET(PASS) again, and so
  does `abort()` after it. The surplus answers are left for the next session, which
  is then an answer behind: a later ARM is refused, the one after it accepted by an
  old answer, and in the end a session reads the outcome of an earlier run, though
  `playback.py:237` has it consume its own "ordered outcome and metrics". TLC finds
  this with nine sessions and two stop requests. `HeardIsOwn` therefore speaks of
  behaviours in which no stop has ended a wait for PASS (`cancelled`); a stop in
  any other wait is allowed.
- `transport.py:150`: events that an aborted session had deferred stay in
  `_pending`; those captured before it went back to PASS can open the next
  recording, though `README.md:65-67` lets nothing partial be left of it.
- `service.py:66`: when the MODE_SET(PASS) of stop() is not answered, PASS is
  shown though nothing has confirmed it: the "safe return" of `service.py:1` was
  attempted and not achieved.
- `cli.py:111`: Ctrl-C inside `stream.read` loses the key events that this read
  had taken, though `service.py:62-63` includes what was queued before PASS.
- `controller.py:238`: a rename to the name of the recording that is being made
  is allowed, after which that recording cannot be saved: `README.md:102-104`
  protects only the old name.
- `controller.py:217`: a stop that meets failures may write several
  MODE_SET(PASS), whose left-over answers refuse the next start once.
- `controller.py:327`: a stop request can join a worker that was published and
  not started yet; `join` raises RuntimeError. `StopEndsSession` shows that the
  stop itself is not lost by that.

## 4. Proofs

All proofs are for every value of the constants under the named assumptions of
the modules, and for behaviours of any length. A bound that makes a run finite
(keys, sessions, events, stops, troubles) is a parameter in them.

**PicoFirmwareProofs**: `Consistent` (the type invariant and five parts about
run and mode, wait and queue, release, flow fault and left-overs), RecordedOnce,
that the firmware implements SafeOutput, and from that HeldKeysBelongToMode; for
every set of reports, every capacity (a TX ring of any size included) and every
way the UART drains. The assumptions are `ReportsAssumption` and
`CapacityAssumption`. The invariants are inductive only together: a handler is
called from the command dispatcher, the fault check and the scheduler, so what
it may assume is what holds after every handler (`CoreInv`). `Placed` adds what
depends on the place in the loop: after the release service nothing can
overtake, and after the scheduler's task the wait matches the queue exactly.
`IInv` is both with the TX ring's bound. One lemma per handler shows that it
keeps `CoreInv`; the step proof has a case per action. The refinement has no
invariant of its own: ReleaseGoesFirst is what makes a scheduler's send a step
of SafeOutput.

The same module proves `RunEndReported` from this invariant: however a run
ends, the step that ends it tells Zero the outcome, the metrics and the mode
change, in this order, and no other step names an outcome. The property has one
hypothesis, `RoomForRun`: the TX ring has room for a start and an end (80 bytes)
before the step. Then nothing that a handler queues is dropped (`Queued`), so
each handler's frames can be named one by one (`FinishRunTold`, `EnterModeTold`,
...), and they are compared with what the handler does to the mode.

And it proves `PeerKept`, for a TX ring of any size, without that hypothesis. Each
handler is mapped to an action of PicoPeer (`ModeSetPeer`, `EnterErrorPeer`, ...)
by the frames about modes that it leaves in `tx.sent`. Most queue one such frame,
which the ring takes or drops (`Says`); frames about anything else add nothing to
`News` (`QueuedNews`, `NoNews`). A run that ends as it starts queues two, with
other frames between them, and a ring may drop a long frame and take a shorter one
behind it. But these two have one size, and within a step the ring only fills: if
the first one is dropped, so is the second (`PlayStartPeer`), and Zero is told a
beginning of what happened.

**PlaybackStreamProofs**: for every recording, pipeline window, queue and command
ring, the feeder stays within what the Pico can take (`WithinLimits`), the PC is
given the events in recording order (`PlayedInOrder`), a session that ends well
has played all of them (`DoneMeansPlayed`), and one that fails does so because the
Pico entered ERROR or the queue is too small for the prebuffer (`EndIsTrue`).

The inductive invariant `StreamInv` says what the streams between the machines
hold in each stage of the feeder: `Rows` the commands and frames that each stage
may find while the Pico is not in ERROR, `Doomed` what is left of that once it
is, `Answers` where the frame is that the stage waits for. `CreditInv` is the
accounting: the statuses on their way number the events that the feeder still
has to count (`Outstanding`, `Settled`), the free places it counts with are those
of a status of its own, and a PLAY_UNDERRUN on the way is either still true or
has an acknowledgement behind it. `WithinLimits` is conditional on
`staleCredit`, and so is `CreditInv`: an underrun that was kept in `deferred` from
an earlier wait and is then read as fresh credit is what finding 1 is about.

The step proof does not go through the firmware's actions for each part. A step
of the Pico is, for the streams, one of the twelve `PicoKind`s: nothing seen,
a command taken and answered in one of a few ways, an event played, a notice, a
run's end, ERROR (`PicoKinds`); each kind keeps the invariant (`PicoKept`). The
Zero's actions have a lemma each (`ZeroKept`). What the firmware guarantees is
`IInv` of PicoFirmwareProofs, as each step is one of the firmware's or leaves it
alone (`StepIsFirmware`). `EndIsTrue` has one hypothesis, `RoomToStart`: while
PLAY_START is on its way the TX ring has the 80 bytes of `RoomForRun`. Without it
the ring may drop the MODE_CHANGED of a start, and a short run's end, which is
the next one, is then taken for a start that went wrong. TLC finds the hypothesis true in every state of this system
with a ring of 300 bytes; the shipped one has 2048. The assumptions are
`StreamAssumption` (the window is not larger than the command ring),
`CapacityAssumption` and `ReportsAssumption`.

**ControllerProofs**: for every set of request threads and any number of
sessions the transport has one user, the claim is sound (`ClaimIsSound`: held
exactly while a thread is in charge of giving it back, which only a lost race
keeps from doing so; with the type invariant), the cancel event belongs to the playback that streams, a
stop never returns another session's outcome, and RECORD is left. `SlotInv`
ties each side of the claim to the current generation: a thread that starts a
session is about the newest one, a worker with work left is the published one,
and a worker that was created has the request that will start it. `LockInv` says of a lost race that it is the only one and that
the claim it met stays. `AnswerInv` and `SentInv` rest on these. The assumption is `MaxSessionsAssumption`; the bound
on sessions is a parameter.

**PlaybackSessionProofs**: for any number of sessions, stop requests, troubles
and retries every session leaves the Pico in PASS (`SessionIsLeft`). One that
nobody stops over a link without trouble succeeds, and so do those after it
(`UndisturbedSessionSucceeds`). And over such a link a session, stopped or not,
reads the outcome of no run but its own, unless a stop has ended a wait for PASS
(`HeardIsOwn`; section 3 says what happens then). For the first, `PassComes`: a
session that leaves has asked for PASS last, and the request is handled or the
last one on the wire. The other two rest on `CalmInv`, whose `OnTrack` is a table
of the waits: for each one, where the Pico is, which requests it has not handled
yet, and which frames it has said that the session has not used. From it follows
that the first frame that can end the wait is the one it needs (`IsAnswer`),
however many were read in one chunk, and that this frame is still to come as long
as the wait lasts (`FrameIsComing`). A stop leads into the waits of `abort()`,
which the table has, too (`Stopping`): PLAY_ABORT finds the run, or comes when it
has ended, or the end of the run that it cut is told. So every session ends with
the Pico in PASS and nothing said, and the next one begins as the first did.
`OwnRun` is what this gives for `HeardIsOwn`: the run that the Pico numbers is the
session's own from the moment its PLAY_START is handled, and the number is above
all those that were there before. The assumption is `SessionAssumption`.

**RecordingProofs** has the four parts of `MCRecording`.

- RecordingLink: for any number of keys, sessions, retries, troubles and late
  answers, the builder gets the reports in the order of their capture
  (`RecordedInOrder`) and every session leaves the Pico in PASS
  (`LeftInPass`); over a link that has had no trouble, no session fails
  (`HealthyLinkNeverFails`) and what is saved is everything that was captured
  since it began, and nothing else (`WholeRecording`). A frame is deferred by
  the current wait, pending, or on the wire; these three, one behind the
  other, are the `Way`. All that a step does to it is to add a frame at the
  end, take the head, or lose some, so the order of the reports on it and in
  the builder is inductive (`Flow`), whatever is put back in front of what.
  For PASS it is enough that the last request written is the last one handled
  (`LeavingInv`). The two properties of a healthy link need to know what is on
  the Way, place by place (`InStage`): one answer at most, and around it
  exactly the events captured since the session began. The assumption is
  `LinkAssumption`.
- KeyboardHost: for any interfaces and a capture ring of any size, the keyboard
  in use is heard and no other (`KeyboardIsHeard`), and the ring is a BoundedFifo. The write index is
  always `count` places after the read index, modulo the capacity (`RingInv`), so
  the place a report is written to is none of those still to be read
  (`WritePlaceIsFree`). The assumption is `HostAssumption`.
- Timeline: for recordings of any length, a clock of any width and any set of
  speeds, `TimesAreKept`. The deltas up to an event add up to its time after the
  first one (`DeltasAddUp`), so an offset is one rounded quotient of that time
  and never a sum of rounded ones; rounding moves a quotient by half a unit at
  most (`RoundIsNear`) and keeps an order (`RoundKeepsOrder`). A total is a fold,
  which is a recursive function chosen by the library: that it exists
  (`FoldExists` of SequenceLemmas) and what it is (`TotalIs`) are shown by
  induction over the length. The assumption is `TimelineAssumption`: a speed is above zero.
- RecordingStore: for any names, recordings, failed writes and crashes,
  `StoreIsSound` and `FilesAreKept`. A temporary file is whole once its save may
  publish it (`SavesInOrder`); while a rename holds the lock its old file cannot
  go away, as files are removed by delete and rename only and never replaced; and
  the copy is there before the old file goes (`CopyFirst`), which is what keeps
  `NothingLost` inductive over a crash. `ListInv` says of a list that it loads
  each name it still has to, or that the name was removed.

**SchedulerProofs** has the scheduler's two parts of `MCPlayback`.

- TimedScheduler: for any clock, queue, offsets and timeout, an alarm is always
  the head's (`AlarmIsHeads`), the watchdog is late enough (`WatchdogIsLate`),
  and Playout is implemented. `TimedInv` says it place by place. A flag that is
  set while no alarm is armed comes from `add_alarm_at` firing at once, and is
  read before the next deadline is computed (`FlagInv`); an alarm is cancelled,
  and its flag cleared after that, before another event becomes the head
  (`AlarmInv`); in between the deadline is the head's (`HeadInv`). `ClockInv`
  orders the times that the watchdog compares. The assumption is
  `TimeAssumption`: the clock itself does not wrap. The refinement has one
  hypothesis more, `NoWrap`: no offset reaches a deadline beyond 64 bits (the
  first deviation of section 3 is what happens without it).
- LatenessMetrics: for a log of any size, any width of the lateness and any gaps,
  PLAY_METRICS describes its run (`MetricsDescribeRun`). The rank is the nearest
  rank and in the array, the clamp keeps the sign and everything in range, and a
  lateness survives the unsigned form on the wire. The insertion sort is
  described by how many samples each value is not below (`Orders`): a sorted array
  is not above v exactly at the places up to that number. One insertion keeps this
  (`OrdersNext`), so that the array after the last one is sorted and holds the
  samples that were put in (`SampleSort`), and a percentile of it is a nearest rank
  at once (`PercentileIs`). `MetricsInv` says that while a run lasts the log holds
  its first dispatches in their order, and the totals all of them; the array is
  sorted when the run ends, so what an earlier run left in it is overwritten
  before it can be read. The assumption is `MetricsAssumption`.

**UartProofs** has the rings and the frames of the Pico's receive path, and the
Zero's decoder.

- Both rings are BoundedFifos (`RingsKept`), for any capacity and any width of
  the counters. A counter that wraps at a multiple of the capacity names the same
  place as one that never wraps (`SamePlace`), and places less than a capacity
  apart are different (`LessAdded`); so the difference of the counters, narrowed
  to their width, is what is in the ring. The assumption is `WrapAssumption`: the
  counters' range is a multiple of the capacity and larger than it, as for 512 in
  2^16 and 8 in 2^8.
- For any frames and any noise, what is delivered was sent, in that order, each
  command once (`DeliveredInOrder`); and a command that does not arrive is
  noticed (`CommandsAccountedFor`). Parser, ring and wire, one behind the other,
  are the `Way` of a byte: a part of what was sent, in order, which starts after
  the last command told from it (`LineInv`). Without a latched fault only noise
  has taken bytes (`Present`). The second theorem has one hypothesis,
  `LightNoise`: noise touches fewer bytes than the shortest frame has. It is
  needed: the link does not number its frames, so one that noise swallows whole
  leaves no trace on the Pico. The assumption is `LineAssumption`.
- A damaged or lost version costs the frame it is in and no other
  (`DamageCostsOneFrame`), for frames of any payload and any CRC, of which only
  the damaged one must hold no second start byte. This needs to know what a parser that has lost its
  place can make of the bytes that follow. `DamageInv` says it: every frame that
  was not told has its first byte on the way, and behind it all the others but
  for a version that noise took (`Reached`, `Followed`); a touched byte is that
  version and nothing else (`Touched`); and what the parser holds are the first
  bytes of one frame (`Candidate`). So a candidate fails only when it belongs to
  the hurt frame (`Verdict`), what is left of that frame is skipped byte by byte,
  since none of it, CRC included, looks like a start (`LooksPlain`), and the next frame begins with an empty
  parser. At rest the parser's candidate is shorter than its frame, hence not a
  whole one. The assumption is `ScriptAssumption`: the encoder refuses a payload
  above the maximum (`uart_protocol.py`).
- The Zero's decoder keeps its promises (`FramesAreDecoded`) for any frames, any
  noise and chunks of any size. A turn of the loop of `feed` that does not wait
  for more bytes does the same with more of them behind (`TurnOfMore`), and the
  first turn makes no difference to the last (`DecodeTurn`); so decoding a chunk
  and then another is decoding both at once (`DecodeMore`), and `DecoderInv` says
  that the decoder is where it would be, fed everything at once. It then suffices
  that each turn keeps what is claimed (`DecodeKeeps`): a frame as it was sent,
  anywhere in the buffer, is taken or still there (`TurnSpares`: a candidate that
  fails costs one byte, and the one that is taken is a frame, so it overlaps no
  other); the frames that are taken are in order (`TurnInLine`, with the argument
  for the Pico's parser); and on a quiet line the buffer starts with a frame that
  is never rejected (`TidyTurn`), so that what waits is not whole
  (`NothingWhole`). The assumption is `SequenceAssumption`: a payload is a
  sequence of bytes and the Pico's encoder refuses one above the maximum.

**SequenceLemmas** is what the proofs about streams share: what three buffers
hold, one behind the other, when an item moves on or some are lost; induction
over the naturals as a statement about sets (`SetInduction`, `RecursionExists`),
which the provers take where the library's theorems with an operator as a
parameter cannot be instantiated; and what a fold of a sequence is, step by step,
when its operation is given as a function (`FoldExists`).

Checked by TLC only:

- All liveness (`Punctual`, `SilenceEndsRun`, `ReleaseIsSent`, `StreamEnds`,
  `StopEndsSession`, `SessionEnds`): fairness is out of its reach.

## 5. Not modelled, and the plan

Not modelled because they keep no state, or are not part of the shipped program:
USB descriptors and board configuration (constant tables), the validation of a
boot report (a report is a model value, well-formed or not), the bit layout of
payload fields and the CRC polynomial, the firmware's test builds, argument
parsing and output of the command line, routing and the status push of the web
API, the web page, the measurement tools. `PicoTransport.queue_events` is called
by tests only. `PROJECT.json` has a row for each part.

Every safety property of a run is a theorem. Nothing else is planned that the
prover can reach.
