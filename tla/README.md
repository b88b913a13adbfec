# mt32-pi: a verification development

TLA+ models of the firmware in `src/` (mt32-pi, a bare-metal MIDI synthesizer for
the Raspberry Pi), the TLC configurations that check them and TLAPS proofs about
them. `PROJECT.json` lists the runs, the seeded faults each property detects, the
source lines each definition models, the hazards and the theorems.

## The system

One `CMT32Pi` object (`src/src/mt32pi.cpp`) runs on three cores without an
operating system. Circle, the bare-metal library below it, is not in the
repository and is modelled as its callers use it.

| Component | State | Operations | Talks to |
|---|---|---|---|
| Core tasks (`mt32pi.cpp`) | `m_bRunning`, `m_bPowerSaveRequested`, parked and done flags | `MainTask` (core 0), `UITask` (1), `AudioTask` (2), `ParkCurrentCore`, `StopTasks` | each other, by flags and SEV/WFE |
| Power (`power.cpp`) | `m_State`, last activity, throttling bits | `Update`, `Awaken` and the hooks `CMT32Pi` overrides | core tasks, sound device, UI |
| User interface (`lcd/ui.cpp`) | `m_State`, message and its time, scrolling | `Update` on core 1; `Show...`, `Enter/ExitPowerSavingMode` on core 0 and in interrupts | LCD drivers |
| Ring buffers (`ringbuffer.h`) | pointers and slots under a spin lock | `Enqueue`, `Dequeue` | interrupts and core 1 to core 0 |
| MIDI parser (`midiparser.cpp`) | state, message buffer, length, running status | `ParseMIDIBytes` | every MIDI source; calls `OnShortMessage`, `OnSysExMessage` |
| MIDI input (`mt32pi.cpp`) | receive buffer, deferred SoundFont switch | `UpdateMIDI`, `PurgeMIDIBuffers`, `SwitchSoundFont`, the IRQ handler | parser, synths, network tasks |
| Synths (`synth/*.cpp`), ROM and SoundFont managers, MIDI monitor | current ROM set or SoundFont, lock, levels | messages, render, switch, scan | core 0 and core 2, under a lock |
| MiSTer control (`control/mister.cpp`) | last status of either side | `Update` on core 1 | I2C, event queue |
| Buttons, encoder (`control/*.cpp`) | debounce state, deltas | timer interrupt, `Update` | event queue |
| Network (`net/*.cpp`) | AppleMIDI session, FTP connection, UDP socket | cooperative tasks on core 0 | parser, file system |
| Zone allocator (`zoneallocator.cpp`) | circular list of blocks | `Alloc`, `Realloc`, `Free`, `FreeTag` | FluidSynth |
| Configuration, boot, pisound, LCD drivers, scripts, build | | | |

What is hard here: three cores and interrupts share flags and small objects
without locks; a power transition is a protocol of all three cores and a sound
device that stops when it likes; the parser is re-entered from its own callback;
queues are bounded and drop; the network and MiSTer protocols lose and repeat.

What makes the components correct: the ring buffer is an atomic FIFO; the clock is
lowered only while nothing depends on it, and wake-ups and shutdown reach every
core; the parser reports what a MIDI stream says, whatever illegal bytes it holds;
a SoundFont switch plays nothing stale and loses nothing else; the two sides of the
MiSTer exchange converge; the heap's blocks tile its memory; a session or a
connection ends in the state it began in.

## Modules

| Module | Models |
|---|---|
| `BoundedFifo` | what a ring buffer promises: a bounded FIFO with atomic block calls |
| `RingBuffer`, `MCRingBuffer` | `CRingBuffer`, one step for each turn of the copying loops; refines `BoundedFifo` |
| `RingBufferProofs` | type correctness, the inductive invariant, the refinement |
| `PowerSaving` | the three task loops, `ParkCurrentCore`, `StopTasks`, `CPower`, the part of `CUserInterface` parking depends on, the sound device |
| `PowerSavingProofs` | type correctness, the protocol's inductive invariant, its consequences |
| `MidiStream` | the MIDI protocol, in terms of a status in effect and its data bytes |
| `MidiParser` | `CMIDIParser`, each function an operator on the parser's record; refines `MidiStream` |
| `MidiInput`, `MCMidiInput` | receive buffer, parser, UDP task and SoundFont switch put together; takes its parser from `MidiParser` |
| `MidiInputProofs` | late notes are discarded, nothing is invented, no note-off is lost |
| `RotaryEncoder` | `CRotaryEncoder`: what movements of the pins count, as operators |
| `Controls` | buttons and encoder: the sampling interrupt, and `CControl::Update` step by step; extends `RotaryEncoder` |
| `RomManager` | `CROMManager`: which ROM images make a set, as operators |
| `MisterControl` | `CMisterControl` and the polls of the UI task; extends `Controls`, whose event queue it shares |
| `Selection`, `MCSelection` | the main task's events, the synths' switches, SysEx and USB disks, put together with the controls and MiSTer |
| `SelectionProofs` | presses are reported once, detents count once; what is to hear is what counts as selected; the types of controls, MiSTer and selection |
| `Heap` | what a heap promises: disjoint regions of at least the size asked for |
| `ZoneAllocator` | `CZoneAllocator`: the ring of blocks, the search and walk turn by turn; refines `Heap` |
| `ZoneAllocatorProofs` | the list's invariant, Alloc's search, the refinement |
| `MidiSession` | what an AppleMIDI participant promises: one session at a time |
| `AppleMidi`, `MCAppleMidi` | `CAppleMIDIParticipant`; refines `MidiSession` |
| `AppleMidiProofs` | the session invariant, the refinement, answered invitations, delivered commands |
| `FileService` | an FTP session without its replies, sockets and path syntax |
| `FtpServer`, `MCFtpServer` | `CFTPDaemon` and `CFTPWorker`; refines `FileService` |
| `FtpServerProofs` | one final reply per command, uploads complete, the refinement |
| `UserInterface` | `CUserInterface` between core 0, which asks, and the turns of core 1 |
| `MidiMonitor` | `CMIDIMonitor` and the percussion mask, between core 0's messages and core 1's envelopes |
| `MidiDisplay`, `MCMidiDisplay` | `MidiParser`, `UserInterface` and `MidiMonitor`: what MIDI bytes do to the display |
| `MidiDisplayProofs` | the parser keeps its buffer well and implements `MidiStream`; the invariants of monitor and user interface and what follows from them; the types of all three |

### How state and actions correspond to the code

**RingBuffer.** `m_nInPtr`, `m_nOutPtr` and `m_Data` are the members. A client
calls (`Enqueue`, `Dequeue`), takes `m_Lock` (`Acquire`), copies an item per step
(`EnqueueOne`, `DequeueOne`) and releases the lock as it returns. The overloads
for one item are blocks of length 1. `returned` is a history variable. In the
refinement mapping (`Committed`) a block being copied in does not count yet and
one being copied out still does, so a call takes effect when it releases the lock.

**PowerSaving.** `pc[c]` is a core's place between two accesses to shared state;
flags are written and announced by SEV in one step (the `DataMemBarrier` and
`SendEvent` that follow each assignment), and everything a function reads from
another core in one expression is read in one step. `event` is the event register:
SEV sets every core's, WFE clears its own and blocks while it is clear, and
`SpuriousEvent` allows WFE to return for reasons of its own. `Awaken` stands for
every call of `CPower::Awaken` in `MainTask`'s turn. All messages, images and SysEx
displays are one UI state, `"Message"`; the spinner, which does not time out by
itself, is one whose `UITimeout` has not come. `ExitSound` lets `Start` be refused
while a `Cancel` is still taking effect, since the code ignores its result. The
deferred SoundFont switch's `Awaken`, which comes after `CPower::Update`, is taken
at the next turn. `TimeoutElapses` requires that no core is still on its way out of
the last power saving: the timeout is one second at least, leaving
`ParkCurrentCore` takes microseconds.

**MidiParser.** The record `parser` holds the members and `calls`, the callbacks
made for the last byte; one step is one turn of the loop in `ParseMIDIBytes`.
Bytes are numbers, because the parser compares them. What the callbacks do is left
to `MidiInput`.

**MidiInput.** `calls` is the stack of `ParseMIDIBytes` activations with what is
left of their buffers; `pc` is `MainTask`'s place in its turn, or in
`SwitchSoundFont`. An interrupt (`Receive`) and a datagram (`DatagramArrives`) may
come at any step. The receive buffer is `BoundedFifo`'s queue, which `RingBuffer`
is proved to implement. Each byte carries, as history, whether a switch that
succeeds was under way when it came. Whether a switch will succeed is chosen when it
starts, because nothing depends on it until it ends; a switch to the current
SoundFont or to a missing one always fails. `torn` records the three ways in which
the code itself tears a message: a datagram parsed in the middle of another
source's message, a purge that overtakes the rest of the call it interrupted, and
the reset after a purge that left a message half received.

**Controls, MisterControl, Selection.** One state shared by the main task (`mpc`),
the UI task (`upc`), the button interrupt and the users of the Pi and of MiSTer.
`CControl::Update` takes a step for each read of what the interrupt writes;
`MisterControl` one for each I2C transfer, with `SystemStatus` read at the start of
a poll, as `UITask` does. What a poll writes back overwrites `register`, which
MiSTer's user may have changed since it was read. `m_EventQueue` is bounded and
drops, like the ring buffer it is. A repeated button event carries in `Type` whatever
the stack held (`control.cpp:99`); `setup.repeats` names the values allowed, and
`Overlaid` what the members of the union read as then. The time of repeats and of the
deferred switch is a choice (`TimePasses`). Switching a synth, a ROM set or a SoundFont
is one step of the main task, because nothing else of this model reads what it changes
meanwhile; `MidiInput` has the steps of a SoundFont switch. At the start each synth may fail to
come up (`InitMT32Synth`, `InitSoundFontSynth`): for want of files, or because mt32emu or
FluidSynth does not open what it is given, which is a choice of `setup.opens`. With neither of
them the firmware stops, so there is no such state. A later switch of ROM sets opens within an
assertion (`mt32synth.cpp:248`), so it does not fail here. When the
configured ROM set is missing, `GetROMSet` takes the first control ROM, even if only the
CM-32L's set is complete; the synth is then opened without a PCM ROM (`WithoutPCM`, the set-up
`HalfASet`), where `mt32-pi.cfg:254` promises the first available set. `OSD` and
`ResetHangingNotes` are MiSTer's side, which is not in the repository, as the code's
comments describe it. `usbFiles` come and go; a disk that cannot be mounted counts as
attached.

**ZoneAllocator.** `heap` maps the address of a block to its header, in units of 16
bytes; `Main` is `m_MainBlock`. `Alloc` and `FreeTag` take a step per turn of their
loops, `Free` and the branches of `Realloc` one step each; the allocator is called by
one task at a time, so these steps only show the order, not interleavings. `Realloc`
that moves goes through `Alloc`'s search with `call.pPtr` set. `lost` counts units
that no block accounts for. `smashed` becomes true when a block is expanded in place
and less than a header is left of the next one: from there on the code's memory is
not a list any more and the model stops.

**AppleMidi.** `control` and `midi` are what `ReceiveFrom` left in the two buffers.
The control buffer keeps its packet when the next result is negative, and the code
parses it again: `control.packet` stays. The tokens and the SSRC of an initiator are
one `id`. A turn of `Run` is `Receive`, one handler, `Yield`; packets arrive by choice
in `Receive`, so any may be lost, repeated, delayed or forged. The clock is kept as the
time since `m_nLastSyncTime` and `m_nLastFeedbackTime` and moves between turns. The
command section is parsed byte by byte, one command per step, as the code does.
`Lists` are the command lists a sender may form, with what they mean. Among them are lists that
end within a delta time or a command, and the segment `F7 F0`, of which the parser counts no
byte. The length that is left is a `u16`, which then wraps (`applemidi.cpp:422`, `429`), and the
loop goes on behind the list (`PassEnd`). What is there depends on what earlier packets left in
the buffer: `Leftovers` are bytes that may be handed on before the length happens to come to
zero (`ReadBehind`), if it ever does.

**FtpServer.** A command is received and answered in one step, because the tasks
are cooperative and the handler waits for nobody, except for data connections and
transfers. Paths are sequences of names, `:` and `/`: `FTPPathToFatFsPath` and its
inverse translate between the two notations and drop repeated and trailing slashes, as the
code does. Of slashes alone nothing is left, and the code then looks at the byte before its
buffer (`ftpworker.cpp:1158`). Depending on that byte the path is `:`, which is on no volume,
or empty; of all commands only `CWD` gets anywhere with an empty path, and may do either.
`Resolved` and the `May...` operators are FatFs, which is external: where it permits
an operation it may still fail. `chunks` are what is left to send of a file or a list,
or what was received. `lost` says that the client has closed the control connection.

**UserInterface.** `PowerSaving` keeps of the display what parking depends on; this
module has the rest. A call (`ShowSystemMessage`, `ShowSysExText`, ...) sets out in
`pending` what it stores, and `Write` lets the stores reach core 1 one by one in any
order, because no barrier or lock orders them. A turn of `Update` takes a step for each
read of the time and for each decision that follows (`ReadScrollTime`, `UpdateScroll`,
`ReadStateTime`, `Timeout`, ...). Times are ages, up to `Old`, from which on nothing
differs; `Since` is the unsigned difference, which wraps for a time newer than the turn's
`nTicks`. A text is its length. All calls are made on core 0; the status that
`UITask` itself shows as it starts is one of them here. `use` says which calls occur in a
behaviour. `age`, `raced` and `drawn` are history: the age of the latest call, whether it
overlapped a turn, and whether a turn has drawn what it asked for.

**MidiMonitor.** `EnvelopePhase`, the two times and `bDamperFlag` are the members of
`TNoteState`; a message's stores to a note (`unwritten`) arrive in any order here too, and
core 1 takes a step to read the clock, one to compute and one to end an envelope, so that
a message may fall between (`crossed`). `nDamper` and `m_nPercussionMask` are sets of
channels. Of GM, GS and XG there are the resets (`ResetMIDIMonitor`) and Use For Rhythm
Part. `sends` says what is played and sent in a behaviour, `key` which keys are held, and
`excused` for which notes the code does not follow them.

`Notes` has an element for each of the notes 0 to 126 (`NoteCount`), but the parser reports
note 127 as well, and then the code writes where a note behind the array would be
(`NoteOnBehind`, `NoteOffBehind`): a channel's state is 4 bytes and 127 notes of 16, so that is
the state of the next channel. The phase goes over its volume, expression, pan and pedal, whose
byte becomes 0; `nNoteOnTime` over the phase of its note 0, which may be anything then;
`nNoteOffTime` over that note's `nNoteOnTime`; velocity and flag over the two low bytes of
its `nNoteOffTime`, which moves by at most `LowTicks`, forwards or backwards. `Ages` below 0 are
times that are yet to come. The flag that a note-off reads is a byte of that time, so it may be
set or not. Of this the model has everything but volume, expression and pan, which belong to
the levels: the next channel's volume becomes 1 or 2 and its expression 0, so that its meter stays
dark until these are set again. Behind the last channel is `m_PeakLevels`, which is not
modelled.

**MidiDisplay.** The parser, the display and the monitor share no variable. What the
parser reports, and what else calls the other two, is to them a call that may come at any
time with any contents, so that the composition adds no behaviour to its parts; the
product of their states is out of reach. In each behaviour `part` is at work and the other
two rest. The modules stay apart so that a definition can be found beside its source file.

## Runs

Times are for two workers.

| Run | States | What it shows |
|---|---|---|
| `ringbuffer` | 624,000, 50 s | `FifoSpec`: the copying loops implement the atomic FIFO. `RingInv`: lock exclusion, no unwritten slot handed out, the half-done call accounted for. |
| `powersave` | 181,000, 100 s | `LowClockQuiesced`, `ParkedDisplayDark`, `PowerInv`; `NoLostWakeup`, `EnteringSettles`, `ShutdownCompletes` under fairness. |
| `powersave_silence` | violation | a message on the LCD stops the transition for good |
| `powersave_display` | violation | the display stays in power saving after activity |
| `midiparser` | 535,000, 110 s | Parser: `StreamSpec`, it implements `MidiStream`; `BufferInv`, what the buffer holds in each state. Display: `DrawnWithin`, what is drawn begins within its text and is lit; `ShownItsTime`, what no turn came across scrolls to its end and stays its time; `DisplaySettles` under fairness. Monitor: `FollowsKeys`, meters show the keys that are down; `EndsWhenOver`, no envelope is cut; both with note 127 written behind its channel. |
| `midiparser_tune` | violation | a tune request leaves its byte behind as running status |
| `midi_input` | 3,100,000, 75 s | `LateNotesDiscarded`, `NoteOffsKept`, `OnlyWhatWasSent` over nested and deferred SoundFont switches |
| `midi_input_network` | violation | note-ons that wait in a UDP socket during a switch are played |
| `zone` | 449,000, 20 s | `HeapSpec`: the allocator implements `Heap`. `ZoneInv`: the blocks are a ring in address order that tiles the heap. `Accounted`: what memory is lost. `AllocFailsOnlyWhenFull`: the next-fit search misses nothing. |
| `applemidi` | 626,000, 150 s | `SessionSpec`: one session, held and ended by its initiator. `CommandsDelivered`: a well-formed list is handed on in full and its end not run past. `InvitationsAnswered`; `SessionEnds` under fairness. |
| `ftp` | 748,000, 100 s | `ServiceSpec`: login, paths and changes to the tree. `OneFinalReply`, `StoreComplete`; `SlotFreed` under fairness. |
| `control` | 351,000, 110 s | `ReportedOnce`, `DetentsCounted`, `AsSelected`; `Honoured`, `Converges`, `RepeatsEnd` under fairness. |

Bounds, and why they are enough. *Ring buffer*: 4 slots and blocks of up to 2 let a
block fill the buffer exactly, be cut short and straddle the end; two producers and a
consumer contend for the lock; the proof covers every size. *Power saving*: no bound,
the state is finite. *Parser*: one byte of every class the code tells apart, each
real-time kind, and a buffer of 5 so that a SysEx message overflows; the proof covers
every size and every set of bytes without `F6`. *MIDI input*: three messages are the
fewest with a switch inside the purge of a switch and something to lose; six bytes of
buffer let an overrun cut a packet short; one datagram suffices to come between two
packets. Packets come whole, as the USB driver delivers them; serial MIDI, which may
split a message anywhere, is not modelled.

*Zone*: 12 units of 16 bytes and requests that pad to 3, 4 and 5 units give up to four
blocks, remainders of one unit and of none, and fragmentation that makes the search go
round. *AppleMIDI*: three programs of which one restarts with a new token, two of them
on one host; every packet kind from every one of them; lists with each kind of command,
running status across real-time bytes, and short and long delta times; an empty list, one that
ends within a delta time, one within a command, one with `F7 F0`, and a data byte that no status
is running for. Timeouts of 0
and 1 ticks separate "not yet" from "too late". *FTP*: one directory, one level below
it, one volume that is there and one that is not; absolute and relative paths, doubled
and trailing slashes, slashes alone; uploads of one chunk; all three attempts to connect. *Control*:
ten set-ups (`MCSetups`), each with one or two sources of choices, because the product
of all is out of reach: buttons that repeat, three encoders, a USB disk with SysEx and
with buttons, MiSTer alone, with bus failures, and with a button, and half a ROM set, with synths that may
fail to open. Two choices are
enough for one to overtake another; a queue of 5 holds the most that one poll adds, and
overflows with one event left over; six transitions take an encoder past a detent with
room for jiggling. *User interface*: a display of one
character, texts of 1 and 3, so that one fits and one scrolls twice, first after the delay
and then at the rate; SysEx texts that fit the buffer and that overflow it; `MCUses` splits
the calls into three groups that overtake each other. A turn or a call may last a tick,
which is what it takes for a time to be newer than `nTicks`; messages stay two ticks,
because three seconds are longer than a turn. *MIDI monitor*: one melodic key, which may
become a drum, and one drum, since notes only meet through messages for all of them; note 127 of
the channel before the melodic one, which is the only other way in which notes meet, with that
channel's pedal; a release that is over within a tick, a tick within a computation, and a time
that is one tick off; `MCSends` splits the messages into those about one channel, those about
all, and those written behind a channel.

What these properties except, each for something the code does:

| Exception | In | Why |
|---|---|---|
| `smashed` | `ZoneInv`, `Accounted`, `HeapSpec` | growth in place writes a header over the next block (`zoneallocator.cpp:211`) |
| `lost` | `Accounted` | a shrink that leaves one unit loses it (`zoneallocator.cpp:305`) |
| `WellFormed` | `CommandsDelivered` | the middle of a segmented SysEx, and a cancelled one, are handed on with wrong bytes (`applemidi.cpp:264`, `281`); the end of a list that ends within a delta time or a command is run past (`applemidi.cpp:422`, `429`) |
| `pc = "behind"` | `SessionEnds` | behind such a list the loop may go on for ever |
| packets on the MIDI port | `SessionEnds` | they postpone the timeout of a half-made session (`applemidi.cpp:672`) |
| `failures` | `OneFinalReply` | a reply for each failed connect, and one more (`ftpworker.cpp:270`) |
| `Accepting` | `SlotFreed` | a passive `Accept` waits for ever (`ftpworker.cpp:281`) |
| `upload = "harmed"` | `StoreComplete` | a broken connection reads as the end, a short `f_write` is not noticed (`ftpworker.cpp:730`, `740`) |
| `refused`, `unseen` | `Converges` | MiSTer asks for what is not there or the queue is full; a change taken back before a poll is not seen (`mister.cpp:78`) |
| `loaded = Nothing` | `AsSelected` | a failed load leaves no SoundFont and the old index, and asking for that one again is refused (`soundfontsynth.cpp:371`) |
| `choice = NoChoice` | `Honoured` | a repeat of a held button carries an unset type and may read as another choice (`control.cpp:99`); of two choices made at once either may win |
| `WithoutPCM` | `AsSelected` | any ROM set that has a control ROM is taken when the CM-32L's set is complete (`rommanager.cpp:178`) |
| `rescanned` | `AsSelected` | the list is scanned again, the index stays (`mt32pi.cpp:895`) |
| `raced` | `ShownItsTime`, `DrawnWithin` | a call overlaps a turn of the display: the message may vanish at once (`ui.cpp:86`) |
| `Scrolls` | `DrawnWithin` | the power-saving message does not scroll, but is drawn from the offset that the message before it had reached (`ui.cpp:215`) |
| parked | `DisplaySettles` | a parked core draws nothing until power saving ends (`mt32pi.cpp:561`) |
| `crossed` | `EndsWhenOver` | a note-on overlaps the end of the note's last envelope (`midimonitor.cpp:285`) |
| `excused` | `FollowsKeys` | drums are not held; a pedal or mask change on held keys; a mode message of one channel takes down all (`midimonitor.cpp:223`); System Reset, whose case is never reached (`midimonitor.cpp:91`); notes that Reset All Controllers leaves flagged (`midimonitor.cpp:163`); an overtaken envelope; note 127, note 0 of the channel behind it, and what that channel's pedal held (`midimonitor.h:42`) |
| `overlaid` | `EndsWhenOver` | velocity and flag of note 127 lie in the time at which note 0 of the next channel was released (`midimonitor.cpp:75`, `76`) |
| `torn` | `RepeatsEnd` | the release falls between two reads in `Update` and is never seen (`control.cpp:85`) |

Violation runs check what a document or a comment of the repository says, and
`PROJECT.json` quotes it. The two of `powersave` use the same fairness as the passing
run.

`OnlyWhatWasSent` and `NoteOffsKept` are conditional on `~overrun /\ ~torn`, and
say so on purpose: without `torn`, TLC shows within seconds that a SysEx message is put
together from the halves of two, because the purge parses newer bytes before
older ones (`mt32pi.cpp:1251`, re-entered from `midiparser.cpp:102`). No document
promises otherwise, so this is listed as a hazard.

### Fairness

`PowerSaving` assumes weak fairness of each core (a core executes its program; a step
that waits is not enabled), weak fairness of the sound device's stopping after
`Cancel`, and strong fairness of `UITimeout`: the UI core looks again and again, and
what it shows has at some look been shown long enough. Nothing is assumed of activity,
messages, shutdown or spurious events. `AppleMidi` assumes weak fairness of
the task's turns, since the scheduler runs it again after every yield, and strong
fairness of the clock, which moves between turns; nothing of `ReadBehind`, since nothing in the
code makes the loop behind a list end. `FtpServer` assumes weak fairness of
the daemon and of the worker's own steps: a connect or a send comes to an end one way or
the other, and the receive gives up after 20 s; nothing is assumed of the client, nor of
`Accept`, which has no timeout. `Selection` assumes weak fairness of the main task, of
the UI task, of the interrupt and of `TimePasses`, all of which run for ever; nothing of
the users. `MidiDisplay` assumes weak fairness of core 0's stores and of core 1's turns of
the display, both straight-line code, and strong fairness of the clock; nothing of what is
asked to be shown, which `DisplaySettles` takes to stop. The other modules have no liveness
properties.

## Proofs

All by TLAPS, from the named assumptions of the modules and nothing else.

* **Ring buffer** (any power-of-two size, any clients, any block bound).
  `TypeOK /\ RingInv` is inductive. `RingInv` needs all four parts: without
  `OneInside` two loops may interleave, and without `BlockAtEnd` and `TakenFits` the
  uncommitted part of the buffer is unknown when the lock is released.
  `Refinement` shows `Spec => FifoSpec`: calling, acquiring and copying stutter,
  returning is the atomic call. Lemmas about `(i + 1) % N` and `Contents` carry the
  arithmetic.
* **Power saving** (every configuration and interleaving). `PowerInv` relates each
  core's place to the flags others read, the request to `CPower`'s state, and keeps
  what `IsReadyForPowerSavingMode` saw true until it is acted on:
  `LowClockQuiesced` alone is not inductive, since nothing in it says that a parked
  core stays parked. `LowClockIsQuiet` and `ParkedIsDark` follow.
* **MIDI parser** (in `MidiDisplayProofs`; any buffer of three bytes or more, any bytes without `F6`).
  `BufferKept`: the length never leaves the buffer and the buffer holds a status and
  its data. On it rests `StreamImplemented`, `Spec => StreamSpec`: the state between two
  messages or within one (`Between`, `Within`) is what the stream sees of the parser, each
  function of the class has a lemma that says which of the two it leaves, with which
  status, data and callbacks, and each case of a byte is then one action of `MidiStream`.
  With `F6` the invariant and the refinement are false (`midiparser_tune`).
* **MIDI input** (any buffer of three bytes or more, any size of the queue, any SoundFonts,
  and any messages that are what `IsMessage` says: short, SysEx or realtime, in one or two
  USB packets or one datagram, so that no running status and no truncated message is sent;
  what tears a message is then the code). Three inductive invariants, each on top of the
  one before. `DiscardInv` is behind `LateNotesDiscarded`: outside of a purge no byte
  waits in a call or in the queue that came during a switch, so the one call that plays
  notes has none, and what the parser holds of a message came as `arrived` says.
  `StreamInv` is behind `OnlyWhatWasSent`, which speaks of a message only when it is
  complete: what is left to parse, in the order in which it will be, goes on where the
  parser is (`Following`), between two messages or so many bytes into one. The streams of
  whole messages (`Whole`) are the smallest set that has the empty one and each with a
  message in front; so no recursion is needed, and that messages may also be put behind
  follows from its being the smallest. `BalanceInv` is behind `NoteOffsKept`: a note-off is
  played, begun, or at one place in the queue, the socket or the innermost call, and the
  lemmas about `Places` say how their number changes when data is joined, taken apart or
  handed on. Only the first byte of a message can be a note-off, which is why counting bytes
  counts messages. Both hold only of streams that are intact: a purge that finds the
  calls it interrupted unfinished tears a message, so outer calls have nothing left.
* **AppleMIDI** (any initiators, ports and tokens, any timeouts, any command lists, malformed
  ones included, any bytes behind them, and whatever packets come in whatever order). `SessionInv` is inductive: a session in
  progress has a real initiator, and commands are only looked at while connected. The
  refinement needs the first part, since `MidiSession` only ends the session of a member.
  `Refinement` shows `Spec => SessionSpec`: of a turn only accepting, ending, timing out
  and handing on are steps of `MidiSession`, all others stutter.
  `EveryInvitationAnswered` is the action property `InvitationsAnswered`.
  `EveryCommandDelivered` is about lists of any length with any well-formed commands
  (`WellFormed`: MIDI 1.0's messages, in full, with running status or as SysEx segments,
  behind delta times). `ParseInv` says where in the list the handler is: what is left of
  the bytes is what the commands after the k-th are written with (`UpTo`), and the running
  status is the one that the next command is written behind. `DeltaSkipped` and
  `CommandParsed` say what the parser makes of one delta time and one command with anything
  behind it, and `EndNotPassed` that the two are never longer than what is left of the list,
  so that only a malformed one is run past. The library defines `FlattenSeq` by recursion; that its function exists and is
  built from the left (`FlattenSeqJoins`) is shown by an induction over a set of numbers
  (`NatInSet`), which rests on the well-foundedness of `<`.
* **MIDI monitor** (any channels, any notes of 0 to 127, any release time, whatever is sent). `KeysInv`
  says what `FollowsKeys` says of the phases once the stores under way have arrived
  (`Phase`), and adds what makes it inductive: a note that sounds without a key is
  flagged, a flagged note's pedal is down, no drum counts as held, and a note that core 1
  computes is not held unless a message came across. `EnvelopeInv` adds that its clock is
  not older than the note's time, so that the unsigned difference does not wrap. Both speak of
  the notes that `Notes` has and allow for what note 127 does to the note behind it, which is
  excused from then on (`NoteOnBehindKeeps`, `NoteOffBehindKeeps`): only its own next note-on
  makes it follow its key again, and only its own next release its time.
* **User interface** (any texts, width, times and calls). `TextInv` holds of the members
  once core 0's stores have arrived (`After`), since `DrawnWithin` says nothing of a call
  half done; it rests on a turn that no call raced with finding none half done.
  `ShownItsTime` is about a whole history of turns, and `TimeInv` is what it comes to in
  one state: unless there was a race, the call is at least as long ago as the steps of
  scrolling so far must have taken (`Spent`) and the time since the latest of them, even
  while a turn holds a difference that it has read before; and what no turn has drawn yet is
  at most a turn older than the turn's `nTicks`, so that its time cannot be over. That needs
  `MaxLag` to be less than the display times (`TimeAssumption`): a turn or a call does not
  take three seconds. That products of steps and rates grow is the lemma `StepsFacts`.
* **Types of the display** (`DisplayTypeCorrect`, without `F6` as above). `DisplayTypeOK` is
  inductive once the stores under way are typed as well (`Writable`, and the phases of
  notes in `MonitorTypeInv`). Of the texts it is assumed that one is the longest, as there
  are finitely many.
* **Selection** (any setups, ROMs, SoundFonts, requests and failures). `ReportsInv` says of
  each button that `Update` may still find a press of that there is one to report; that it
  does not find it twice rests on each button being in the list once (`ButtonsAssumption`:
  `simplebuttons.cpp` maps each pin to a bit of its own). `DetentsCounted` speaks of a knob
  at a detent; `DetentInv` says what is between two. The transitions since the last detent
  are either all remembered and none is counted, or, with a `Half` encoder only, jiggling
  has made it count early and nothing is remembered; a `Quarter` counts every transition
  and a `Full` one only at the detent. That needs nothing but that an encoder is of a type
  the configuration knows (`EncoderAssumption`). `AsSelected` is inductive by itself. `Fits`
  says what `GetROMSet` makes of the ROMs, each operator of `RomManager` has a lemma, and
  only what opens a synth or scans a list touches the two. `SelectionTypeCorrect` is about
  `TypeOK`, which says more than types: the event queue does not overflow, however many
  events a poll or a turn of `Update` has, and the current synth is there. `TypeInv` makes it
  inductive: an event has the numbers its type allows, the event at work is there, the bytes of
  MiSTer's status stay bytes, and no step loses a synth that has been created. It
  assumes finitely many choices, that MiSTer's menu writes bytes (`MisterAssumption`), that
  what is left over in a repeat event is one of the event types (`UserAssumption`), and that a
  SysEx message asks for a number of seven bits (`SelectionAssumption`).
* **Zone allocator** (any size of the heap, any requests and any order of calls).
  `Followed`, `Joined` and `Tagged`, which all changes of the list are made of, are shown
  to keep `Sane` (`Typed`, `Linked` and `Ordered`) under the conditions their callers
  establish, each from a predicate that says field by field what they make of a list
  (`IsFollowed`, `IsJoined`, `IsSplit`); then `Freed`, `Taken` and the branches of
  `Realloc` follow from what they are put together of. `ZoneInv` is not inductive: it says
  nothing of the call in progress. `CallInv` adds that the blocks a call has found are in
  the list, the candidate large enough and the block to move in use, and that no call is in
  progress once a header is smashed. `SearchInv` says that the search has left no large
  enough block behind, in the order of the ring from `m_pCurrentBlock`; that it may skip a
  free block after a free candidate rests on `NoFreeNeighbours`. `AllocatorIsAHeap` maps
  a block in use to the region between its header and its end magic; taking a block is
  `Lend` or, in a `Realloc` that moves, `Resize`. `Accounted` is inductive given `Sane`
  and `CallInv`. The units of the heap in no block are a set, whose size is `lost`:
  joining two blocks moves the gap between them behind both, splitting a block leaves
  none, and only a `Realloc` that is left with too little for another block adds to it.
* **FTP server** (any card, commands, chunks and client, whatever breaks when).
  `OneFinalReply` only speaks of a command that is over. `ReplyInv` says what has been
  replied while it is not: nothing before it begins, and as many final replies as failed
  attempts to connect while a transfer lasts. `UploadInv` adds to `StoreComplete` that the
  file of an open upload holds the chunks received so far; `Stored` depends on nothing but
  the command and `m_CurrentPath`, which no transfer changes, so there paths stay opaque.
  `CountInv` keeps the daemon from starting a worker over one that is busy.
  `ServiceImplemented`, `Spec => ServiceSpec`, needs to know what paths name. It assumes
  that a name has no `/` and no `:` (`NameAssumption`), that volumes have names
  (`VolumeAssumption`), that a file is on a volume (`PathAssumption`), and that in what a
  client writes a name ends at a slash (`CommandAssumption`); nothing is assumed of how
  many slashes there are, or where. Names with a colon are left out because FatFs refuses
  them wherever the server hands them on. `PlaceInv` adds to the two invariants that
  `m_CurrentPath` is no volume or a path that has one, that a path is told with a reply
  only, that who is in a transfer has logged in, and that an upload goes to a file.
  Lemmas say that a path that is converted from FTP to FatFs and back, or
  that loses its last name, names what it should, with any slashes; they rest on what
  `FlattenSeq` makes of a sequence with one more in front or behind, by the
  induction over a set of numbers that AppleMIDI's lists need, too. Then each command that
  changes the path, the rename in progress or the tree is a step of `FileService`, and every
  other step a stutter.

A theorem states every invariant, every action property without fairness and every
refinement that a passing run checks. Only model-checked is liveness, which TLAPS does not
support under fairness: `NoLostWakeup`, `EnteringSettles`, `ShutdownCompletes`,
`SessionEnds`, `SlotFreed`, `Honoured`, `Converges`, `RepeatsEnd` and `DisplaySettles`.
`TypeOK` of `MidiInput`, `AppleMidi` and `FtpServer`
documents the ranges of their variables and is no property of their runs.

## Not modelled

* Parsing of the configuration, boot, LCD drivers, pisound registers, drawing, audio
  samples and logging are straight-line input or output without a protocol.
* What is drawn from the display's state, and the levels and peaks the meters show, are
  computed and forgotten. Volume, expression and pan only scale levels; the display text
  of the MT-32 changes no state that another part reads.
* Active sensing and the LED depend on real time and on nothing else; the panic path
  runs once and ends.
* Rendering under the synths' lock: whether FluidSynth may render while a SoundFont is
  loaded (`soundfontsynth.cpp:422`) is a question to FluidSynth.
* Third-party code (FluidSynth, mt32emu, FatFs, Circle) is outside the repository's own
  source; what the code relies on is modelled and marked external.

## What is left

Serial MIDI, which splits messages anywhere, in `MidiInput`; the panic path in
`PowerSaving`.
