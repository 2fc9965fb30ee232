# TLA+ models of ruuvitag-listener

ruuvitag-listener reads RuuviTag advertisements over Bluetooth LE and writes one
InfluxDB line per measurement to stdout. This directory holds TLA+ models of the
program, the TLC configurations that check them, and proofs that TLAPS checks.
Line numbers refer to `src/` of the repository (`throttle.rs` is
`src/throttle.rs`, `hci.rs` is `src/scanner/hci.rs`, and so on).

    tlc -workers 2 -config MCThrottle.cfg MCThrottle     # one run
    tlapm ThrottleProofs.tla                             # one proof module

## 1. The system

```
 controller ──HCI events──► kernel: HCI filter, BPF filter ──► reader task ─┐
   ▲  │                                                          (hci.rs)   │  bounded
   │  └─Command Complete─► start_scan (setup)                               ├─ channel ─► run_with_io ─► stdout
   └────commands──────────────┘                                             │ (capacity 100) E1/V6 filter
 BlueZ ──D-Bus signals──► event task (bluer.rs) ────────────────────────────┘            throttle, format
```

One process, one thread (`flavor = "current_thread"`, main.rs:32). The scanner's
task and the loop of `run_with_io` interleave only at `await`s. Writes are
blocking and stop both.

| Component | State it keeps | Operations | What makes it correct |
|---|---|---|---|
| Throttle (throttle.rs:22-125) | map tag → last emission, call counter | `should_emit`, `cleanup_stale` | at most one event per tag and interval; nothing is held back without cause; cleanups lose nothing that matters; the map does not leak |
| Run loop (app.rs:87-163) and exit (main.rs) | channel end, `e1_devices`, throttle | start, receive, filter, throttle, write, exit | redundant V6 frames are never written; every loss has a reason; results are dealt with; a clean exit leaves nothing behind |
| HCI setup (hci.rs:178-293, 458-726, 879-901) | two sockets, the current command and its deadline | open, bind and filter both sockets; four commands with their completions | Ok means that the controller scans with our parameters; setup always ends |
| HCI kernel filter (hci.rs:294-475) | none (a program for the kernel) | `set_bpf_ruuvi_filter` | accepts exactly the advertising reports with the id at a candidate offset |
| HCI parsing (hci.rs:728-853, scanner/mod.rs:137-151) | walk offset | header, walk over AD structures, decode dispatch | never reads outside a slice; yields what the report says |
| HCI reader task (hci.rs:894-965) | cached readiness of the socket | wait, drain, parse, send | no lost wakeup, no result lost or overtaken, sleeps when there is nothing to read |
| BlueZ backend (bluer.rs:32-122) | D-Bus session and event stream | five calls of setup; receive a signal, fetch the data, decode, send | reports are never older than their signals; the last advertisement is reported; one result per signal |
| Dispatch (scanner/mod.rs:266-276) | none | `start_scan` of either backend | both backends look the same to the run loop |
| Decoding of fields (scanner/mod.rs:153-253) | none | units, fields of V5, V6, E1 | one unit whatever the format; E1 has all that V6 has |
| Durations (throttle.rs:150-195) | none | `parse_duration` | a duration is what the documentation says |
| Line protocol (output/) | measurement name | `format` | the line reads back as what was written |
| Aliases, MAC addresses, options | read-only map | parse, look up | round trip; the last alias of a tag wins |

What is hard here: time (two clock reads in one call; the throttle's clock
against the decode timestamp), cleanup that forgets, numbers at a boundary (the
cleanup threshold, byte-sized jumps, lengths taken from the packet), a shared
controller whose completions go to everyone and name only an opcode, a bounded channel with a blocking
consumer on the same thread, a readiness flag that is cached while packets
arrive, data that is fetched after the signal about it, text that holds the
separators it is written between, and the ends of the process. `PROJECT.json` lists
each hazard at its line with the properties that cover it.

## 2. Modules

| Module | Models | Extends / instantiates |
|---|---|---|
| `RateLimiter` | abstract: time still to wait for each tag | |
| `Throttle` | throttle.rs:22-125 | `INSTANCE RateLimiter` (refinement) |
| `ScanTask` | abstract: what the run loop relies on, whichever backend scans | |
| `RunLoop` | app.rs and main.rs, from `start_scan` to the exit code | `INSTANCE Throttle`, `INSTANCE ScanTask` (both as its parts) |
| `HciSetup` | hci.rs `start_scan` up to the spawned reader, the controller, another opener | |
| `HciReader` | the spawned reader, the kernel's socket, tokio's readiness | `INSTANCE ScanTask` (refinement) |
| `BluerReader` | bluer.rs with bluetoothd | `INSTANCE ScanTask` (refinement) |
| `HciFormat` | constants of hci.rs and what filter and parser mean | |
| `HciBpf` | the BPF program and the kernel's machine | `HciFormat` |
| `HciReport` | one event from the kernel filter to the channel | `HciFormat` |
| `Durations` | `parse_duration` | |
| `Names` | MAC addresses and aliases | |
| `Readings` | the fields and units of the three decoders | |
| `LineProtocol` | `InfluxDbFormatter::format` | |
| `Texts` | one conversion of one input: a duration, an address, a line | the four above |
| `...Proofs` | proofs about the module of that name: `Throttle`, `RunLoop`, `HciSetup`, `HciReader`, `BluerReader`, `HciBpf`, `HciReport`, `Texts` | the module, `TLAPS`; `RunLoopProofs` also `INSTANCE ThrottleProofs` |
| `MC*` | instances for TLC | |

How the parts fit together: `RunLoop` takes its scanner from `ScanTask` and its
throttle from `Throttle`, action by action; `HciReader` and `BluerReader` are
shown to implement `ScanTask`, so what is shown of the loop does not depend on the
backend. What an HCI packet decodes to is `HciReport`; `HciReader` only tells apart
packets that decode, that do not, and that are no Ruuvi data.

Operators named `..._Mutant` are wrong versions of the definition after them.
Nothing uses them; each property is shown to reject one of them.

### Throttle

`last_seen` and `check_count` are the fields of the struct; `clock` is
`Instant::now()`. One call is one step: the counter, a cleanup when it is due
(`CleanupDue`, throttle.rs:80-86), a second clock read up to a delay later (line
88), the decision (`Blocked`) and the insertion. `Emit`, `Suppress` and
`CleanupPanics` are its three outcomes; `Duration * u32` panics when the product
does not fit (line 119). `lastEmit` and `lastCheck` are history: what the map
would be without cleanups, and when the check last ran. Equality of `Instant`s
in the code becomes equality of ticks.

`RateLimiter` knows no map, no counter and no cleanup: only the time each tag
still has to wait. `Throttle` implements it with
`wait[m] = Interval - (clock - last_seen[m])` for a tag that is blocked and 0
for all others.

### ScanTask, RunLoop

`ScanTask` is the promise of `start_scan`: one task, which holds at most one result
(`hand`, the argument of `tx.send(..).await`), a channel of `Capacity`, results
handed over in order, and a `Sender` that lives as long as the task.

In `RunLoop`, `pc` is where `run_with_io` is. Every iteration of the loop is one of
`ReceiveRedundant`, `ReceiveThrottled`, `ReceiveEmitted`, `ReceivePanics`,
`ReceiveError`, `RecvClosed`: the filter, the throttle and the start of the write
happen without an `await`. `write` is a state of its own because the process can
block there; nothing of the program is `Schedulable` then, only time passes.
`options` is which of `--throttle` and `--verbose` were given. `judged` is history.

### HciSetup

`OpenSockets` stands for the seven calls that open, bind and filter the sockets;
`SysCallFails` for the failure of any system call, there and later. `Script` is the
four commands; `step` is the current one. `SendCommand` starts a deadline; `ReadEvent`
takes an event while it has not passed; `SkipEvent`, `CommandOk`, `CommandTruncated`,
`CommandRefused` and `TimedOut` are the exits of `read_command_complete` and
`send_hci_command_checked`.

A command is its set, its OCF and the enable byte; a completion carries the
`Opcode` alone, which switching scanning on and off share, and `IsReply` compares
nothing else (hci.rs:551). So `start_scan` may take for the answer to its "off" the
completion of anybody's "on". A completion may end early (`EventSizes`): without an
opcode it is skipped, without a status it is an error, without the feature byte the
controller counts as one without extended advertising (`SaysExtended`).

The controller is external, modelled from the comments of hci.rs and from how the
code uses it. It executes commands in order and its completions go to every opener.
It refuses scan parameters while it scans, extended commands it does not know, and
legacy commands once it is in extended mode; it may be in that mode, or scanning,
from the start. Another program sends commands from `OtherOps` at any time. The
socket holds `QueueSize` completions and drops the rest. `confirmed` and `disturbed`
are history: the own commands that the controller executed with success, and whether
another program has sent one of `start_scan`'s commands.

### HciReader

Three actors. The kernel queues packets, drops those that find `sockbuf` full, and
raises an `edge` (epoll is edge-triggered). Tokio's `Driver` turns an edge into the
cached `ready`, but only where the single thread is free: at the two `await`s of the
task, `wait` and `send`. The task takes a guard (`Readable`), reads until a read
would block, and clears the flag (`ClearReady`); packets arrive at any moment, also
between the read and the clearing, and between the edge and the driver. Tokio keeps
a readiness that was set again since the guard was taken (`renewed`, its tick). A
read error and an end of file leave the inner loop with the flag set, as the code
does. `log` and `taken` are history.

### BluerReader

bluetoothd (external, modelled from the comments of bluer.rs and from how it is used)
knows for each device only its last advertisement. It signals every one when the
filter with `duplicate_data` is in force, otherwise perhaps not one of a known device.
`Discover` may find devices known before, in any order. The task takes a signal
(`NextDevice`) and asks for the data; `Serve` answers with what is known *then*, or
with an error for a device that was forgotten or a daemon that died. `Outcome` is
`process_device` with its caller: nothing, a measurement, or with `--verbose` an error.
Advertisements are numbered, so that a report can be compared with its signal.

### Durations, Names, Readings, LineProtocol, Texts

`Texts` is one step: an input is chosen and converted. Texts are sequences of
characters, since the properties are about single ones; a number in a line, an
address in an alias and a timestamp are one token each. `parse_duration` is trimmed,
tried suffix by suffix and multiplied modulo `Word`, or panics where overflow is
`checked` (a debug build). What a number is worth (`Value`) is a recursive function.
What a duration means is stated without the code's order of trimming and trying:
`ReadsAt` says which cuts of a text make it blanks, a number, blanks, a unit and
blanks, and `DurationExact` compares the result with every such reading. A frame has
the readings it `has`, each as the number the `ruuvi-decoders` crate returns (`raw`,
which is `Returned`, external) and as what the sensor measured (`true`); `decode`
fills the fields and converts the units.

### HciFormat, HciBpf, HciReport

A packet is a sequence of bytes. `HciBpf!Instr` is the program as
`set_bpf_ruuvi_filter` builds and patches it, jumps cut to a byte as `as u8`
does; the machine is the kernel's (external): a load outside the packet drops it.

`HciReport` follows one event: the kernel filter (as `Matches`, which `HciBpf` is
shown to compute) or no filter at all for events queued before it was attached
(hci.rs:880-882), the reader's checks, the header in either layout, one action
for each exit and step of the walk, `decode_ruuvi_data` and the delivery. Every
index that is read is compared with its slice: `escaped` collects the ones
outside. An event is a sequence of bytes with, if it is well formed, the reports a
controller put into it: `Encodes` says which bytes those are for the length, the
kind, the address (last byte first) and each structure of the first report, and is an
assumption on `Events` (`EventAssumption`). Malformed events are any bytes. A decoder of the `ruuvi-decoders` crate is external: it succeeds or fails.

## 3. Runs

| Run | Question | Bounds |
|---|---|---|
| `throttle` | Does the throttle keep its promise across cleanups, and implement `RateLimiter`? | 3 tags (symmetric), intervals 0, 2 and 3, multiplier 2, largest `Duration` 4, check every 2nd call, size limit 1, delay 0 or 1, clock to 9 |
| `run_loop` | Are V6 frames dropped, losses justified, writes spaced, clean exits complete, and is every result dealt with? | 2 tags, V6 and E1 frames and errors, intervals 1 and 2, both options or none, capacity 1, 3 results, clock to 2 |
| `run_points` (violation) | Are written points an interval apart by their own timestamps? | 2 tags, all formats, interval 2, capacity 2, 4 results, clock to 3 |
| `hci_setup` | Does setup end, are our parameters in force, and does Ok mean success of every command unless another program switches scanning? | timeout 2, 2 queued completions of 5, 6, 7 or 9 bytes, 2 commands under way when another program sends; it sends an unrelated command, legacy on and off, or extended on |
| `hci_setup_stale` (violation) | Is every command confirmed when another program switches scanning? | same, without the unrelated command |
| `hci_reader` | Is no wakeup and no result lost, is every queued packet read, and does the task sleep in the end? Does it implement `ScanTask`? | 4 packets of 3 kinds, socket buffer 2, channel 1, one read error, an end of file |
| `bluer` | Are reports fresh, one per signal, and is the last advertisement reported? Does it implement `ScanTask`? | 2 devices, 3 advertisements of 3 kinds, one device forgotten, death of bluetoothd, channel 1 |
| `hci_bpf` | Is the filter right for 14..60? | 589 packets |
| `hci_report` | Are reads inside, results right, short reports kept? | 3045 events, with and without `--verbose` |
| `hci_report_long` (violation) | Does the filter keep every Ruuvi report? | names of 1 to 60 bytes |
| `texts` | Are durations exact, addresses and lines readable, and do the formats agree? | durations of up to 5 characters over 7, 16-bit words; addresses of 2 and 3 parts; pairs of names of up to 3 characters over 5; the subsets of readings with none, one, all, all but one |
| `texts_overflow` (violation) | Is every text for `--throttle` parsed or refused? | same texts |

Why the bounds are enough. *Throttle*: the clock goes past twice the threshold (4),
so that a tag can be emitted, forgotten, emitted again and
suppressed; three tags are two more than the size limit, so that a cleanup keeps
some entries and drops others; interval 2 is the boundary of `DurationMax`, 3 is
beyond it, 0 is never cleaned up. *RunLoop*: three results are E1, V6 and a third
that meets what they left, or two tags and a cleanup; interval 2 makes that cleanup
panic; a capacity of 1 makes every send wait. `run_points` has room for more because
it stops at the first violation. *HciSetup*: a
timeout of 2 leaves a tick before and after a foreign completion; a queue of 2
overflows; the four sizes of a completion are one before each byte that is read and one
after them all. *HciReader*: a socket buffer of 2 is filled and overflows; with a channel
of 1 the task waits with a result in its hand while two more packets arrive and
another is read; the fourth comes after it fell asleep. *BluerReader*: three
advertisements are one that is signalled, one that replaces it before the fetch and
one of the other device or after it. *HciReport*: sequences of up to two structures put every kind before
and after the Ruuvi data; reports of exactly 31 bytes put the id at each layout's last
possible offset, which is 58 in an extended report; every event with at most one structure is cut at every
length and overwritten at every byte with 0, 3, 153, 255 and its value plus one.
*Texts*: five characters are a sign or blank, two digits and a suffix of two; `99999h` and
`65536` pass the 16-bit word that stands for `u64`; names of three characters put every
separator first, last, and beside every other.
`RunLoop` is run with
no delay between the clock reads of `should_emit`; `Throttle` is checked with it.

Deadlock is checked except where the system stops by design: after the panic
(`throttle`), at the end of a BPF program or of an event, after a conversion
(`texts`), when the reader or the BlueZ task has ended or sleeps and the bounds
leave nothing more to arrive (`hci_reader`, `bluer`). `RunLoop`
and `HciSetup` have an explicit final step instead (`Ended`, `Returned`).

### Fairness

* `RunLoop`: the runtime polls a task that can go on (`Send`, `Loop`,
  `start_scan`): tokio's scheduler is a queue. A write ends
  (`WriteReturns \/ WriteFails`): the reader of stdout keeps reading or closes it;
  if it does neither the program waits for it, which the code intends
  (back pressure). No fairness for tags, the scanner's end, or time.
* `HciReader`: a woken task is polled (`WF` of `Spawn` and `Poll`). The driver and the
  receiver run again and again even when the task always has something to do: tokio's
  cooperative budget makes `readable()` and `send()` yield, so they get their turn
  although they are enabled only at an `await` (`SF` of `Driver` and `Take`). No fairness for
  packets, errors or the end of the runtime.
* `BluerReader`: both tasks are polled, and a call to bluetoothd is answered, if only by
  an error (`WF` of `Setup`, `Task`, `Serve`, `Take`). No device has to advertise.
* `HciSetup`: the program does its next step and time passes (`WF` of `Program` and
  `Tick`). No fairness for `SysCallFails`, which would end the setup by itself, and none
  for the controller: only the deadline ends the wait for one that never answers.

### Findings

1. `run_points`: the throttle compares the times at which the loop gets to the
   measurements, the lines carry the times of decoding. Two measurements that wait
   behind a blocked write can both be written although their timestamps are
   closer than the interval (app.rs:147 against app.rs:40). `run_loop` shows that the
   promise holds by the loop's own time (`WritesSpacedByInterval`).
2. `hci_setup_stale`: a completion of the same opcode sent for another program is
   taken for ours (hci.rs:551), against "verify its Command Complete status"
   (hci.rs:558). `hci_setup` shows the limit of the damage when scanning is switched: Ok is never
   returned without our parameters.
3. `hci_report_long`: an extended report with more than 29 bytes of structures
   before the manufacturer data is dropped by the filter, although the comment
   says the range covers both layouts (hci.rs:340-344). `hci_report` shows that
   reports with at most 31 bytes of data are never dropped.
4. `texts_overflow`: `hours * 3600` and `minutes * 60` overflow a `u64`
   (throttle.rs:171, 179): a panic in a debug build, another interval in a release
   build, against "A Result containing the parsed Duration or an error message"
   (throttle.rs:139). `texts` shows that every duration that fits is exact.

That `interval * 10` panics for an interval above a tenth of the largest `Duration`
(throttle.rs:119), with the first cleanup and not when the option is parsed, is part
of `Throttle` and `RunLoop` (`CleanupPanics`, exit code `panic`), and the other properties
are checked up to it. It is no property: the repository sets no limit on the interval, and
when the product overflows is what `ThresholdOverflows` says, the guard of that action.

## 4. Proofs

All theorems hold for every value of the constants under the named assumptions
of the modules (`ThrottleAssumption`, `RunLoopAssumption`, ...), which TLC evaluates
on every run.

* **ThrottleProofs.** Inductive invariant: `TypeOK /\ MapRemembersEnough`.
  `TypeOK` alone does not say that an entry is the tag's last emission, and
  without it nothing relates the map to the history. With it, `CleanedDecision`
  shows that a cleanup never changes a decision: what it drops is older than
  `Interval * Multiplier >= Interval`. From there: `TypeCorrect`, `CleanupIsSafe`,
  `ThrottleSpacing` (at most one event per interval), `ThrottleHeldBack`,
  `ThrottleDoesNotLeak`,
  and `ThrottleImplementsLimiter`, the refinement.
* **RunLoopProofs.** The properties speak of `judged`, the steps of the throttle's map and
  of `e1_devices`, so the invariants say that both are made from the history:
  `E1Recorded` (a tag is in `e1_devices` exactly if an E1 frame of it was judged, until
  a panic ends the process in the middle of one) and `EntriesAreWrites` (every entry of
  the map is the time of a write). They give `RedundantV6` and `DropsAreJustified`. The
  other direction, `Remembered` (every write still has an entry, or a later one, or is
  an interval old), gives `WritesAreSpaced`; it holds across cleanups because what is
  dropped is older than the threshold. `CleanExit` rests on `HandOfRunning`.
  The composition is proved too. `LoopRunsThrottle`: hidden behind the filter and the
  writes, the throttle's variables go through a behaviour of `Throttle`, so what
  `ThrottleProofs` shows of that module holds in the loop: `LoopLimitsRate` is the
  refinement of `RateLimiter`, and `LoopTypeCorrect` takes the throttle's part of `TypeOK` from there.
  `LoopRunsScanTask`: beside the loop the scanner is a `ScanTask`, which both backends are
  proved to implement.
* **HciSetupProofs.** A completion does not say which command it answers, and two
  commands of the script share an opcode. So the invariant (`Undisturbed`) says that, as long as
  no other program sends commands of the script, at most one own command is under way
  (`OneUnderWay`), and at most one completion with an opcode of the script is in the socket, that of
  the current command and with its true status (`OneAnswered`): the answer to "off" is
  read before "on" is sent. `Progress` relates the step to what the controller executed;
  between the second and the fourth command it does not scan. A refusal is left for a
  controller whose feature answer was cut short (`Misjudged`). From there
  `CommandsConfirmed`, `OkScans`, `NotRefused`. `ParamsAreOurs` holds although other programs
  switch scanning as they like, and although `start_scan` then takes their completions
  for its own; it needs that they set no parameters (`NoForeignParams`).
* **HciReaderProofs.** `WakeupsAreNotLost` from `WakeupInv`: besides the property, that the
  readiness is set while the task reads and waits for the channel, and that at `start` and `blocked`, where the driver
  cannot run, whatever is pending has an edge or a renewed readiness.
  `ResultsInOrder`: the results taken, queued and in the hand are exactly the packets that
  were read and have a result, by arrival (`SentFromLog`), and all that waits in the
  socket arrived later (`LaterInSocket`); no induction over the sequences is needed, since the
  order is stated by the arrival numbers of any two of them.
  `ReaderImplementsScanTask` is the refinement.
* **BluerReaderProofs.** `ReportsAreFresh` from `StaleInv`: every number that waits
  anywhere, in a signal, in the task, in the answer on its way or in a report, is no
  later than the device's last advertisement (`UpToDate`), and an answer on its way is
  no older than the signal and the device's reports (`FreshReply`). `OneResult` counts the
  signals processed. `BluerImplementsScanTask` is the refinement.
* **HciBpfProofs.** `FilterCorrect` and `FilterTypeCorrect`: for every packet and
  every range of offsets, provided the longest jump fits a byte (`JumpsFit`:
  `reject_idx - 2 <= 255`; for 14..60 it is 99). The invariant says for each
  instruction what the checks before it have established: the header bytes seen,
  then that the first `c` candidates are inside the packet and hold no id. The
  verdict alone says nothing about a running machine. The lemmas give each
  instruction of the program and what the machine does with it.
* **HciReportProofs.** `ParserStaysInside` and `ParserTypeCorrect`: no event,
  however malformed, makes the parser read outside a slice. The invariant adds that
  the four header bytes exist after the dispatch and that the advertising data
  lies inside the event during the walk. `FirstReportIsDecoded` follows the content:
  during the walk the parser stands at one of the structures the controller wrote, no
  Ruuvi structure is before it (`DecodeInv`), so what it finds is the first Ruuvi
  payload, under the report's address. `ShortAdsAreKept` assumes that the candidate offsets
  begin at 16 or before and end at 58 or after, as 14..60 does.
* **TextsProofs.** For texts of any length and content. `AddressesRoundTrip`: what `Display` writes, `from_str` reads back, since
  the two digits of a byte are its quotient and remainder by 16. `DurationsAreExact`: a text has
  at most one reading (`ReadingsOf`), and `parse_duration` finds it or refuses the text if there
  is none. `ReadingIsParsed` shows that a text that reads at some cuts is trimmed and
  split at them, `ParsedIsReading` that whatever is parsed was a reading; the rules
  are tried in an order in which no suffix hides a longer one (`RuleOfText`). That
  `Value` is a number needs induction along the digits: the library states it for a
  predicate, which the provers cannot instantiate, so `NatSetInduction` states it for a
  set, from the least number of a set and not from a theorem with an operator parameter.
  `LinesReadBack` goes along the line twice. By induction along a name, escaping puts a
  backslash before every special character and adds nothing else (`EscapedEscapes`), and
  reading drops exactly these backslashes (`EscapedReadsBack`, for names that are `Plain`);
  by induction along `FieldOrder`, the fields present are pairs with commas
  between them (`FieldsArePairs`). The bare separators of two texts that are joined are
  those of each (`BareOfJoined`), if the first does not end in a backslash; so those of the
  line are the ones `format` wrote, and they cut it where it was joined. `LinesAgree` adds
  that no other token of a line is a field's name (`FieldFound`) and that the factors of
  decoder, `decode` and `written` cancel (`WrittenIsTrue`). Both assume what
  `RequestAssumption` says of the tokens: a character is no field's name, an address and a number hold no
  special character, the clock is set after 1970, and a decoder returns `Returned`.

Only model-checked: liveness (`EveryResultJudged`, `SetupEnds`, `QueuedIsRead`,
`FallsAsleep`, `LastAdvertisementReported`), which is out of the prover's reach here.

## 5. Not modelled, and why

* Clap's parsing of the command line and `Backend`'s four words; help texts and error
  wording; test helpers, benchmarks, the Telegraf examples: no behaviour to check.
* The digits of numbers in a line, and the bytes the `ruuvi-decoders` crate reads.
* A call to bluetoothd that is never answered while bluetoothd lives: D-Bus times out.
* Names with a backslash before a separator or at the end, or with a line break, and a
  frame none of whose readings is valid: `Texts` writes their lines, but line protocol has no reading for them
  and the repository says nothing of them (listed as hazards, excluded in `LineReadsBack`).
* The second and later reports of an event: the parser reads the first only (hci.rs:777, 823),
  and `FirstReportDecoded` asks for no other; the events of `hci_report` may hold two.
* After an end of file the reader task spins on a socket that stays readable
  (`ReadEof`); `FallsAsleep` excludes it, since the kernel does not close a raw HCI socket under its owner.
* That scanning stays on after the program ends, and that `e1_devices` only grows: no
  code and no document is about either.
* Crash and restart: nothing is persisted. What an earlier run leaves behind, a
  controller that scans, is an initial state of `HciSetup`.

What could be added: `RunLoop` with both delays of `should_emit` and with more results,
where only the size of the state space stands in the way.
