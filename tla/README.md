# Networked Dragster: specifications, model checking and proofs

Two Atari 2600 consoles play one drag race over a network. Each runs the whole
1980 game; a patch lets the game logic advance only when both players' inputs
for the next *tick* (four video frames) are there. A FujiNet cartridge carries
eight-byte records between the console and a relay server, which pairs consoles
and forwards. The game itself is the original cartridge: a disassembler recovers
its source, and a build step patches it and splits it across two banks. This
directory holds TLA+ modules of that system, the TLC runs that check them and the
TLAPS proofs about them. Paths are relative to the repository
root, which PROJECT.json calls `src/`.

## 1. The system

| Component | State it keeps | Operations | Talks to |
|---|---|---|---|
| **Gate** `src/dginput.inc`, `dgcap.inc`, `dgcrc.inc`, `dgclk.inc` | tick, phase within the tick, "the last boundary ran", stall count, local input ring, sampled checksum, repair flag, sim clock | `DGSHIM` once per video frame: mid-tick frame, boundary (advance and capture, or retry), run the tick, stall, give up | reads the remote ring and the watermark the transport fills |
| **Transport** `src/dgnet.inc` | machine state, records left to consume, remote input ring, watermark, last error | `DGNSTEP`, as many bounded steps as the overscan allows: WRITE, STATUS, READ, consume one record, fail | cartridge mailbox; sets the repair flag and the stall count |
| **Session** `src/dgsess.inc`, `dgappk.inc`, `fujinet.inc` | none that outlives it | OPEN, HELLO, wait for START, hand over to the gate; fall back to local play; the PEER LEFT screen | cartridge mailbox, blocking |
| **Cartridge and network** (external) | one mailbox, a byte stream each way | answers a transaction some time later, perhaps with an error | relay |
| **Relay** `server/dragster_relay_server.py` (and in C, `server/c/src/dragster-relay.c`) | clients, names, partners, buffers | one thread: accept, receive and handle frames, pair, forward, flush, drop, sweep | consoles over TCP, the Lobby publisher |
| **Verdict** (`log_crc` of both relays) | per client: a small map from lap and tick to checksum, the lap, the last tick | pair two consoles' checksums by tick | fed by the forwarded records |
| **Lobby publisher** (`LobbyPublisher`; `server/c/src/lobby.c`) | the payload, a dirty flag, a stop flag | update, worker loop, shutdown | Lobby over HTTP |
| **Differential test** `tools/server_diff.py` | the script's position, the transcript | connect, send, close, `sync` | plays the consoles against one relay, then the other |
| **Disassembler** `tools/disasm.py`, `dgmap.py` | instruction starts, covered bytes, references, labels, problems | descend, label, two proofs, emit | the dump and the map |
| **Bank split** `tools/mkbanks.py`, `patches.py`, `check_patch.py` | lines by region, the built image | file, patch, emit, audit | the disassembler's source, the assembler |
| Display lead, wire-byte packing, restage clear, bank switching, text kernel, 1980 game, other tools, harnesses | | | |

What is hard here is not any one routine but time. The two consoles are never
on the same frame; the transport is not locked to the tick, repeats records and
skips ticks; replies come back in bursts and are consumed newest first; the tick
is one byte; a boundary that finds nothing is retried while the transport keeps
sending; a console leaves without a word, or with one that arrives before the
records it follows have been used. On the relay several connections share one
thread, a send takes part of a buffer, and a survivor of one match is at once a
candidate for the next.

Correct means:

* *gate*: both simulations run every tick on the same two bytes; the skew is
  bounded, so the rings are large enough; no deadlock; no repair without a
  divergence;
* *transport*: a record is immutable once sent, the watermark never moves back,
  no hole reaches the gate;
* *watchdog*: it gives up a peer that is gone, and only then;
* *relay*: a match has two sides, a partner's records arrive complete and in
  order, START and PEER_LEFT enclose the records of one partner, the room's
  player count is true;
* *verdict*: laps are exact, no false mismatch, no comparison lost to eviction;
* *publisher*: no update is lost, and the last thing the Lobby hears is the
  truth;
* *differential test*: what it writes down does not depend on scheduling;
* *disassembler*: what is written assembles to the dump, and code is what can be
  executed; *bank split*: an image that passes is the one declared.

PROJECT.json lists every component with its status, and under `hazards` each
place where one of these could go wrong.

## 2. The modules

| Module | Models | Extends |
|---|---|---|
| `SharedRace` | abstract: one race, each tick decided once | |
| `Lockstep` | gate and transport of two consoles, over any network that keeps order | |
| `PacedLockstep` | the same in real time: televisions in step, transactions that take a known number of frames | `Lockstep` |
| `Repair` | the same with a divergence: checksum, RESET, restage | `PacedLockstep` |
| `CrcPairing` | `log_crc`: the pairing map and the lap | |
| `RelayVerdict` | `log_crc` under the streams of one match | `CrcPairing` |
| `Relay` | the Python relay: connections, pairing, forwarding, drops, count | `CrcPairing` |
| `ServerDiff` | the scenarios of the differential test, played against `Relay` twice: on its own schedule, and one step at a time | `Relay` (and an INSTANCE of it) |
| `LobbyPublisher` | the Lobby thread, its shutdown, the Lobby | |
| `Disassembler` | disasm.py, all passes, and the assembler as a reference | |
| `BankSplit` | mkbanks.py, patches.py, check_patch.py | |
| `MCRelay`, `MCServerDiff`, `MCDisassembler`, `MCBankSplit` | the instances explored | |
| `LockstepProofs` | theorems: sizes and wrap; history and the shared race | `Lockstep` |
| `PacedProofs` | theorems: the race in real time; the watchdog | `PacedLockstep`, `LockstepProofs`, `Induction` |
| `RelayProofs` | theorems: the room and its matches; the records' order | `Relay`, `Induction` |
| `VerdictProofs`, `LobbyProofs` | theorems | `RelayVerdict`; `LobbyPublisher` |
| `DisassemblerProofs`, `BankSplitProofs` | theorems | `Disassembler`, `Induction`; `BankSplit`, `Induction` |
| `Induction` | lemmas: induction over the naturals, in sets | |

### Lockstep

One variable per zero-page cell, as a function of the console; the comment on
each variable names the cell. `DGSHIM` is one atomic action per frame and each
transport step is another, because a console is a single thread that runs
`DGSHIM` and then `DGNSTEP` in a loop (`DGWAIT`, `dginput.inc:18-41`); the steps
of the two consoles interleave freely. A boundary is one action from the advance
or the retry through the gate to the run or the stall, as in the code.

Abstractions:

* **Ticks** are integers; the code has one byte. Every place that compares or
  indexes sees them modulo `TickMod`, `RingSize` or `LocSize`, so the wrap is in
  the model, and `WrapInvisible` says it does not show.
* **A wire byte** is the tick it was captured for and its RESET and SELECT bits.
  The tick is not on the wire: it tells a fresh byte from the previous lap's,
  which are often the same eight bits and just as often are not. The two switches
  restage; RESET is the bit the netcode itself presses.
* **The simulation** is an unknown deterministic function of its inputs: what a
  restage rebuilds is the set of input pairs applied since the last one, and
  GameVar, which no restage rebuilds, counts the SELECTs of the whole race modulo
  the two games there are. `DGCRC` is both with `FrameCnt`, without collisions.
* **One transaction** of the mailbox is folded: issuing fills registers only,
  and a step that finds no answer does nothing. What the two consoles can tell
  apart is when WRITE latches its record, how much has arrived when STATUS counts
  it, and each record consumed. The final step of a reply, which only
  finds nothing left, is folded into the one before it.
* **The relay** is a queue towards each console. That it forwards in order and
  loses nothing is what `Relay` checks as `InOrder`.
* `Send` leaves out a copy of a record that is itself still unread: the two
  would be adjacent, and adjacent equal records have the effect of one.

Ghost state: `cap` (what was captured), `applied` (what was run), and the
counters of presses and faults, which bound the exploration.

### PacedLockstep

Freely interleaved, the watchdog can trip at any time and a hole can always be
made. This module adds the time the code relies on: the two televisions draw
alternately, a console's transport steps come after its own shim (at most
`Slack` of them), WRITE and STATUS together take a number of frames out of
`HostTrip` or `GuestTrip`, and a READ one out of `HostFetch` or `GuestFetch`. STATUS
counts what has been written when it is answered, and READ asks for that and no more
(`DGRDN`): a record that comes later waits for the next trip. A STATUS that counted
nothing goes back to WRITE. It runs at the ROM's own sizes: delay 2, four frames a tick,
windows of three, rings of four and eight, one-byte ticks, fifteen stalls.

### Repair

Some tick of one console's race leaves a state the inputs do not explain
(`Diverge`, once in a behaviour): in a cell a restage rebuilds, or in GameVar too,
when the tick ran on a SELECT nobody had pressed. Everything after that is the ROM's
own doing. The checksums are compared only when the record is of the tick the reader
is on, so the trips decide when the divergence is seen. Each console's transactions
take a number of frames of its own, constant through a behaviour (`pace`); every
combination of a configuration's numbers is tried. `Repaired` says what the repair does
achieve; `RepairIsTotal` and `TicksLineUp` are what the sources say of it, and fail.

### CrcPairing, RelayVerdict

`CrcPairing` is `log_crc` line by line: the dict is a sequence in insertion
order, because eviction is by age. `RelayVerdict` feeds it what two consoles in
lockstep may send: each repeats a tick or moves to a later one, and stamps at
most D+1 past what its peer has stamped. That bound is `SkewBound`, proved in
`LockstepProofs`, carried over to stamped ticks. The simulations agree up to a
tick `split` and differ afterwards.

### Relay

Connections are numbered in accept order, which is `born` order and the order
of `self.clients`. The server is one thread: `serving` holds the frames of the
`recv()` being handled and, until they are all handled, no other action of the
server is enabled, while consoles go on sending and hanging up. `down` records
every frame handed to a socket and `sent` every frame a console sent, so
`InOrder` can compare them. A connection that hangs up may lose the end of what
it sent. `DropAfter` is the whole of `Server.drop`: its present name, if that is
still its own (one it had before a second HELLO stays taken), the partner's link (only
the partner's: the dropped client's own link stays), PEER_LEFT, socket, count.

`OneMatchAtATime` is about what one console is sent: START, records and PEER_LEFT take
turns, and the records between belong to the console START named. It does not say of
which match: a survivor goes on sending records of the old race until it reads its next
START, and the relay, which looks at the sender's partner alone, forwards them to the new
one, in order and complete (`InOrder`).

Frames are records; their length appears only as "good" HELLO or "BAD" frame.
`Backlog` counts frames where the code counts bytes. All frame types of the
dispatch are there; `Relay`'s own clients send those the ROM sends and PING and
BYE, and `ServerDiff` sends the rest. A console sends HELLO once
and records once it has been sent START (`dgsess.inc:93-245`); the "other" client
may PING before it says HELLO and say BYE last.

### ServerDiff

`Script` is the eight scenarios of `SCENARIOS`, step for step, with the lengths
that depend on the size of a checksum map written in terms of it (`Keep`), so
that a smaller map does not change what a scenario exercises. The module runs
every scenario on two relays at once. One is `Relay` with its loop: connections
are accepted, read and flushed in any order. The other is an INSTANCE of the same
handlers in which each step of the script is handled when it is made. `sync()`
waits for 0.15 s without a byte; the model takes that to mean what it is meant to
mean, that the server has nothing left to do. `SameTranscript` and `SameVerdict`
then say that the two agree at every `sync`, which is what makes comparing two
servers line by line legitimate.

### LobbyPublisher

The relay's thread and the worker are separate processes; each step between two
points where the other can run is an action. A POST is opened, taken by the Lobby,
lost, given up (`urlopen` has a timeout of 10 s), and one that was given up, or
was open when the process ended, may still land later. `Event.wait`, `cv.wait`,
`join` and `urlopen` each end after a time that is not counted; what is kept is
which of them can outlast which. A reply that is not HTTP ends the thread
(`MaxOdd`), as in the code. A second signal ends the process where it stands.

### Disassembler

`walk`'s stack is a sequence and each turn of its inner loop an action: `Visit`
(decode, record, go on), or `Leave` (outside, known, undefined, off the end).
Labels are addresses and the source is a sequence of lines with an opcode, a size
and an operand. `Folded`, `Origin`, `Value` and `Assembled` are the reference: what
the assembler makes of these lines, with its habit of shortening an absolute
operand that lies in the zero page. `Closed` is the other reference: a set of
instructions that contains the entry and all that can follow.

Register and zero-page names (`zpname`, `RIOT`) change the spelling of an operand
and not its value, and are left out; so is the check that no two labels collide.

### BankSplit

The table of patches, the declared spans, the map and the source with an address
for each line are constants. `selftest`, the filing of lines, `apply_region` once
per patch, the emission of every region into every bank with the overrun check,
and `check_patch` follow each other; each may reject the build. Bytes are values, of
which any may repeat, and the audit compares values as the program does.

`apply_region` finds the lines of a patch by address and compares their text with
the one it expects; here a line stands for its text, and what a patch expects is the
addresses its lines had. `Within` is the lines with an address in an interval, and
`Replaced` puts the new text, which has the patch's address, in their place.
`AsDeclared` excepts what no step can see: two spans that touch may trade a byte, a
patch at the end of its region may be too short, so may a patch whose address is
in the middle of a line, since `patches.py:387` takes the lines from the next one on, and
bytes may have moved to addresses that all hold their own values (`Disguised`): a run of
NOPs one byte further on is the same run. One byte that moved and shows is enough to
rule that out. No two spans of `patches.py` touch, and two of its patches end at the end
of their regions.

## 3. The runs

Most runs stop at their bounds (`MaxTick`, `MaxNet`, `MaxInputs`, ...), or because
the program they model ends, so deadlock checking is off; `RaceGoesOn`, `ShutsDown`
and `Ends` are the checks that nothing stops earlier, and `server_diff`, which
stutters when a scenario is over, is checked for deadlock.

| Run | Asks | Bounds, and why they are enough |
|---|---|---|
| `gate` | Does the gate bound the skew; is the ring large enough; is the wrap invisible? | D=1, one frame a tick, windows of 2, the smallest ring the assumption allows (4), `TickMod` 12, ticks to 3, two unread records each way. A byte of 12 with signed half-range 6 is the smallest the assumptions allow; stamped ticks reach 4, watermarks 4 and the initial watermark is -2, so comparisons cross zero. All three are also proved for every size. |
| `presses` | Is a record immutable; can a repair be armed for nothing; can the watermark go back? | Two frames a tick, so mid-tick frames and retries mix with sends; one press of RESET or SELECT at any boundary of either console; one failed or damaged transaction; the host may leave. |
| `shared_race` | Are the two simulations one race, and do they go on? | Ticks to 5: more than one lap of the ring of four, so stale bytes of the previous lap are there to be run. Two frames a tick. |
| `paced` | At the ROM's sizes, can a hole get through, or a watchdog trip on a peer that is there, when WRITE and STATUS take 3 or 5 frames and READ up to 2, changing from one to the next, and the guest may leave at any moment? | Ten ticks: more than a lap of the ring of eight. A trip of 7 frames with a READ of 2 among them is the longest `Quick` allows. |
| `repair` | At the ROM's sizes, does a divergence end, in both consoles equal? | Every pair of trips with 1, 3 or 5 frames for WRITE and STATUS, READs of 1 frame on the host and 2 on the guest, a divergence after any of the first ticks of either console, in GameVar or not, fifteen ticks; eight are enough for the repair (`Few`). With trips that change from one to the next, or that keep in step with each other (`TicksLineUp`), there is no such bound: records can always miss the tick they are of. |
| `relay` | Pairing, forwarding, mixing of matches, the count. | Three connections is the least that re-pairs a survivor; one name for all forces the rename; two records in all, so that two of one console queue and can be out of order, or one of each cross; a backlog of two frames so that a slow reader is dropped. Two mixes: three ROMs at three addresses, or two ROMs and another client that shares an address where only one may connect. |
| `verdict` | Laps, false mismatches, eviction. | `TickMod` 10 is the smallest the assumption allows for D=1, ticks to 11 cross the wrap on both streams, in every relative position the skew allows. `Keep` = 2 = D+1 is the least that suffices. |
| `lobby` | Lost updates, the offline POST, the keepalive, the end of a shutdown. | Two updates over three counts, so a count can change twice around one snapshot; two failed, lost or given-up POSTs, so an old one can be late behind a newer; one reply that is not HTTP; a second signal. |
| `server_diff` | Does a transcript depend on the schedule? Is the cut of LOBBY reached? | The scenarios as they are, with the relay's own limits of 64 connections and 8 per address, and a map of four checksums. |
| `disasm` | What does the descent find; what do the two proofs establish; does the source assemble to the dump? | All 4096 fillings of four bytes before a vector, over seven opcodes that include every way on (next, branch, call, jump, end) and one undefined byte; six maps, of which one does not tile, others split code in the middle of instructions and one has data, but no vectors, up to the end. Three-bit bytes: branches reach both ways past the ends, and zero-page operands occur. |
| `split` | Does an image that passes hold what was declared; is a right table accepted? | Five regions (one shared, one in no bank), a rewrite, a patch and perhaps a third one beside it, at a border, in the middle of a line or outside; addresses, spans, old and new text off by one in every direction; an address that holds what fills a gap, and a patch that ends in a copy of the byte after it, so that bytes can move unseen. |

One more run expects a violation: `burst`. With one WRITE and STATUS of 12 frames, a
fifth of a second, a tick is never sent and the peer's gate runs it on the previous
lap's byte (`dgnet.inc:139-151`, 348-351 say this cannot happen). With 8 to 11
frames on one side the property still holds.

Seven more statements of the sources do not hold. Each is written out as a
definition, and adding it to a configuration gives the trace:

* `WaitsASecond` (INVARIANT, `paced.cfg` with `MayLeave = {}` and a trip of 20):
  the watchdog waits for sixteen frames, not for the second `dgcap.inc:77-79` speaks
  of, because a stalled boundary is retried on every frame and not on every fourth.
* `CleanLeaveInstant` (PROPERTY, `paced.cfg`): PEER_LEFT saturates the watchdog,
  and the next tick that can still run clears it (`dginput.inc:136-138`).
* `OneShot` (PROPERTY, `repair.cfg` with trips of 2 and READs of 1): a console that
  has pressed RESET is armed again by a record from before the repair
  (`dgnet.inc:399-401`). The repair still ends, and ends equal: `Repaired`.
* `RepairIsTotal` (INVARIANT, `repair.cfg`): a SELECT that one console alone has run
  moves its GameVar. `DGCRC` sums GameVar and no restage rebuilds it, so the checksums
  differ after every RESET and each comparison arms the next. `dgcrc.inc:98-100` says
  the repair is total; `dgdefs.inc:120` that GameVar agrees by construction, which is
  true as long as `RacingAsOne` is.
* `TicksLineUp` (INVARIANT, `repair.cfg` with trips of 4, READs of 1, `MaxTick` 24 and
  `Few` 20): two transports that take equally long can run past each other so that no
  record is ever consumed at the tick it is of, and a divergence is not seen in twenty
  ticks. `dgnet.inc:385-387` says that "the ticks line up within a few of them".
* `GameFramesOnly` (INVARIANT, `relay.cfg`): a survivor is handed a 15-byte START
  on the connection it may still be racing on, against
  `dragster_relay_server.py:45`.
* `TakenAway` (INVARIANT, `lobby.cfg`): a POST of "online" that was given up lands
  after the offline one.

PROJECT.json lists these under `findings`, with those that concern a comment
alone: JOIN from a paired console, the scenario that never cuts a LOBBY, the round
trip that cannot see a wrong size, and the exception that ends the Lobby thread.

### Fairness

`shared_race` assumes weak fairness of each console's `DGSHIM` and `DGNSTEP` (the
television draws sixty times a second, and the overscan always has room for a
step), and strong fairness of a READ that returns something (a record the network
has accepted is not reported as "nothing yet" for ever). Its `PromptSpec` also
restricts the steps to a network and cartridge that keep up; it leaves out exactly
the behaviours where a watchdog trips or a window is outrun, which `burst` is
about. Without it `SameInputs` is false, as `burst` shows at the ROM's sizes.
`WindowCovers` says that in real time the next record a READ can return is within the
window; `paced` checks it for two trips and `NoRecordOutOfReach` proves it for all that
are even enough.

`lobby` assumes that both threads are scheduled and that every wait with a timeout
ends, and that the Lobby takes a POST that is neither lost nor given up. It does
not assume that a POST succeeds: `MaxTrouble` bounds how many fail, and after those
the next keepalive gets through.

`disasm` assumes that the program runs on.

## 4. The proofs

`tlapm` proves the following for every value of the constants that satisfies the
named assumptions of the modules, each of which TLC evaluates in the runs:

| Theorem | States |
|---|---|
| `LockstepProofs` | |
| `TypeCorrect` | `Spec => []TypeOK` |
| `BoundedSkew`, `RingIsLargeEnough`, `WrapIsInvisible` | `Spec => []SkewBound`, `[]RingHolds`, `[]WrapInvisible` |
| `WatermarkNeverBack` | `Spec => WatermarkMonotone` |
| `RecordsAreImmutable`, `AlarmsAreTrue` | `Spec => []RecordsImmutable`, `[]NoFalseAlarm` |
| `SameRace`, `ConsolesShareOneRace` | `Spec /\ []NoGap => []SameInputs`, and `=> OneRace`, the refinement of `SharedRace` |
| `PromptRunsSameInputs`, `PromptRingIsCorrect`, `PromptIsOneRace` | `PromptSpec => []SameInputs`, `[]RingCorrect`, `OneRace` |
| `PacedProofs` | |
| `NoRecordOutOfReach`, `PacedRacesAsOne` | if `EvenTrips`: `PacedSpec => []WindowCovers`, `[]RacingAsOne` |
| `WatchdogTellsTheTruth` | if `EvenTrips` and `Quick`: `PacedSpec => []NobodyLeft` |
| `VerdictProofs` | |
| `LapIsExact`, `MismatchIsTrue`, `KeptIsEnough` | `Spec => []LapExact`, `[]NoFalseMismatch`, `[]KeptUntilAnswered` |
| `RelayProofs` | |
| `RelayTypeOK`, `RoomIsAnnounced` | `Spec => []TypeOK`, `[]Announced` |
| `MatchHasTwoSides`, `MatchAfterMatch` | if `"JOIN" \notin Extra`: `Spec => []Matched`, `[]OneMatchAtATime` |
| `RecordsInOrder` | if `"JOIN" \notin Extra`: `Spec => []InOrder` |
| `LobbyProofs` | |
| `TypeCorrect`, `NothingLost`, `OfflineInTheEnd` | `Spec => []TypeOK`, `[]NoLostUpdate`, `[]OfflineLast` |
| `DisassemblerProofs` | |
| `DisassemblerTypeOK`, `Complete`, `NothingMore`, `MapIsTheTruth` | `Spec => []TypeOK`, `[]AllReachable`, `[]OnlyReachable`, `[]MapIsTrue` |
| `WrittenReassembles` | if `Forward`: `Spec => []Exact` |
| `BankSplitProofs` | |
| `LinesStayInOrder`, `AuditIsEnough`, `RightTablesPass` | `Spec => []TypeOK`, `[]AsDeclared`, `[]NoWolf` |

### What is assumed

* `Lockstep`: `Sizes`, `HalfRange` and `RingFits` are relations between the delay,
  the rings and the byte. `WindowsFit`, twice the window at most the remote ring, is
  needed where a reply is consumed newest record first: an older record of the reply
  then writes no slot a newer one has filled. The ROM has windows of three and a ring
  of eight.
* `RelayVerdict`: `TwoConsoles`, `LapFits`, and `EnoughKept`, a map of D+1 or more.
  The ROM's delay is 2 and the relay keeps eight.
* `Relay`: `Limits`. Connections are finitely many and numbered, and "unnamed" is
  what the model writes for a console without a name and so is not one.
* `LobbyPublisher`: `Bounds`. `Disassembler`: `Cartridge` (in particular, no address
  of the cartridge is in the zero page, and the region of the vectors is of even
  length), `Biases` (the label of a BIAS is one of DATALBL, at `disasm.py:271`) and
  `Regions` (a map lists at least one region).
* `PacedLockstep`: `Pace`, the types of its constants.
* `BankSplit`: `Written` (the types of a table; a span is not empty), `Mapped` (regions
  follow each other) and `Listed` (the lines fill the cartridge, in order, and none
  crosses from one region to the next). Nothing is assumed of the bytes' values.

Five conditions are not assumptions but part of the theorem.

* `NoGap`: no unread record begins more than a window past the newest the reader has
  taken. The code does not ensure it: it depends on how long a transaction takes, and
  `burst` shows a behaviour in which it fails and `SameInputs` with it. `PromptSpec`
  implies it (`PromptLeavesNoGap`), so the three theorems about `PromptSpec`, which is
  what `shared_race` runs, need no condition; and under `PacedSpec` a condition on the
  trips takes its place:
* `EvenTrips`: every WRITE and STATUS takes at least `shortest` frames, and with the
  longest READ (`read`) at most `longest`, where `longest` is at
  most a window's worth of frames (`K * Win`) and less than `shortest * (Slack - 2)`, so
  that what the peer wrote meanwhile is read, consumed and answered in one overscan; and
  nothing is damaged. The code ensures none of this: it is what it takes from the
  cartridge. At the ROM's sizes a WRITE and STATUS of 3 to 5 frames with a READ of up to
  2 satisfy it, as `paced` has them. 12 frames do not, and `burst` shows the race that
  comes apart. It is sufficient; with 8 to 11 frames on one side TLC finds no violation
  either.
* `Quick`: `longest` is at least 2; two of them and a READ are no more than twice the
  delay's frames (`2 * K * D`) and, less one, no more than the stalls the watchdog counts.
  `paced` meets both bounds exactly (7 and 2), and TLC finds `NobodyLeft` violated when a
  WRITE and STATUS of 3 or 6 frames are followed by a READ of 2.
* `"JOIN" \notin Extra`: no client says JOIN. The ROM never does. `on_join` does not
  look whether its sender has a partner, so a client that did could take a console out
  of its match; this is listed as a finding.
* `Forward`: no region of the map ends before it begins. `check_totals` would let such
  a map pass, as long as the borders chain; `dgmap.py:17` describes a region as
  (first, last+1).

### The arguments

**The skew.** `SkewBound` is not inductive: a console's tick is bounded by its
watermark, the watermark by the ticks stamped into records, and those by the
peer's tick, so all of them have to be bounded together. `SkewInv` is
`TypeInv /\ TickInv`, where for each console `GateInv` bounds the tick by the
watermark (plus one while the boundary waits), `MarkInv` the watermark by the
peer's tick plus D, `NetInv` and `ReplyInv` the records in the network and in
the reply window, from both sides: not ahead of their sender, and not behind
their reader by more than the spread `2D+3`. With every distance inside that
spread, `HalfRange` makes each one-byte comparison exact (`WrapInvisible`), and
exact comparisons are in turn what keeps the gate and the watermark within
their bounds: the two are proved in one induction. The ring's 2D+2 slots follow
from the two bounds together. (`dgdefs.inc:89-95` counts 2D+1; the record for
the tick after next can be there before the first of them has run, one more.
The ROM has eight slots for the six.) `TypeInv` adds to `TypeOK` that a reply
window is not empty while the machine consumes.

**The watermark.** `WatermarkNeverBack` uses the same invariant: a record moves
the mark only if the signed compare says it is not older, and inside the spread
that compare is exact.

**The history.** `HistInv` relates the cells to the ghosts, on top of `SkewInv`:
`CaptureInv`, that the local ring holds the last `LocSize` bytes captured; `RunInv`, that
the simulation clock and the sampled checksum are those of the ticks run; and, of every
record in the network or in a reply, `Genuine`, that its window is what was captured for
the ticks it covers and its checksum the one its sender had. An alarm compares two such
checksums of one tick and one clock.

**The race.** `SameInputs` is false without a condition, since a gap can be run on the
previous lap's byte. `RaceInv` is `HistInv` with `CloseInv` (the records of a reply, and
the watermark, are within one window of each other) and `RingInv` (from the tick a
console is on to the newest it has, each slot of the remote ring has the peer's byte).
With `NoGap` a record that moves the watermark covers everything between the old one and
the new; an older one, consumed after it, rewrites slots of its own ticks with the same
bytes, and by `WindowsFit` none of a newer tick; and by `SkewInv` no slot of a tick still
to be run is taken by a later lap. The refinement maps the race to the longer of the two
histories and `done` to their lengths: the first console to run a tick extends the race,
and the other's step, at most D+1 ticks later, finds it decided.

**The race in real time.** `PacedInv` goes with `HistInv`. `Cycle`: once its overscan is
over a console is always travelling, because the answer to a READ, what it returned and
the next WRITE fit in one overscan. They do because of `Sparse`: the peer writes at most
once in a trip
of its own, so an inbox grows no faster than the trip that will empty it. `Timely`: a
console's last record is at most a trip old; `Recent`: what waits for a console was
written since its last STATUS, which is its trip, and the READ before it, or once the
STATUS is answered the READ. So between two records of one console no more ticks pass than a
window covers, and each record reaches back to one before it (`Chained`), which is
`WindowCovers`. `Filling` then says of each slot of the ring, from the tick a console is
on to the newest that has reached it, that it holds the peer's byte or that one of the
records still being consumed brings it. When a frame is drawn both consoles have consumed
all they read, or nothing of it yet (`Cycle`, `Untouched`), so the tick that may run then
runs on the peer's byte
(`FrameRuns`).

**The watchdog.** `PatientInv`: neither console is further ahead of the other than the
delay (`Lead`), so what a stalled console waits for has been captured already
(`Reached`). It is written when the peer's trip ends. If a STATUS has just been answered
it waits while that READ is, and then for the console's own next trip: `Stalls` counts in
these stages (not written, not counted by a STATUS, not consumed), at most
`2 * longest + read - 1` frames together, and `Flight` bounds how far the peer has moved
in each.
`Begin`, `Greeted`, `Fresh` and `First` are the same for the start, when the consoles
have heard nothing of each other and one draws a frame before the other's first. `Silent`
says that no PEER_LEFT is on its way while both race.

**The lap.** `LapInv` says of each console that nothing was logged yet, or that
`lap * TickMod + lastTick` is the tick last stamped. A console's next tick is
less than half the byte ahead of its last one, since the peer's is within D+1
on either side, so a smaller byte means exactly one wrap.

**The verdict.** With exact laps, two equal keys are one tick, and the checksums of one
tick differ only from `split` on: no false mismatch. `Orderly` says that a map is in the
order of its ticks and holds no other's, `WaitInv` that a checksum that waits is in the
map and later than all the peer has sent. Those are at most D+1, and the youngest;
eviction goes by age, so with `EnoughKept` it takes an answered one.

**The room.** `RelayInv` is the shape of the state; `Pending`, that a HELLO still to be
handled is its console's only one and the console has no name yet; and `Room`, that
`by_name` and the names of the open connections are inverse to each other and
`curplayers` is how many there are. The steps of the server are first reduced to five
effects on the room (`RoomStep`: nothing, a name, a pair, a leave, ...), and each of the
invariants below is shown of those.

**The match.** `Sides` says that an open console's partner is open, has it as its own
partner, and that the last STARTs of the two name each other on different lanes. `Turns`
says of each stream (sent, and still buffered) that START, records and PEER_LEFT take
turns, and that a console has no partner exactly when the last of these was PEER_LEFT.
`Senders` says that the records between are all of one console, the one START named, and
that this is its partner as long as it has one.
The difficulty is the middle of a `recv()`: a client dropped for a frame of it may have
more frames to be handled, while its partner is paired anew; `ServedOpen` says that what
it says then has nobody to go to.

**The order.** `Order` says of each open console with a partner that what the partner
was sent since its START, followed by the records being handled and those still on their
way, is the end of what the console recorded, and all of it in its first match. A record
that is handled moves from one part to the other. `Types`, which filters the records out
of a stream, is a recursive function; that it maps concatenation to concatenation, and
what it does at either end, is proved by induction (`TypesAppend`, `TypesConcat`,
`TypesHead`).

**The publisher.** `NoLostUpdate` holds because the flag is raised with the payload
and cleared with the snapshot, each under the lock; the shutdown changes the status
and not the count. The proof goes action by action; an action that touches neither
leaves it. `OfflineInv` follows a shutdown: once the status is set, whatever is posted
says offline; a worker with no POST open when `join` returned can only post such a body;
and what lands late does so because of trouble, or because the process has ended on it.

**The descent.** The worklist invariant: whatever can follow an instruction already
found is found, is on the stack, or is the address being visited. `Complete` follows
when stack and address are gone. For `NothingMore` the invariant is that everything
found, stacked or visited lies in a given closed set, if it decodes at all.
`MapIsTheTruth` needs that `covered` is the union of the bytes of the instructions
found, and that a run with a problem is never written.

**The source.** `LinesInv` says what each line written is: the instruction, byte or
vector at its address with the operand its bytes have. `Layout` says where lines are:
each begins where the one before it ends, emit has come to the end of the last, and it
does not pass the end of a region, because no instruction does. Then `Origin`, which is
recursive, is each line's address (`OriginIsAt`, by `UpTo`), a label is worth its
address, no operand is folded, and low byte, high byte and the signed distance of a
branch are what the dump has (`LowAndHigh`). The opcode is that of the mnemonic and the
mode, by the first of the two proofs of the program.

**The bank split.** `SplitInv` is `Steps`, what each phase has established, and `Filed`:
the lines of a region are in the order of their addresses and are exactly the lines of
the source that no applied patch covers and the texts of the applied patches (`Holds`).
Order is what makes the lines of a span an interval of the list, so that replacing it
touches nothing else (`Stretch`, `ReplacedLines`). `Star` is where the emission puts a
line. In an image that passed, an address that no patch spans holds its own value. If
any byte came there from elsewhere, then, unless the build is `Disguised`, one that did
has another value and the audit finds it; so no line was moved (`NotMoved`). Before a
patch there is such a line, or the region begins, unless another patch touches it, so it starts where
it should (`PatchStart`); after it there is one, or another patch, or the region ends, so
it is as long as its span or ends the region (`PatchEnd`). For `NoWolf` the same lines are
followed the other way: each patch of a right table finds the lines it was written for,
because no other's span has them (`RightMatches`), the lines then fill the region
(`ReadyFull`), each is put at its address (`FullStar`), and the audit finds every span
changed and nothing else (`ReadyAudit`).

**Induction.** The library's induction theorems take an operator for the property, and
the provers here cannot instantiate one. `Induction` states what is needed in sets: a
set of naturals has a least member (from `WFMin` and `NatLessThanWellFounded`), so one
that has 0 and is closed under successor has them all; and what is defined step by step
is defined. Functions defined by recursion (`Types`, `Origin`) are reasoned about with
these.

### Model-checked only

* `Repaired`: that a repair ends within `Few` ticks depends on how the trips of the two
  consoles, each of a length of its own, run past each other until a record is read at
  the tick it is of. It is a fact about the pairs of lengths in the run, not one of
  ranges of lengths: with trips that vary there is no bound.
* `SameTranscript`, `SameVerdict` and `EveryoneListed` of `ServerDiff`: they are about
  eight concrete scripts. That no schedule shows in a transcript would have to be proved
  by commuting the handlers, for scripts in which they do commute.
* `RaceGoesOn`, `KeptHonest`, `ShutsDown` and `Ends`: liveness under fairness is out of
  the prover's reach.

## 5. What is not modelled

* The C relay and the C Lobby publisher. They render the Python ones; what they add
  is a slot table with deferred reaping, fixed buffers, a 16-entry checksum table
  (on the matched path neither relay trims the sender's map, so "Python keeps <= 9",
  `dragster-relay.c:130`, is not a bound) and a debounce.
* The blocking session code (`dgsess.inc`): OPEN, HELLO and START with their
  timeouts, the fallback to local play, the way back from PEER LEFT.
* The nine states of the transport machine and the cartridge's mailbox: a
  transaction is folded into the step that has its effect.
* Bits of the wire byte other than RESET and SELECT, the lead's beep and tree, bank
  switching: pure
  functions or straight-line code.
* The 1980 game and the kernels: they enter as an unknown deterministic
  function.
* `mktail.py`, `checkbanks.py`, `check_zp.py`, `checkrom_filter.py`, `strip.py`: one
  pass over one file, no state. Harnesses, test clients and emulator scripts.
* In the Python relay: statistics, logs, the parsing of HELLO's payload (a HELLO is
  good or not), sockets' error codes. Frames sent after BYE in the same `recv()` are
  in `Handle`, but no client of a run sends any.

## 6. What could follow

1. **RelayC** with `Relay` as its abstract specification.
2. **Session**, composed with `Relay`'s pairing: who waits for whom, and what a
   fallback with an open socket leaves behind.
3. **Transport**: the nine states shown to implement `Lockstep`'s folded steps.
4. **Pure operators**: `DGCAP` and `DGMIX` over all bytes, `DGTREE` and `DGBEEP` over
   all countdowns, `CSURL`.
5. **Proofs**: a condition on scripts under which `SameTranscript` holds of any of them;
   the race in real time with damaged records and failed transactions, for which
   `EvenTrips` asks that there are none.
