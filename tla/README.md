# X_Frame: specifications, model checking and proofs

X_Frame (`src/mtr_lib-master/`) is the embedded framework of a motor
controller: two C programs, a boot **loader** and an **application** (`apl`),
share the library in `x_frame/` and the LKS32MC45x drivers in `mcu/`. Both are
one cooperative loop (`task_sch` over four task groups, `drive/*/main.c`) plus
interrupt handlers. There is no operating system, no thread and almost no lock:
what is hard is an interrupt between two statements of the loop, two handlers of
the loop in an order nobody thought of, lossy links, and above all power that
fails in the middle of a flash operation.

The paths below are relative to `src/mtr_lib-master/`, and to
`x_frame/x_frame/src/` where only a file name is given.

## 1. Inventory

| component | state it keeps | operations | talks to | hard behaviour | correct when |
|---|---|---|---|---|---|
| **Upgrade / loader** `xf_upgrade.c` | `g_loader_program_info`, `g_fw_dl_info`, the loader's state machine; in flash: application, backup, boot record | `ld_s_*` state functions, `fw_update_trans_cfg/data/check` | state machine engine, flash partitions, protocol | power failure in every flash step, requests between two loop rounds, retries | the last runnable image survives, only images are jumped into, an acknowledged image is there, the board ends up running |
| **Flash partitions** `flash_part.c` | list of partitions | erase, write, read relative to a partition | flash driver | bounds | no access outside a partition |
| **State machine engine** `fsm_tab.c` | current and next state, change flag | `EMIT_FSM`, `RUN_FSM` | its states' functions | a later event replaces a pending transition | events judged by the current state |
| **Boot record** `comm_cmd.c` | one checksummed record in flash | load, save | flash partitions | erase before write | a lost record costs a visit to the loader only |
| **Flash parameters** `flash_param.c` | sector table and save position per parameter; headers and values in flash | init, save, read, history | flash partitions | power failure in every step, index wrap, sectors shared out at start | the latest saved value survives and is what is read |
| **Flash driver** `mcu/.../bsp_flash.c` | the chip | write in units of 16 bytes, erase in blocks | the chip's library | writes that begin or end inside a unit | a write stores its bytes and no others |
| **Message ring** `bkfifo.c` | two indices, slots, counters | enqueue, dequeue, empty, full | CAN driver | two sides, no lock | order, no loss, no stale message |
| **CAN driver** `mcu/.../bsp_can.c` | `is_sending`, last frame, repeat count | send, transmit interrupt, timeout task, receive | message ring, controller | interrupt between test, push, load and flag | order, nothing skipped, recovers from a lost interrupt |
| **Segmented CAN** `can_src.c`, `can_s.c` | lists of cells; device list, address and host mark | receive piece, read message, free by timeout; broadcast, offer, heartbeat, forget | CAN driver, protocol | lists shared with the interrupt, missing pieces; boards that hear only part of the others | no cell in two lists, messages in order; every board an address of its own and one host |
| **UART, byte ring** `bsp_uart.c`, `bsp_dma_uart.c`, `kfifo.c` | read and write index | push, pull, reset, send-over interrupt | protocol | enable/disable race, byte order | bytes in order, transmitter not left idle |
| **Protocol** `protocol_hal.c`, `protocol_matrix.c`, `protocol_ef_plus.c`, `line_buf.c` | line buffer, unpack step, links, locks | receive, resynchronise, dispatch, route, send | drivers, command table | damaged lengths, shared send buffer | every intact frame delivered once, resynchronisation ends |
| **Push** `protocol_push.c`, **log push** `x_log.c` | windows, sequence numbers | push, acknowledge | protocol | lost and repeated acknowledgements | every item arrives |
| **RPC** `rpc.c` | armed calls | immediate, asynchronous, delayed call | tasks, protocol | arming from inside a call | an armed call runs once |
| **Tasks** `tasks.c`, **state machines** `fsm.c` | lists, flags | schedule, delete, suspend, resume | everything | deletion and suspension from inside | every live task runs, suspended machines do not |
| **Black box** `xf_bbox.c` | write index, two rings of samples, states, upload session; records in flash | append, read, recover, record, upload | flash partitions, protocol | index written before data, recovery after power failure, host commands in mid-upload | records in order, none hidden or forgotten, an announced upload complete |
| **Parameter configuration** `param_cfg.c` | name tables | get, set by name | flash parameters, protocol | multi-part answers | what is set is what is read |
| **Statistics, calendar** `watth_statistics.c`, `x_calendar.c` | today's energy per type, weekly records in flash, what was pushed | accumulate, save, push, acknowledge | flash parameters, push | midnight type by type, late acknowledgements | nothing counts as pushed that the host was not told |
| **Start-up** `x_frame.c`, `auto_*` | registration lists | run once | everything | linker order | all registered before the loop |
| **Shell, debug, checksums, HAL, other drivers, motor control** | see section 8 | | | | |

The hazards this code has, each at its line, are in `PROJECT.json`; section 5
says which property answers which.

## 2. Modules

```
FlashPart            flash as the partition layer offers it
  |- Loader          boot loader + download handlers + boot record
  |    |- Upgrade        host, lossy link and the board of Loader
  |         |- UpgradeProofs   theorems of both, Upgrade implements Loader
  |- FlashParam      parameter manager
       |- FlashParamStore  ... implements ParamStore (abstract store)
            |- FlashParamProofs  theorems of both, that it does
  |- BspFlash        flash driver
       |- BspFlashProofs   theorems
BkFifo               message ring
  |- BspCan          transmit side of the CAN driver
CanSrc               long messages on CAN: cells and lists
  |- CanProofs       theorems of BspCan and CanSrc
CanSAddr             dynamic addresses of the boards on a CAN bus
KFifo                byte ring
  |- Link            UART receive interrupt, frame receiver, dispatch
       |- LinkProofs      theorems
BlackBox             records and indices in flash
BlackBoxRings        the rings of samples in RAM (operators)
  |- BlackBoxStates       the recorder's state machine
  |- BlackBoxRecording    recordings by the program
BlackBoxUpload       reading the records from a host
  |- BlackBoxProofs       theorems about all of these
ProtocolPush         a push group (operators)
  |- LogPush         the log, its push, the link and the host
WattStatistics       energy of the days of a week, saved and pushed
  |- WattStatisticsProofs theorems
Fsm                  hierarchical state machines
Arithmetic           lemmas about numbers the *Proofs modules share
MCLoader, MCUpgrade, MCDownload, MCFlashParam, MCBspFlash, MCBspCan, MCCan,
MCBlackBox, MCFsm    small instances
```

`MCCan`, `MCBlackBox` and `MCDownload` (session, link and flash driver) hold
several components that meet only in what their models leave open and share no
variable. Their variable `part` (`component`) says which of them a behaviour
belongs to; it never changes. The state space of such a run is
the sum of those of its parts, every invariant is checked on each of them, and
each part has its own fairness, which asks nothing of the others.

### FlashPart

A partition is a function from unit addresses to cells. A cell is erased, one
client's datum, or *junk* (bits that are nobody's datum). Programming over
anything but an erased cell or the same datum gives junk, as NOR flash does;
an access that runs past the end is refused (`flash_part.c:123-152`). `Torn` is
what a power failure leaves behind.

### Loader

One variable per partition (`app`, `backup`, `boot_cfg`) and per RAM structure
(`fsm`, `copy`, `dl`), plus `mode`, the program that runs. One unit of flash
holds one download block. `stale` is history: a block was stored in the download
partition after the loader had decided to install or jump (`Committed`) on the
strength of what it had seen. The code takes such a block like any other, and so
does the model; the properties that are then false name `stale` as their
exception, and the two `..._race` runs ask them without it.

| code | model |
|---|---|
| `real_fsm_fun`, `real_fsm_emit_event` (`fsm_tab.c`) | `Entering`, `Staying`, `Settled`, `Emit` |
| `ld_s_*_cond` | `Cond` |
| `ld_s_check_in`, `ld_s_check_exe` | `EnterCheck...`, in the order of its tests; `StateTimeout` |
| `ld_s_idle_*`, `ld_s_trans_*` | `EnterWaiting`, `StateTimeout` |
| `ld_s_goto_app_exe` | `JumpToApl` |
| `ld_s_update_app_in`, `ld_s_update_app_exe` | `DropTooLarge`, `CopyStep`, `CopyVerified`, `CopyFailed` |
| `fw_update_trans_cfg`, `fw_update_cfg_check` | `CfgRefused` (the block size is stored, then the package refused), `CfgTooLarge`, `CfgAccepted`, `CfgHandedToLoader` |
| `fw_update_trans_data` | `DataTaken`, `DataRepeated` |
| `fw_update_check` | `CheckRefused`, `CheckPassedInLoader`, `CheckPassedInApl` |
| power failing inside each of these | `PowerLoss...` |

`RUN_FSM` runs a new state's *in* function and, if that raised no event, its
*exe* function in the same call; an action of the model is one such call.
Handlers run between calls and are atomic, because the program is one loop.

### Upgrade

Adds the host program (external to the repository, written from what the
handlers expect), and the two directions of the link, each holding `LinkRoom`
frames, losing any of them. The host repeats its frame until it is answered and
may give up and begin again with another image. `Serve` is a handler together
with its answer.

### ParamStore, FlashParam, FlashParamStore

`FlashParam` has the partition, and the tables in RAM (`tab`, `save`) that
`flash_param_init` rebuilds at each power-up. The unit of flash is a sector
header or a value slot. `flash_param_init` is the whole start-up in one action:
search, sweep of useless sectors, assignment of unused ones, sorting by save
index. `Save` is `real_flash_param_save` down to the last write; `param_read`
and `param_read_history` change nothing and are operators.

`ParamStore` is what it promises: a log of values per parameter; a save appends
to it or not at all; only values older than the last `Keep[p]` may go.
`FlashParamStore` relates the two: `log` records, for every state, the history
that a power-up would find in flash (`Stored`), and `Implements` is
`ParamStore`'s specification of it.

### BspFlash

The chip byte by byte. `bsp_flash_write` is `Called` (its count of units),
`FirstUnit` for a write that begins inside a unit, and `NextUnit` for each unit
after; each of the last two ends in one `FLASH_Program`, which is the chip's
library and programs the unit its address lies in. `WD_32`, `write_cnt` and
`write_addr` are the code's; `taken` is how far `pbuf` has come. A byte to be
stored is named after the address it is meant for, so that a shifted or foreign
byte shows. `asked` is what callers have asked for; `Tidy` are the writes that
begin or end with a unit or lie in one. `bsp_flash_erase` is one action; it counts the blocks in eight bits
(`CountFits`: the chip has no more), and its branch for a range that begins
inside a block is left out, no caller takes it.

### BkFifo, BspCan

`BkFifo` gives the ring's operations, the enqueue in two steps since an
interrupt may come between them. In `BspCan` `pc` is the statement of the main
loop about to run; each step reads or writes shared state once. The interrupt
runs to its end without being interrupted, so it is one action, `Irq`. Frames are
numbered in the order they are handed over; `accepted`, `sent`, `last` and
`dropped` are history.

### KFifo, Link

`Link` is the way of a frame from the wire to its handler: the receive interrupt
(`Receive`) pushes into the ring of `KFifo`; the main loop pulls what is there
(`Read` copies, the index moves in `Decode`, so that an interrupt may come
between), and `Decode` is one call of `run_unpack`, which calls `protocol_decode`
until it returns no frame. `run_unpack` is a recursive function of the input, the
line buffer, the position in the input and the frames got so far; `Stop` is the
scanning loop. A unit of the stream stands for the six bytes a header check
needs, or for a part of a body.

### CanSrc, CanSAddr

`CanSrc` is the pool of cells of `can_src.c` as the linked lists it is:
`p_head_list` gives the first cell of the list of empty cells and of the list of
messages, and the next message of one; `p_son_list` the next cell in a message.
`Receive` is the receive interrupt. The main loop's steps (look at the next
message of the list for a whole one, find an overdue one, unlink it, copy it,
string its cells together before the first empty one, make them the front of the
empty list) are actions of their own because the interrupt comes between them.
`leaked`
collects the cells the interrupt strings behind the last message while the main
loop has it unlinked: they are in no list any more. The authors met this:
`can_src.h:82` and `can_s.h:129` have a flag for resetting the pool, with the
comment "临时解决缓存丢失问题" (stopgap for lost buffers); in `can_src.h` it is
commented out.

`CanSAddr` has a record per board (`board[b]`): its state (`search`, `conn`),
address, host mark, timers and the devices it knows; frames go to whichever other
boards hear them (`Misses` loses one for some of them). `Run` is `can_s_task` on
one board, `Tick` the time that passes for all of them, `due` the boards whose
round is still to come in that time. `Monitor` is `can_s_cache_monitor`, which
sets `reset_mark` when cells have been missing for ten seconds (how many is left
open: `CanSrc` shows that they can be). Such a board does nothing (`Runs`) until
the interrupt hears a frame, which empties all its lists (`Restarted`).

### BlackBox, BlackBoxRings, BlackBoxStates, BlackBoxRecording, BlackBoxUpload

`xf_bbox.c` in four parts. `BlackBox` is the partition: a ring of blocks of index
words and a ring of records. `Save` begins a save, and `IndexErase`, `DataStep`,
`IndexWrite`, `PrevErase`, `NextErase`, `CurErase`, `DataWrite` are its flash
operations, in the order of `__bbox_flash_index_write` and
`__bbox_flash_data_write`; power may fail before or inside each. `Start` finds
the next index again, searching back `LookBack` records and sweeping the blocks
of index words, and power may fail in that too (`StartCut`). `kept`, `erased` are
history: what was last stored under each index.

`BlackBoxRings` gives the head and tail ring as values and the operations that
move or save samples. `BlackBoxStates` is the machine with its states `CLOSE`,
`FAULT`, `ERROR`, `NORMAL`, the reports of the application and the task every
50 ms; `serious` and `batch` are what went to the partition for errors.
`BlackBoxRecording` is `bbox_data_record` and `bbox_recorded_data_save`.
`BlackBoxUpload` has the session of a host: window, bitmap, counters, the
commands in any order, and the tick that sends; `asked` is what the host still
waits for, `hung` says that the loop of `:988` does not end.

### ProtocolPush, LogPush

`ProtocolPush` has the record of a group and one operator per call that changes
it; `ItemPushed` is a round of `protocol_push_task`. `LogPush` adds the log
(`real_x_log_add`, its callback, its acknowledgement), the link in both
directions, and the host, which keeps what it got in `got`. `overrun` counts the
items added to a full log of which the host lacked some.

### WattStatistics

`StatisticsTask` is the task, for the next type of the list: the first call reads
the history, the first one of a day saves the day before under its day of the
week. `PushDays` is the push callback with its list position, marks and pause,
`DayAcked` the acknowledgement. `heard` is history: the amounts (of which type, of
which day of the week, and whether that day was over) the host was told of since
the list last went back to its start; `day_moved` says that since then a day ended
or the push was started again.

### Fsm

A record per machine as in `fsm.h`. An event only marks a change; `fsm_core_run`
goes through the machines, parents before children, and makes the changes, each
of which suspends and resumes the machines below (`fsm_suspend_all`,
`fsm_resume_all`).

## 3. Runs

| run | instance | shows |
|---|---|---|
| `loader` | images of 2 and 3 units, application partition 2, backup 3, one-unit sectors; the large image fits the backup only | `InstallInv`, `LastImageSurvives`, `CopySucceeds`, `EventuallyRuns` for any requests in any order at any time and power failing anywhere; the first three except for a block stored over the backup after the decision to install it (`stale`) |
| `download` | session: no backup partition, as in this build; images of 2, 3 and 5 units, 4 units of flash, sectors of two blocks, two frames in flight each way. Link: a ring of two units, a line buffer of three, three frames of 1, 2 or 4 units (4 is too long for the buffer) and 6 units in all, two units spoiled or lost. Flash driver: three units, each a block, writes of 7, 20 and 36 bytes that are `Tidy` | the session properties below; `FifoIsArrived`, `HandledOnce`, `FramesArrive`; `WritesStore` |
| `loader_jump_race` | no backup | a counterexample to `ImageRuns` (finding 1) |
| `loader_install_race` | the board of `loader` | a counterexample to `ImageAlwaysLeft` (finding 2) |
| `upgrade_ack` | the session of `download` | a counterexample to `AcknowledgedImageIsStored` (finding 3) |
| `flash_param` | a normal and a queue parameter, two sectors each, two values a sector, save indices modulo 6, two values | history, sectors, `Implements` |
| `flash_param_torn` | one queue parameter, power may fail in an append | a counterexample to `SavedIsReadable` (finding 4) |
| `can` | ring for two frames, six frames of which one is invalid, two repeats, two losses; five cells, messages of two frames, two of them from one sender and one from another that comes between; three boards, up to three switches, one frame missed or one cache given up | order, no skip, recovery; `CellsKept`, `ReadInOrder`; `AddressesSettle` |
| `can_fifo_race` | the driver of `can` with the interrupt inside the enqueue | a counterexample to `RingIsWaiting` (finding 5) |
| `bbox` | two blocks of two index words, four data blocks of three units, records of two (six records, no remainder); nine saves, two power failures; an upload of a partition of three records, two at most in a session, with three commands; rings of three and one samples; a log of three items, four in all, one frame lost; two energy types, two days, one restart | `NothingForgotten`, `NoImpostor`, `LossPerFailure`; `EndIsTrue`, `SessionEnds`; `SeriousInOrder`, `ErrorEnds`; `RecordingComplete`; `AllLogsReach`; `PassedIsHeard` |
| `fsm_grandchild` | three machines nested in one another | a counterexample to `ChildFollowsParent` (finding 6) |
| `flash_words` | the driver of `download` with writes that begin at any word | a counterexample to `WritesStore` (finding 7) |

Size: `loader` 455,000 states, `download` 174,000, `flash_param` 113,000, `can`
239,000, `bbox` 396,000.

### Why the bounds are enough

* `loader`: an image larger than the application partition (dropped), one that
  fills it exactly (the erase runs to the very end) and one sector per copy step
  already give every branch. The multi-block sector is covered by `download`. The
  theorems of section 6 cover every size.
* `download`, session: two frames in flight allow a duplicate of every request to overtake
  the next step of the host. Session lengths are bounded by the images.
* `flash_param`: save indices are counted modulo `IndexMod`, 2^16 in the code;
  with 6 they wrap several times. The comparison in `Younger` is the code's, with
  the width as a parameter. Two parameters compete for the unused sectors.
* `can`: six frames through a ring of two wrap the indices three times and
  overfill it; `MaxRetrain` and `MaxDrops` allow the repeat count to reach its
  limit and be reset. `MaxFrames` and `MaxDrops` are the only counters capped in
  a guard.

* `can`, long messages: `can_src.c` never gives out its last two cells; with five,
  three are in use, what it takes for a message to be completed and another of its
  sender to be appended while one scan goes on. The other sender is bound to one
  message (`FewInterrupters`). Addresses: three boards are a host, a second one
  and one that switches; with `CastFini` 3 and `MastTime` 2 a board can become
  host while another is still broadcasting. `MaxSwitches`, `MaxFaults` bound the
  faults.
* `bbox`, store: nine saves go twice round the records and more than twice round
  the index words, and records straddle blocks (three units to two); two power
  failures put one inside the recovery from the other. Upload: windows of all
  sizes up to the partition's, three commands in any order in any state. Log: a
  log of three with four items overflows; `MaxUnderWay` 2 lets a late
  acknowledgement meet the frame that repeats it. Energy days: the pause, the
  change of the day in mid-list, a day of the week from flash and today's from
  RAM, two acknowledgements under way. States: with two samples before an error
  the ring is empty again after every saving; with three, some of an earlier
  batch can still be in it when the next one begins.
* `download`, link: six units wrap the indices of the ring, fill it (the interrupt then
  drops a unit), fill the line buffer with a frame that can never be whole, and
  put two frames into one call. `MaxUnits`, `FrameCount` and `MaxDamage` bound
  the stream; `IndexRange` stands for 2^32. Flash driver: writes of less than a
  unit, of one or two and a part, and of two whole ones and a part, at every
  place they may begin, erased blocks in between; the theorem covers every size.

### Assumptions a run makes, and why

* An image and its checksums agree or they do not: a sum is identified with the
  image it was made for, and a mixture of images has no valid sum.
* A host begins a session only when nothing of its previous one is under way.
* Frames on the link may be lost, delayed and repeated (by the host) but not
  reordered: it is one CAN or UART line.
* `AppendTears = FALSE` in `flash_param`: power does not fail in the write of an
  appended value. `flash_param_torn` drops the assumption. Without it most
  properties fail for the reason of finding 4 and would show nothing else.
* `IrqInEnqueue = FALSE` in `can`: no interrupt between the two halves of
  `bkfifo_en`; `can_fifo_race` drops it. `BusPrompt`: a frame is out, or lost,
  within `TX_IRQ_TIMEOUT_MS`.
* Link: what is not a unit of a frame (`Noise`) never looks like a header, and
  a damaged frame fails its checksum. The timeout of the receiver (500 ms) may
  run out between any two calls, also for a frame whose rest is still to come
  (`late`); within a call no time passes. There is no routing table.
* Parameters are longer than two bytes, do not change length, and the partition
  has the sectors their tables need.
* `xh_flash_write` stores its data. `WritesStore` shows it for this driver and
  `Tidy` writes, among them all of `xf_upgrade.c` and `comm_cmd.c`, which begin at
  a partition or a download block; values of `flash_param.c` and records of the
  black box may begin at any word, where finding 7 says otherwise. Their models
  are of boards with a driver that does what it is asked.
* Flash driver (`AnyPlace = FALSE`): callers keep to `Tidy` writes; `flash_words`
  drops it. An address is a multiple of four, the bytes written are erased, an
  erase begins with a block. The library programs the unit an address lies in,
  and a byte of ones changes nothing.
* The watchdog branch of `ld_s_check_in` never runs: `get_fwdgt_is_reset` of this
  driver is always 0.
* The 100 rounds of the loop in `bsp_can_transmit_fifo_message` are never used
  up (`FramesAssumption` bounds the ring).
* Long CAN messages: the interrupt may come between any two steps of the main
  loop, the main loop never inside the interrupt.
* Addresses: a frame is heard by all boards that are on, except one `Misses`
  takes from one of them. All boards' clocks run at one speed.
* `WordTears = FALSE` in `bbox`: an index word is written or not (the driver
  programs 16 bytes at once). A torn one hides the later indices of its block.
* `bbox` has two blocks of index words and a data area that is a whole number of
  records. Other sizes are as likely, and with them the properties are false (see
  *Behaviours met*): `__bbox_data_init` reserves a single block where that is enough, and rounds the
  number of records down. The application of this repository registers no black
  box, so which sizes occur is up to its users.
* `NothingForgotten` speaks of states in which power has failed inside an operation
  once at most (and between operations any number of times): a second failure at
  the start of a block of index words makes the recovery find nothing (see
  *Behaviours met*).
* Recordings keep samples from before and after the event: the branches for
  `head_cnt` 0 and `tail_cnt` 0 (`xf_bbox.c:556`, `:575`, `:1175`) are left out
  (`RecordingSizes`).
* The CAN driver repeats a frame unchanged; the code resends it with extended id
  always (`bsp_can.c:200`), which is what the modules of this repository send.
* Log and energy days: after a restart nothing of before is on the link. The
  sequence number starts again at 0, and an older acknowledgement could not be
  told from a new one.

`CHECK_DEADLOCK FALSE` stands in the CAN configurations, in those of the black box
(whose log and statistics end too) and in `Fsm.cfg`: once the last frame is out or the
last sample is taken, nothing is left to do. In `MCDownload` the link may rest, because its stream ends; the
session and the driver are checked for deadlock.

## 4. Fairness

* `Loader`: `WF_vars(RunFsm)`. The loop calls `RUN_FSM` in every round and the
  timeouts of `check`, `idle` and `trans` are finite. Nothing is assumed of the
  host, and nothing of power; `EventuallyRuns` has "from some time on neither
  requests nor power failures" as a premise.
* `Upgrade`: the same for the board. The host and the link are not fair.
* `BspCan`: the main loop goes on inside a call, the periodic task is called,
  and the controller sends a frame or fails to. Sending is not fair: the program
  may stop handing over frames.
* `Link`: `WF_vars(Loop)`, the task of the link is called in every round of the
  main loop (`protocol_ontick`). The line need not carry anything.
* `CanSAddr`: every board's task runs (`RunAny`), time passes (`Tick`), the list
  of devices is looked through (`ForgetAny`). Switching and losing are not fair,
  and bounded: "at last" means after the last fault.
* `BlackBoxUpload`: the task runs with the link taking its frame
  (`UploadTick(TRUE)`), time passes. `BlackBoxStates`: the task, with either of
  its two intervals over. The host and the application owe nothing.
* `LogPush`: the push task runs, and frames and acknowledgements that are not
  lost arrive; `MaxLost` bounds the losses.
* `CanSrc`, `BlackBox`, `BlackBoxRecording`, `WattStatistics`, `BspFlash`: none, they have
  safety properties only.

## 5. Properties

| property | hazard it answers |
|---|---|
| `LastImageSurvives` | the backup is invalidated only after the copy was verified; a copy cut short is redone; a lost boot record does not matter |
| `ImageAlwaysLeft` | the same when a block is stored over the backup whose installation is pending |
| `InstallInv`, `CopySucceeds` | erasing one sector ahead of the copy neither lags behind nor reaches what was copied |
| `EventuallyRuns` | the wish for an upgrade is forgotten; no livelock between check, idle and installation |
| `NeverLost`, `ImageRuns` | what was checked is still there when the loader jumps; without a backup a block may have taken it (`ImageRuns` does not allow for that). With a backup only the theorem of section 6 says it |
| `SentPrefixIsStored`, `BoardKeepsUp` | repeated configurations and blocks, losses in both directions |
| `SteadySessionNotRefused` | a board that kept its power never refuses what it acknowledged block by block |
| `AcknowledgedImageIsStored` | the final answer after a restart in mid-session |
| `HistoryNewestFirst` | start-up search, sorting with wrapped indices, and the tables kept by saves agree with the flash |
| `SectorsApart` | two parameters never share a sector, whatever was swept before |
| `Implements` | a save is all or nothing, and costs no value among the last `Keep[p]` |
| `SavedIsReadable` | success means it can be read back |
| `RingIsWaiting` | a full ring refuses, an empty one is empty, and the interrupt and the loop never take the same frame |
| `InOrder`, `NoneSkipped` | timeouts and repetitions do not bring back old frames or pass over new ones |
| `StuckFlagRecovers` | the flag set after its interrupt has already come |
| `AllButTheLatest` | the flag cleared between its test and the push |
| `CellsKept` | the interrupt takes and strings cells while the main loop unlinks and frees them, with no lock |
| `ReadInOrder` | a message whose pieces were lost is read, but nothing from another sender, no frames out of order and none twice; and a message may be overtaken by one other, if the scan passed it unfinished, never by more |
| `AddressesSettle` | two boards with one address both give it up or both keep it; two hosts; a host switched off; a host that forgets all others and offers an address that is taken |
| `NothingForgotten`, `NoImpostor`, `LossPerFailure` | power failing between index and data, in the erase ahead, in the recovery |
| `SeriousInOrder`, `ErrorEnds` | three callers save from one ring; a state that ends by counting |
| `RecordingComplete` | the tail is filled while the task saves, saving is refused |
| `EndIsTrue`, `SessionEnds` | commands in mid-upload, a counter not reset; `SessionEnds` leaves out the sessions caught in the endless loop of `xf_bbox.c:988` (`hung`) |
| `AllLogsReach` | acknowledgements late and repeated, the log overflows, the push stops, power fails |
| `PassedIsHeard` | an acknowledgement for a repeated frame moves the list past a type never told, or told for another day than the one that will be marked |
| `ChildFollowsParent` | machines below a suspended one |
| `FifoIsArrived` | the ring wraps, fills up and is written between the copy and the index of a pull |
| `HandledOnce` | input that is fed again, or pulled twice, brings no frame twice |
| `WritesStore` | the driver counts a unit too few, shifts a byte, or programs what an earlier unit left in its buffer; an erase counts its blocks |
| `FramesArrive` | a damaged length makes the receiver wait; what arrived whole behind it is found |

`FramesArrive` leaves out the frames that begin within the reach of a damaged or
too long header (`Shadowed`), because the code can lose them: behind a good frame
`protocol_decode` moves `data_index` back by everything left in the line buffer
(`protocol_matrix.c:162`), also by what earlier calls had brought, although
`recv_buf` no longer holds it. The index wraps below zero, and the frames held
are gone. Without the exclusion TLC shows such a behaviour. It also leaves out
frames whose own time ran out while they were held (`outwaited`).

### Findings

1. **Jump after a stale check** (`xf_upgrade.c:391`). The application is checked
   when the check state is entered; a data block handled before the timeout
   erases its first sector, and the jump does not look again.
2. **Installation after a stale check** (`xf_upgrade.c:961`). The backup is checked
   and its installation begins a round later. A configuration and a first block
   handled in between erase the backup, and the installation then erases the good
   application to copy what is left: no image remains.
3. **Vacuous acknowledgement** (`xf_upgrade.c:997`). After a restart both the
   announced size and the announced sum are 0, and the final check succeeds.
4. **Torn append** (`flash_param.c:504`). A slot torn by a power failure is
   programmed again without an erase; the save returns success.
5. **Ring overrun test** (`bkfifo.c:82`). An interrupt that empties the ring
   between the index update and the test makes the ring look full.
6. **Grandchildren stay suspended** (`fsm.c:390`). A machine two levels below a
   change is suspended and never resumed: what is below a resumed machine is
   looked up under its current state, which is still the suspend state.
7. **Writes across a unit** (`mcu/LKS32MC45x/bsp/bsp_flash.c:39`, `:101`). A write
   that begins inside a unit of 16 bytes and goes over its end is counted as if
   its first unit held as many bytes as lie before it: from 12 bytes into a unit,
   a write of 5 to 12 bytes stores 4 of them. Its last unit, when not full, is
   programmed with bytes the first left in `WD_32`, behind the end of the write.

### Behaviours met that no run asks about

Seen while modelling; the models have them, excluded or counted in the
properties, or leave them out where said.

* `flash_param.c:447`. The history goes from the newest sector to
  `save_sector + 1`, which is the oldest one. With two sectors that is the same as
  the second newest; with three or more the order is wrong, although
  `flash_param.h:398` promises newer data for smaller indices. TLC finds
  `HistoryNewestFirst` violated with `SecTabSize` 3.
* `xf_bbox.c:242`. When the data area is no whole number of records (`data_cnt` is
  rounded down, `:442`) the last one ends short of its end and erases nothing
  ahead. The first sector is erased only by the next record itself, after its
  index word; power failing between the two leaves the record of the lap before,
  checksum and all, under the new index. TLC finds `NoImpostor` violated with
  three data blocks of three units and records of two.
* `xf_bbox.c:301`. The block of index words before the one just begun is erased; with
  a single block, which is what `__bbox_data_init` reserves at least, that is the
  same, and the next restart forgets all records. TLC finds `NothingForgotten`
  violated with `IndexBlocks` 1, without any power failure in an operation.
* `watth_statistics.c:370`. The day that is marked as pushed at the end of the list is
  looked up then; if it changed on the way, the new day is marked although the
  first types were pushed for the old one, against `x_frame.h:843`. `PassedIsHeard`
  without its exception for `day_moved` is violated.
* `xf_bbox.c`. Record 0 is never looked at by the search (`:411`). Two power
  failures around the start of an index block forget the whole log. A torn record
  costs the next one, which is programmed over it. An erase command right after a restart may erase the wrong index block. A
  replenish command below the oldest record never returns (`:988`, `hung`). A
  read command for the gap behind the last record opens a session that is already
  sending. An error that is over before the task runs skips the error state.
* `can_src.c`: `leaked`, above; the scan for a whole message (`:163`) may pass one
  that the interrupt completes a moment later, and take one behind it of the same
  sender first (`ReadInOrder` allows for one); on a failed send `can_src_send_data` returns the
  length of the packet and not what was sent (`:143`).
* `x_log.c`: an acknowledgement that comes after an item was added to a full log
  takes an item that was never sent off the count (`overrun`); the result of
  `flash_param_save` is ignored (`:40`).
* `protocol_push.c:174`: an item whose interval is no longer than its own sending
  time starves those of lower priority.
* `watth_statistics.c`: a type with nothing under a day hides those behind it; a read that fails is taken for an empty week and saved (`:177`, not
  modelled).
* `fsm.c`: an event to a child while its parent's change is pending, and a
  machine suspended before its first run, end in states of the wrong level; an
  event to a suspended machine follows a null `p_fsm_state`. The application uses
  `fsm_tab.c`, not this library.
* `can_s.c:1128`: a board that gives its cache up sends nothing until it hears a
  frame. If all boards that are on have done so, each waits for another for ever:
  no host, no heartbeats. `AddressesSettle` leaves out just this case (`Stopped`).
* `rpc.c:123`: a call armed again inside its own action is forgotten. Nothing in
  the repository calls it.
* `param_cfg.c`: signed 8 and 16 bit parameters are read without sign extension,
  and the answer to a write has the value before it was clamped.
* `bsp_flash.c:64`: a write from an address that is no multiple of four copies
  `addr % 4` bytes to the rest of the word, which has `4 - addr % 4`; with 3 it
  writes past `WD_8`. `:162`: a read from there first takes `addr % 4` bytes and
  goes on at another such address, right only if the library's `FLASH_Read` reads
  a word from any address. Records of the black box whose size is no multiple of
  four begin there.
* `bsp_uart.c:97`: the first byte of a message goes to the transmitter past the
  ring, also when an earlier one is being sent.

## 6. Proofs

The run of a property shows it on a small instance; these theorems show it for
every value of the constants (flash of any size, any images, rings, windows,
numbers of types).

| module | theorem | says | assumes |
|---|---|---|---|
| `UpgradeProofs` | `TypeCorrect` | `Spec => []TypeOK` | - |
| | `JumpsToImagesOnly` | `Spec => []NeverLost` | - |
| | `InstallInvariant` | `Spec => []InstallInv` | - |
| | `CopyNeverFails` | `Spec => CopySucceeds` | - |
| | `LastImageIsKept` | `Spec => LastImageSurvives` | - |
| | `SessionTypeCorrect` | `SessionSpec => []SessionTypeOK` | - |
| | `SessionImplementsLoader` | `SessionSpec => Spec` | - |
| | `SessionsJumpToImagesOnly` | `SessionSpec => []NeverLost` | - |
| | `BoardIsNeverBehind` | `SessionSpec => []BoardKeepsUp` | - |
| | `PrefixIsStored` | `SessionSpec => []SentPrefixIsStored` | `~HasBackup` |
| `BlackBoxProofs` | `RecordingTypeCorrect` | `rcSpec => []rcTypeOK` | - |
| | `RecordingIsComplete` | `rcSpec => RecordingComplete` | - |
| | `StatesTypeCorrect` | `stSpec => []stTypeOK` | - |
| | `SeriousGoInOrder` | `stSpec => SeriousInOrder` | - |
| | `UploadCounters` | `upSpec => []upTypeOK` | - |
| | `UploadEndIsTrue` | `upSpec => []EndIsTrue` | - |
| | `StoreTypeCorrect` | `bbSpec => []bbTypeOK` | - |
| | `NothingIsForgotten` | `bbSpec => []NothingForgotten` | `WholeRecords`, `FewFailures`, two index blocks, three sectors of records, `~WordTears` |
| | `NoImpostorIsRead` | `bbSpec => []NoImpostor` | `WholeRecords`, `FewFailures`, two index blocks, `Roomy`, `~WordTears` |
| | `EachFailureCostsOne` | `bbSpec => []LossPerFailure` | the same |
| `CanProofs` | `CanTypeCorrect` | `Spec => [](TypeOK /\ fifo.de < MaxMsgNum)` | `~IrqInEnqueue`, `BusPrompt` |
| | `RingAlwaysIsWaiting` | `Spec => []RingIsWaiting` | the same |
| | `NoneIsSkipped` | `Spec => []NoneSkipped` | the same |
| | `FramesGoInOrder` | `Spec => InOrder` | the same |
| | `EachCellInOnePlace` | `srcSpec => []CellsKept` | - |
| | `ReadsAreInOrder` | `srcSpec => []ReadInOrder` | - |
| `FlashParamProofs` | `ParamTypeCorrect` | `Spec => []TypeOK` | - |
| | `NoSectorTwice` | `Spec => []SectorsApart` | - |
| | `SavesAreReadable` | `Spec => SavedIsReadable` | `~AppendTears` |
| | `StoreIsKept` | `LogSpec => Implements` | `~AppendTears` |
| | `HistoryIsRead` | `Spec => []HistoryNewestFirst` | `~AppendTears`, tables of two sectors |
| `BspFlashProofs` | `TidyWritesStore` | `drvSpec => []WritesStore` | `~AnyPlace` |
| `LinkProofs` | `RingGivesBack` | `Spec => []FifoIsArrived` | - |
| `WattStatisticsProofs` | `StatisticsTypeCorrect` | `wsSpec => []wsTypeOK` | - |
| | `StatisticsAreHeard` | `wsSpec => []PassedIsHeard` | - |

`InstallInv`, `CopySucceeds`, `LastImageSurvives`, and `NeverLost` for a board without
a backup partition, have an exception in their statement: `stale`. `loader_jump_race`
and `loader_install_race` show that it cannot be dropped. Why the store of the black box
needs `WholeRecords` and a second index block is under *Behaviours met*.
All of them rest on the assumptions of the modules. Of the loader: flash sizes are
multiples of the sector size, the backup is at least as large as the application
partition, a copy step moves at most a sector. Of the flash parameters: a table is
shorter than half the range of the save index, and the partition has a sector for
each entry of the tables on it. The comment of the registration macros asks the
latter of one parameter (`flash_param.h`: a partition of at least two blocks);
for several it is up to the application, and no code checks it.

*Jumping.* `NeverLost` alone is not inductive: nothing in it says that the
application is whole when the jump comes. `JumpInv` adds it for the two
situations in which a jump is next: the change to `goto_apl` is pending, or the
loader waits in `check`. The state table has two ways into `goto_apl`
(`OnlyTwoWaysToJump`), and a request never takes one. On a board with a backup
partition nothing touches the application in these situations; on one without, a
block may, and that sets `stale`.

*Installing.* `InstallInv` says what the partial copy looks like: behind
`prog` the image, from `prog` to `erase` blank flash, the backup untouched.
`ErasedAheadCells` and `RoomForSector` (erasing goes on in whole sectors and ends
exactly at the end of the partition) give that a step keeps this
(`CopyStepKeepsCopy`), and `FinishedCopyIsGood` that the copy passes its check.
`LastImageIsKept` then needs that a good copy is verified before the backup is
invalidated and that what is dropped as too large was not installable.

*Sessions.* Every step of `Upgrade` is a step of `Loader` or leaves the board
alone, so `NeverLost` carries over from `JumpsToImagesOnly` (`SessionImplementsLoader`).
`BoardKeepsUp` speaks of what the host saw answered; it needs `HostInv`, by
which the frames on the link fit the phase the host is in, and `KeepInv`, by which
no answer on the link, and not the host's own position, is ahead of the board.
`StoredInv` adds what lies in flash: the image up to the board's position, blank
flash from there to where it has erased. The theorem is for a board without a backup partition: with one the
loader itself invalidates the download once it is installed, and the property
would have to say until when it is asked.

*Upload.* `EndIsTrue` needs that `remain_len`, counted down from the whole
window and not from the records asked for, never stops the sending early:
`UploadInv` says that it covers the rest of the window, and that what is asked
for lies in it. That the search for the next record skips none is
`NextWantedIs`.

*Recordings and states.* The heart of both invariants is how a ring's indices
number its samples: `Newest(p, h, k)` is the k-th newest, and `NewestAfterGet`
that taking a sample shifts them by one, wherever the indices wrap.
`RecordingInv` says that the head ring holds the last samples up to the event and
the tail ring the last of all (`RingHolds`), and for each phase of a recording how
many samples have followed the event. In `StatesInv` the head ring is
a window (`Window`): samples in the order they were taken, none newer than the
newest, and its newest is not older than what was saved last of a batch. What
lies in it from before that sample, since the second-by-second saving takes the
newest and forgets the oldest, is at its old end and `HeadCnt - 2` samples at
most. The attempt to
prove `SeriousInOrder` showed that its first form, by which a batch ends with the
sample before the error, holds for rings of two samples only; the run had two. The
code has `BBOX_MAX_READ_DATA_CNT` 5. The property now says what the code does for
any number, and the run has three.

*The store of the recorder.* `StoreOK` says for each operation of a save what both
areas hold, while power has failed at most once inside one. Of the index area:
the two blocks show an index `m` (`Shows`: its block holds the indices up to `m`
and is blank behind, the head of the other block, if there is one, is smaller),
so that a restart finds `m` (`IndexFound`). Of the data area: from the next
record on its sector is blank (`Clean`), or that record was begun, is not sound
and what lies behind it is blank (`Redo`); and the sector after it was erased
before a record reaches it (`Ahead`). `Below` is the property itself, and it is kept because an erase, a
torn operation and the programming of one record make no other record sound
(`SoundBefore`, `BelowWrite`). `Restart` puts the three together: what the search
comes to is `m`, behind it, or 0 when there is nothing but record 0. Positions in
the data area are unrolled (`SectorPlace`): two positions less than a lap apart
are different units (`Disjoint`), however records and sectors lie to each other.
The assumptions are what the invariant needs and the code does not always give:
with one block the erase at slot 0 takes the block in use; with three, an erase
command right after a restart leaves an old head behind; with two sectors the
erase ahead takes the record before; a torn word hides the ones behind it.

*The store after many failures.* `NothingForgotten` speaks of one failure inside
an operation; `NoImpostor` and `LossPerFailure` of any number, and `StoreOK` is of
no use to them. `FrontInv` says instead that there are records `r` to `b`, the
front, that were begun and are not sound, the one before them sound (`Front`):
power failing in a save moves `b` up by one at most, a search comes back to `r`
(`SearchFront`), and what the index words show lies between the record to be
written and `b` (`Showing`). The losses are counted with it: the records `Gone` for
good and the length of the front are together no more than the failures, or one
more while a save is under way that can still fail (`Begun`). Neither count is
inductive alone: a record written over what a torn save has left is not sound and
stays in the front, and when one behind it is written well, all before that leave
the front and are gone (`GoneBefore`). `Match` is what makes the first property true: every record of the
lap before `b` that is sound is the one last stored, so that only the places of
the front hold older records, and those are not sound (`SlotShared`). `HeadLost`,
`HeadAdded` and `WordAdded` say for the index area what an erase, the first word
of a block and a word within one do to what is shown when that is ahead of the
record being written.

`Roomy` asks that the search reaches back by less than a lap, with a record
and a sector to spare, and by no more than a block of index words and two. The code
goes back 30 and a sector of the chip has 512 words, so the second always holds.
The first is a partition of at least 31 records and a sector; no code checks it.
In a smaller one the front can meet itself from behind, which the invariant does
not describe; no counterexample to the properties is known there. The number of
failures is bounded over the whole life of the store (`FewFailures`: `MaxFails <
LookBack`), although what counts is the length of the front. `WholeRecords` is
needed: with a remainder the last record erases nothing ahead (*Behaviours met*).

*Flash parameters.* What makes `flash_param_init` build the right tables is
said of the flash alone: `FlashInv`. The sectors with a parameter's header have
the ages 0 to n - 1, counted back from the newest save index modulo its range,
one sector each (`Chain`). At most one is without a value, and it is the newest
(its header was just written) or the oldest (it was being erased). From that,
`OlderIs` gives that the comparison of `param_sort`, which knows nothing of the
newest index, sorts by age, because a table is shorter than half the range;
`AllAreFound` that the table has room for what is found; `GivenApart` that the
sectors handed to the empty entries, counted up over all parameters, are
different and exist. While the program runs, `TabInv` ties table and flash: going
back from `save_sector`, the entries are the chain. A save moves the whole chain
by one (`MoveKeepsTab`, with `AgeMoved` for the index that wraps), and
`LossInSave` and `LossInInit` give `FlashInv` back for every place power can fail
at: erase begun or not, header lost, header written and no value. `SavesAreReadable`
also needs that the slots behind the last value are blank (`Clean`), which is what
a torn append destroys.

*The abstract store.* `StoreIsKept` maps every step of the manager to a save of
`ParamStore`, a lapse, or a stutter. `HistoryIs` first gives what `Stored` is, which is
defined by counting cells: the live cells of a parameter are the first slots of its
sectors (`LiveIs`), and its history lists them by age of the sector, then by slot.
Two histories are then compared through their cells: `LessIsThinned` and
`MoreIsThinned` turn "these cells are left, in the same order, and those that are
gone were at least `Keep` from the end" into membership in `Thinned`. That the cells
of the oldest sector are that far from the end (`OldestGoes`) does not follow from
`ParamInv`: it needs `FullInv`, by which every sector in a queue's history is full,
but for the newest one and, in a full table, the oldest, whose erasure may have begun.
`FullInv` holds because a save goes on to another sector only when the newest is full
(`TableReplaces`) and takes the oldest of a full table. For the other parameters, and
for power-up, nothing of this is needed: their live cells do not change
(`HistoryStays`). A torn append leaves a sector that counts as full with fewer values
in it, and with it the theorem is false: the next erasure costs more than it may.

*Reading histories.* `HistoryIsRead` is about the tables the code walks, not about the
flash: `CountInv` says that each entry of a table counts the values its sector
has (`CountStep`, for saves, and `CountStart`, for what start-up counts). With two
sectors the live cells are numbered without a gap: the values of the other
sector, then those of the newest (`TwoArePlaced`). `Stored` numbers the same cells
in the same order, and two such numberings are one (`SameOrder`), so the k-th value
back is found where `param_read_history` looks for it (`HistoryRead`). The second
assumption is needed: with three sectors the walk takes the sectors in the
wrong order (*Behaviours met*).

*CAN driver.* `DriverInv` says whose turn it is to dequeue (`TurnInv`: while the
controller has a frame, so that an interrupt may come, the main loop keeps away
from the far end of the ring), what the ring holds at every statement of the main
loop (`FifoInv`: what waits, less the frame just taken out and not yet loaded),
and that the controller has the frame last loaded or none (`BusInv`). Both
assumptions are needed: the interrupt inside `bkfifo_en` breaks `RingIsWaiting`
(`can_fifo_race`), and one that comes after the timeout dequeues together with the
main loop. `Enqueued` and `Dequeued` are what the ring's operations do to the
sequence of queued messages.

*CAN cells.* The two lists are linked cells; `IsList(links, start, T)` says that the
sequence `T` is what the links string together from `start`, no cell twice.
`FollowIs` gives that walking the links (`Follow`, a recursive function) finds `T`,
and `ListAppended`, `ListWithout`, `ListCut`, `ListFrom` and `ListJoined` what
the assignments of the code make of a list. `CellInv` says that there are
witnesses: the empty list `E`, the list of messages `M`, a chain of cells for each
message, and an owner for every cell (the empty list, the message that a cell heads,
or nobody); a cell is in exactly the list of its owner, and nobody owns exactly
the lost ones. Three parts carry the argument about the missing lock. `E` always keeps its first
two cells (`EmptyInv`), because the interrupt takes the third; so the link the
main loop copies out of `empt_list` (`FreedInv`) is still the front when it
hangs the freed cells before it. What it has read of the message it is about to
unlink (`UnlinkInv`) is still in the list, behind the same cell, with the link it
has read or, if that was none, one to what came meanwhile: then, and only then,
unlinking loses cells, those that `leaked` collects. And a message in the main loop's hands
(`HeldInv`) is out of the interrupt's reach. `CellsAreKept` counts: four sets that are disjoint and cover
the cells.

*CAN order.* `CacheInv` adds to the same witnesses what the cells hold (`Ordered`). All
cells of a message are from one sender (`FrameInv`), its frames' numbers grow
along the chain, and a last frame is at the end of a whole message and nowhere else
(`ChainOrder`). From one message of a sender to its next the numbers grow too, and only
the last of them may be unfinished (`ListOrder`): a frame that finds an unfinished
message goes to its end, and one that finds none starts a message behind all others.
The scan looks at one message after the other, and the interrupt may complete one it
has passed and append another of the same sender behind it. Those the scan passes are
unfinished when it does, and a sender has one unfinished message at a time; so at
most one message of a sender is ever left behind in this way, and none of them had been
overtaken before (`FoundOrder`, `Passed`). Once the message found is unlinked, the
others of its sender are all behind it, but for that one (`HeldOrder`). Frames lost on the bus, messages freed for their age and those
lost behind the last one only take numbers away. `BlankInv`, that no free
cell is marked whole, is what `free_son_cache` has to leave behind: without it a
message that has only begun would be read.

*Flash driver.* `DriverInv` says which bytes of the running write are still to
come (`Pending`), that the count of units covers them (`AtUnit`; for a write that
begins inside a unit this is where `Tidy` is needed), and that what a first unit
left in `WD_32` will be overwritten, because then only whole units follow.
`UnitProgrammed` is the effect of one `FLASH_Program`, `BlocksCounted` that an
erase counts the blocks its range has bytes of.

*Ring.* `RingInv` counts: the write index is the number of units arrived, the read
index some number of units pulled, both modulo the index range, and the cells hold
the last units that arrived. The lemmas of `Arithmetic` give that the difference
of two such indices is the number of units in the ring although they wrap at
different times, and that two of those never share a cell.

*Energy days.* `PassedIsHeard` says which amount was heard only while the day to be
pushed stays the same (`day_moved`, see *Behaviours met*). It needs `AcksFit`: from
the first acknowledgement with the number waited for all on the link have that number, none is for a type
already passed. One that is accepted leaves nothing but its own number behind,
so two sequence numbers are enough; the code has 256.

What is only model-checked: liveness (out of the prover's reach); the addresses on
the CAN bus and the log; the store in a partition that is not `Roomy`; of the link
`HandledOnce` and the frames, because `run_unpack` is defined by recursion; of
the flash parameters reading a history after a torn append; and
`SteadySessionNotRefused`.

## 7. Plan

Done: sections 2 to 6. What would come next, in this order:

1. **Link layer**, the other half: the send path with its locks and shared
   buffer, the send interrupt of the UART driver, routing between two links; a
   run for the frames `Shadowed` leaves out.
2. **A late CAN interrupt** (`BusPrompt = FALSE`): it and the main loop dequeue at
   the same time (`bsp_can.c:203`).
3. **Kernel**: `tasks.c` and `rpc.c` with deletion and arming from inside what is
   running.
4. **Several hosts** of the log and of the energy days, each with a count of its
   own; the long messages of `can_s.c`.

## 8. Not modelled

* Motor control and the analogue drivers: numeric code in an interrupt, little
  control state.
* Shell, debug output, formatting; checksum, md5 and protocol buffer code (pure,
  the last two third-party).
* Registration and start-up: run once, in an order the linker fixes.
* Tasks and remote calls: one loop over a list and a flag per call. Nothing in the
  repository deletes a task from inside another or makes a remote call; what the
  two do is in the guards of the components they call.
* `param_cfg.c`: tables of names and formatting of values on top of flash
  parameters, one request at a time.
* In the modelled components: `change_apl_def_version`, the prepare command and
  the forwarding of other modules' upgrades in `xf_upgrade.c`; reading, and
  writes from other than word addresses, in `bsp_flash.c`; several
  partitions, changing lengths and deletion in `flash_param.c`; reception in
  `bsp_can.c` (it hands frames to the callbacks, which is `Receive` of `CanSrc`); the reassembly of `can_s.c`
  (that of `can_src.c` with more lists); several groups
  and the rate of `protocol_push.c`; several partitions and the composition of
  the parts of `xf_bbox.c`; the amounts, the calendar and failing reads of
  `watth_statistics.c`.
