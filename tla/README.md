# TLA+ specifications of the Tab5 firmware

The program is a bare-metal firmware for the M5Stack Tab5 (ESP32-P4, Rust): a
console and a small browser over a virtual file system, a USB host stack, a
Wi-Fi coprocessor link and a network stack. This directory models the parts
whose correctness depends on the order in which things happen, checks them
with TLC on small instances, and proves the central facts of the file system,
the USB registry, automount, the Bulk-Only Transport, the Wi-Fi manager, the
transport to its coprocessor, the calls over it and the fetching of pages with TLAPS
for every value of the constants.

1. [Inventory](#1-inventory) — the parts, and what makes each correct
2. [Modules](#2-modules) — which module models which part, and how
3. [What is checked](#3-what-is-checked) — runs, bounds, fairness, findings
4. [What is proved](#4-what-is-proved)
5. [What is not modelled, and why](#5-what-is-not-modelled-and-why)
6. [What could come next](#6-what-could-come-next)

## 1. Inventory

### How the program runs

There is one thread and no preemption between components. `app.rs::run` is a
loop over display frames (57.3 Hz); each frame services, in this order, the
USB side (`InputManager::service`), automount, and the Wi-Fi manager, polls a
key, and runs at most one shell command to its end. Full-screen programs run
loops of their own: those with the system bar automount silently, others (paint,
the touch test) service the bus and call nothing else. Interrupt handlers only
latch facts for the loop: the root port's connection edge, the causes of a
controller channel, the 1 kHz tick, the end of a scanout.

So concurrency here is of four kinds, and the models follow it:

* the physical world moves at any instant: cables, cards, packets, the drive and
  the coprocessor at the other end;
* an operation that takes long (a bus rescan takes seconds) is interleaved with
  that world step by step, although nothing else of the firmware runs in it;
* work cut into pieces, one per frame (a Wi-Fi job, a fetch, a page, a cache
  write), meets keys, taps, answers and losses between two of them;
* components see each other's state one or many frames late.

### Components

| Component | State | Operations | Interacts with | What makes it correct |
|---|---|---|---|---|
| VFS (`fs/vfs.rs`, `registry.rs`, `fingerprint.rs`) | mount table, open-file table, generation counter | mount, umount, verify, prune, open, read, write, seek, close, create, remove, rename, write_stream | devices through `Devices`, connection epochs of the USB registry | a handle or a mount never goes on to another medium; a write only reaches the medium that was mounted; the reserved names stay free |
| USB registry (`usb/registry.rs`, part of `input.rs`) | slots, hub, reservations of usbM numbers, epochs, scan failures | edge, rescan, incremental scan, sweep, power cycle | hub and controller drivers below; VFS and automount above | numbers are distinct and stable; what has gone is noticed; one counter tells of every change |
| Automount (`app/automount.rs`) | offered and pending sets, deadlines, topology seen | service, reconcile, on/off | registry (attached ids), VFS (mount, prune) | every drive is offered once; the user's umount stands; nothing gone stays mounted; asking ends |
| Bulk-Only Transport (`usb/bot.rs`, `bot-protocol`) | tag, toggles, recovery count, usable flag | command, data phase, status, reset recovery | controller driver below, class driver above | data crosses once and in order; the status belongs to the command; after recovery both sides agree |
| Mass Storage class and byte stream (`usb/msc.rs`, `fs/usb_msc.rs`, `stream.rs`) | readiness, sense, cache-flush memory, one cached run of blocks | queries, read, write, flush | transport, VFS | failures are not taken for success; the cached run never claims what is not on the medium |
| Controller driver (`usb/hcd.rs`) | channels, DMA mode and lists, generations, pending causes | transfers, splits, periodic channels | hardware, interrupt handler | outcomes reported are what crossed; a transfer given up leaves nothing running |
| Hub driver and enumeration (`usb/hub.rs`, `protocol.rs`) | port status, addresses | port reset, control transfers, configuration | hub, devices | one device at address 0; what is enumerated is there |
| HID and input (`usb/hid*.rs`, `input.rs`) | last report, key queues, rescan interval | poll, deliver | registry, screens | keys arrive once and in order; rescans back off |
| SD host (`sdmmc.rs`, `sdio.rs`) | clock, DMA engine, status bits of two slots | identify, transfer, activate | card, coprocessor | a transfer's end is its own; no slot runs at the other's clock |
| Downloads, disk tests (`app/files.rs`, `app/shell.rs`) | a transfer under a temporary name; blocks overwritten | commands | VFS, network, drives | a download replaces a file whole or not at all; a test puts back what it overwrote or says it did not |
| Wi-Fi manager (`app/wifi_manager.rs`, `wifi_manager/gui.rs`, `wifi_retry.rs`, `startup_screen.rs`) | session, stack, attempt, job and stage, credentials, timers | service, panel's jobs, console's commands, boot | coprocessor link, network stack | only passwords that worked are kept; retries end; OFF is quiet; every request is answered |
| Coprocessor link (`wifi/*.rs`) | wrapping counters, staging buffer, pending request | call, poll, event | SDIO | counters in step; an answer is matched to its own request |
| Network, TLS, HTTP, TFTP (`net/*.rs`) | sockets, configuration, parser, queues | poll | Wi-Fi, fetch | data arrives as sent; identity is earned; whole means whole |
| Page fetch (`app/fetch.rs`) | hop, connection, DNS slot | poll, redirect, release | network, cache | every exit releases what it took; never less secure |
| Browser cache (`browser/src/cache.rs`, `app/cache_store.rs`) | index, records, bodies, ages | lookup, store, evict | VFS | a record vouches for its own body; a full volume never loses what is being written |
| Browser screen (`app/browser.rs`) | page, history, questions, controls, focus, images, damage | keys, taps, tick, draw | fetch, cache, engine | nothing typed or agreed to is lost or sent unasked; the screen shows the state |
| Browser engine (`browser/src/*.rs`) | decoder, tokenizer, builder, lines, text editor | bytes in, page out | browser screen | how bytes are cut does not matter; text, controls and links are where the page says |
| Screens and console (`app/system_bar.rs`, `console.rs`, `pointer.rs`) | route, gesture, panel; cells and pixels | frame, transition, print, edit | input | input reaches the screen it was meant for; pixels are the cells |
| Block formats, other commands, image decoders, drawing, board support | text, pixels, registers | - | - | pure functions and hardware sequences |

`PROJECT.json` lists every component with its files and status, and every
hazard with the line where it bites and the properties that would catch it.

## 2. Modules

| Module | Models | Source |
|---|---|---|
| `Vfs` | mounts, handles and volumes over buses and media that change | `fs/vfs.rs`, `registry.rs`, `fingerprint.rs`, `path.rs` |
| `UsbNumbers` | abstract: what the registry promises about usbM numbers | `usb/registry.rs` |
| `UsbRegistry` | the registry and the part of `InputManager::service` that drives it; implements `UsbNumbers` | `usb/registry.rs`, `input.rs` |
| `AutoMount` | automount, over the bus of `UsbNumbers` (INSTANCE) | `app/automount.rs` |
| `BotTransport` | one BOT session: host, class driver's replays, and a drive on a lossy wire | `usb/bot.rs`, `msc.rs` |
| `MassStorage` | SCSI commands, sense, flush, and the byte stream's cached run | `usb/msc.rs`, `fs/usb_msc.rs`, `stream.rs` |
| `HcdPackets`, `HcdPeriodic` | channel 0 with splits and mode switches; the persistent Interrupt IN channels | `usb/hcd.rs` |
| `UsbEnumeration` | hub bring-up, port reset, control transfers, one sweep | `usb/hub.rs`, `protocol.rs`, `registry.rs` |
| `InputSources` | boot reports to keys and motion; spacing of rescans | `input.rs`, `usb/hid*.rs` |
| `SdHost` | one SD controller shared by the card and the coprocessor | `sdmmc.rs`, `sdio.rs` |
| `DiskTests`, `Downloads` | the shell's raw disk tests; tftpget and httpget | `app/shell.rs`, `app/files.rs` |
| `SystemBar` | routes, gestures, panels, batches of keys in a frame | `app/system_bar.rs`, `pointer.rs`, `system-ui` |
| `Console` | cells, line editor, pixels | `console.rs` |
| `WifiManager` | session, stack, attempts and timers; the jobs of panel, console and boot | `app/wifi_manager.rs`, `wifi_manager/gui.rs`, `startup_screen.rs` |
| `HostedLink`, `RpcLink`, `RpcMessages` | the transport's counters; calls and answers over it (both with their theorems); their encoding | `wifi/*.rs` |
| `NetStack`, `Tftp`, `Http`, `Tls` | configuration and DNS; the TFTP client; one HTTP transaction; one TLS connection | `net/*.rs` |
| `PageFetch` | a page or image from its address to its end | `app/fetch.rs`, `browser.rs` |
| `BrowserNav`, `BrowserInput`, `BrowserImages`, `BrowserScreen` | navigation and history; keys, taps and controls; image scheduler; what is repainted | `app/browser.rs` |
| `BrowserCache` | records and bodies, one file operation at a time | `browser/src/cache.rs`, `app/cache_store.rs` |
| `Encoding`, `Html`, `Document`, `Layout`, `Url`, `TextInput` | the browser engine, from bytes to boxes | `browser/src/*.rs` |
| `VfsProofs`, `UsbRegistryProofs`, `AutoMountProofs`, `WifiProofs` | the theorems of each | - |
| `StorageProofs`, `NetworkProofs` | the theorems of `BotTransport` and `SdHost`; of `PageFetch`, `Downloads`, `Tftp`, `NetStack` and `BrowserCache` | - |
| `MC*` | instances for TLC; `MCNetwork`, `MCBrowser` and `MCDevices` put several components into one run | - |

The lines each module stands for are in `PROJECT.json` under `map`; a short helper,
or one whose lines another entry already names, has no entry of its own. What
follows are the correspondences a reader needs before opening a module.

### Vfs

`mounts` is `Vfs.mounts`, indexed by volume because a volume's mount point
follows from its name (`files.rs`, attach); `files` is the open-file table by
handle; `nextGeneration` is the counter that both use to tell one mount from
the next. `location` and `epoch` are what the VFS asks the USB registry for;
`inside` is the medium that really answers behind a device, which the VFS can
only see through a fingerprint (capacity plus whichever of the `Sources`
answered). `disk` holds, for each medium and MBR entry, a tree of names to
entries; a file is its size. `opened` and `mediumFailed` are history.

A VFS call is one step, because nothing else runs in it. What it finds when it
reaches for the medium is a choice inside the step: refused before anything was
written (`WriteRefused`), answered (`WriteAnswered`), failed where the error
says so (`MediumFailed`), failed where the error is flattened on its way up
(`MediumFailedUnseen`). `WriteVolume` puts them around every change, as
`write_volume` does with `confirm_medium` before and `settle_after_write`
after. Operations that change nothing (listing, metadata, usage) and failed
calls that change nothing have no action: they are stutters. Names are compared
through `FoldOf`, since FAT does not distinguish case and `reserved_mutation`
and `is_open` have to know it.

Constraints of the model: the bounds on generations, epochs and sizes; two
volumes never hold the same medium; a handle whose cached size is stale is not
written to past the bound.

### UsbRegistry and UsbNumbers

`plugged`, `rootEdge`, `latch` and `hubAwake` are the physical side: what is in
each socket, the edge latched by the interrupt handler, the edges latched by
the hub, and whether the hub still has its address. The rest is `UsbHost`. `at`
says where the frame loop is: `TakeEdge`, the sweep of occupied ports, the
incremental scan of empty ones, a rescan, one port at a time, and
`CableMoves` may come between any two. Frame timers are a choice: at any frame
one may be due. A connection epoch only grows and is only compared with itself,
so the model keeps which reservations are `current` instead of the numbers.

`UsbNumbers` says it in three actions: a drive is found (under the number kept
for its place, or else the next free one), all drives are lost for a while, and
something is unplugged. The refinement maps a place's number to that of an
occupied slot with a current reservation, and what is kept to any current
reservation.

### AutoMount

`offered`, `pending` and `enabled` are the fields of `AutoMount`;
`seen_topology` is only compared with the registry's counter, so `moved` keeps
whether they differ; deadlines are counted in retry intervals from now. `Look`
is the whole of `service_with_report`, with `Reconcile` for what becomes of the
drives: removals first, then the drives that are new or unanswered are asked,
with four choices for how each answers (does not open, has no partition table,
an entry is late, an entry is refused). The bus steps are those of `UsbNumbers`,
extended with what they do to mounts (`severed`: the connection epoch of a mount
has moved on). The user's `mount`, `umount` and `automount on|off` come from the
shell, and so only after automount had its turn (`AtPrompt`). A full-screen
program that services the bus without automount (paint, the touch test) is the
bus moving several times between two looks.

### BotTransport and MassStorage

The host's variables are the fields of `BulkOnlyTransport` and its place in
`execute_command`; the retry counters of `run_bulk_packet` are `errors` and
`timeouts`. `drive` is the other side of the wire as the specification of
Bulk-Only Transport and the comments of `bot.rs` describe it: it takes a packet
with the toggle it expects once and acknowledges a duplicate without taking it,
sends again what was not acknowledged, may end a read early, may report a
failure or a phase error, and may keep a status it should have dropped in a
reset. A packet or its handshake is lost at any point. The packets of a data
phase are numbered, so that a duplicate, a loss or an exchange is visible in
`taken` and `received`. `MassStorage` stands on what this guarantees: a command
succeeds, fails with a sense the drive holds, or is lost with or without having
been carried out.

### The Wi-Fi manager

`m` is `struct Manager` with the coprocessor behind it, a record that a frame or
a command transforms; `screen` is what the panel and the splash screen know. A
frame is one call of `Manager::service` and asks the coprocessor one thing at
most, so a job of the panel is a sequence of stages (the stage numbers of
`gui.rs`), between which the user, the air and the link act. Each request is
answered, refused, lost before or lost after it was carried out. A command of
the console runs to its end in one step. Deadlines are choices.

### The layers of the network, the browser, the devices

Each of these modules is one layer against the layers around it as they may
behave: whatever the neighbour may answer, lose, repeat, delay or cut is a
choice. The neighbour's own module shows what it guarantees. Where a module is
parameterised by what the wire or the page holds (`Http`, `Html`, `Document`,
`Layout`, `Url`), a text is a sequence of characters of a small alphabet, made
of those that the code treats differently.

`MCNetwork`, `MCBrowser` and `MCDevices` instantiate several such modules side by
side. A behaviour runs one of them, chosen at the start (`focus`), and the
others stand still, so the state space is the sum of theirs and not the
product. A property of such a run is a theme (for instance
`WhatArrivesIsWhatWasSent`) with one conjunct per component that names the
component's own properties; read those where they are defined, with what they
say of the code.

## 3. What is checked

Run each with `tlc -config X.cfg M`; all finish within five minutes.

| Run | Module, configuration | Shows |
|---|---|---|
| `vfs_media` | `MCVfsMedia` | a USB drive comes, goes, moves to another port and is exchanged for a twin of equal capacity between any two operations: mounts, handles and writes stay with the medium and the connection they were made for |
| `usb_registry` | `UsbRegistry` | cables move inside rescans, scans and sweeps: numbers are distinct and stable, automount's one counter is enough, and the registry implements `UsbNumbers` |
| `automount` | `AutoMount` | nothing left behind, nothing forgotten, what the user umounts stays umounted, asking ends |
| `bot` | `BotTransport` | data crosses once, success means done, recovery synchronizes or gives up, writes begin once, every command returns |
| `wifi` | `MCWifi` | boot with its short retries, then the panel or the console: only passwords that worked are kept, a stack has its link, OFF is quiet, every token is answered, the splash screen gives up, and the console settles |
| `network` | `MCNetwork` | eight layers between a page and the coprocessor: counters stay in step, data arrives as sent, an answer belongs to its question, a redirect is never less secure |
| `browser` | `MCBrowser` | fourteen instances of the browser's parts: bytes become the page they say, the reader's choices are kept, what is kept is whole, the screen shows the state |
| `devices` | `MCDevices` | thirteen instances around the drivers, the shell and the screens: what is reported happened, what failed is left clean, input reaches the screen it was meant for |
| `usb_inherit` | `UsbRegistry`, `UsbInherit.cfg` | a violation: finding 1 |
| `sd_read` | `MCDevices`, `SdRead.cfg` | a violation: finding 2 |
| `hcd_fallback` | `MCDevices`, `HcdFallback.cfg` | a violation: finding 3 |
| `browser_back` | `MCBrowser`, `BrowserBack.cfg` | a violation: finding 4 |

Each property of a passing run has a mutant in `PROJECT.json`: a plausible error
in the modelled code under which TLC finds it violated.

### Bounds

* `vfs_media`: the RAM disk and one USB volume, two media of equal capacity, two
  ports, one open file, generations to 4 and one disconnect per port. Two media
  that capacity does not tell apart are what an exchange needs; a stale handle
  needs a mount, its loss and a second mount. One file of at most one unit
  separates an empty file, a full one and one that was replaced. The names of
  the tree are `devices`' part `tree`: the RAM disk and an exFAT card (mounted
  read-only, so that the tree that changes is the one the names are reserved on),
  seven paths, two of them spellings of others, up to three names deep so that
  `/vol/<name>/...` falls on the RAM disk when the volume is not mounted.
* `usb_registry`: a hub of two ports, two drives and a keyboard, four cable
  movements, four numbers (more than places, as 16 is in the code, where the
  hub has at most eight ports). The view (`Seen`) counts numbers from `nextId`,
  which is sound since they are handed out in a circle and only compared for
  equality; no liveness is checked in this run.
* `automount`: two places, two numbers, one volume each, a budget of two
  intervals, two drives numbered: numbers are not reused in this run. Findings 7
  and 8 name the constants under which they are, and those under which a drive
  has two volumes.
* `bot`: four commands (queries without data, of which one may not be replayed,
  a read and a write of one or two packets), the code's limit of two recoveries,
  two packet retries and one timeout retry (20 and 4 in the code: a retry repeats
  the same state, so a repeat of a repeat shows what more would), and five tags.
* `wifi`: one network whose password is right and one whose password is wrong,
  one unread event, and in one behaviour one giver of orders, the panel or the
  console. Boot, its retries, the air and resets belong to both.
* `network`: counters that wrap after four (`HostedLink`; a byte counter read in
  two digits), two requests and two frames under way (`RpcLink`), bytes of four
  values and two length digits (`RpcMessages`), two resolvers of three (`NetStack`),
  three blocks with numbers modulo three, so that one comes round (`Tftp`),
  replies for each way of framing and each way of being cut short (`Http`), six
  peers by how they end and four policies (`Tls`), two redirects between a
  plaintext, a pinned and a named host and a file (`PageFetch`).
* `browser`: three addresses of which two share a hash and two a bucket; three
  images of which two fit; pages of up to four lines in a viewport of up to four
  rows; texts up to five bytes; eight vocabularies of tags with five tags or
  characters each; grids with spans, fixed and free columns. Navigation has one
  history entry in each direction more than a loss needs to be seen.
* `devices`: per part, two ports, two channels or two blocks more than one, two
  faults, which may hit the operation and its recovery, and as many calls as the
  bit of one call needs to be mistaken for another's.

`CHECK_DEADLOCK FALSE` is set where a bound makes the model stop: generations and
epochs (`vfs_media`), tags (`bot`), and the counts of faults, moves and frames in
the composed runs.

### Fairness

* `AutoMount`: `WF(Look)`, because the frame loop calls automount on every frame
  and `BudgetRunsOut` is about a system that is not kept in a full-screen
  program for ever; `WF(Tick)`, because time passes. Nothing is assumed of the
  user or of drives.
* `BotTransport`: `WF(Packet \/ Recovery \/ ClassDriver)`. A command is a loop on
  the host whose every step ends, with a result or at a time limit, so some step
  of it is always taken. Nothing is assumed about which outcome: a drive may
  fail for ever, and `CommandReturns` still holds.
* The Wi-Fi run: weak fairness of the frames in the behaviours of the console,
  which calls `service` on every frame and whose timers run out. Nothing is
  assumed of the air or of the access point.

### Findings

Where the code does something else than its comments or documents say. The first
four are runs that TLC finds violated; of the others, the formula in the second
column is in the module and says what the comment says, and the constants in
brackets show it where the module's run does not.

| # | Formula | What the code does |
|---|---|---|
| 1 | `UsbRegistry.ReplacedDriveDoesNotInherit` | Only occupied ports are swept (`registry.rs:963`), so a drive a rescan failed to find leaves its number to whatever is put in that port next. |
| 2 | `SdHost.DoneIsDone` | A single-block read does not clear DTO before its command (`sdmmc.rs:755`) and can take a late transfer's end for its own. |
| 3 | `HcdPeriodic.FallbackPidAgrees` | A report that completes while its channel is being given up is seen by neither of two reads (`hcd.rs:3617`), and the fallback polls on with the wrong toggle. |
| 4 | `BrowserNav.GoingBackLeavesTheResult` | Going back from a form's answer to the page at the same address only scrolls (`app/browser.rs:3046`). |
| 5 | `Vfs.MediumFailureTakesMountDown` | A medium failure inside `write_stream`, or one mapped to another error, leaves the mount (`vfs.rs:1768`). |
| 6 | `Vfs.VerifyKeepsTheSameMedium` | When some sources of a fingerprint answer and others do not, an unchanged medium counts as changed (`vfs.rs:672`; two `Sources`). |
| 7 | `AutoMount.EveryVolumeAccountedFor` with `MaxFound > IdLimit` | Numbers that come round between two looks belong to drives that are never mounted (`automount.rs:214`; `Slots = {left1}`, `IdLimit = 2`, `Partitions = {1, 2}`, `Budget = 1`, `MaxFound = 3`). |
| 8 | `AutoMount.UmountStandsUntilUnplugged` | While its drive is pending, an umounted volume is mounted again (`automount.rs:238`; the same constants with `IdLimit = 3`). `UmountStandsOnceExamined` is the part that holds. |
| 9 | `WifiManager.OffIsRemembered` | After a forget whose answer was lost, OFF writes no marker and the next boot turns Wi-Fi on (`gui.rs:411`). |
| 10 | `WifiManager.OffMeansPoweredDown` | A forget that fails while Wi-Fi is off leaves the coprocessor powered (`gui.rs:178`). |
| 11 | `WifiManager.ForgottenIsNotTried` | A retry that is due while a forget waits for its answer connects with nothing (`wifi_manager.rs:1142`). |
| 12 | `HostedLink.InStep` without `cut` | A staging read that breaks off leaves the counters apart (`hosted.rs:401`). |
| 13 | `RpcLink.AnswersMatch` without `orphaned` | With a peer that echoes no uid, a repeated call takes the late answer of the first (`rpc.rs:444`). |
| 14 | `NetStack.NotFoundWasAnswered` without `disturbed` | Resolvers replaced under a query make it fail as not found (`dns.rs:196`). |
| 15 | `PageFetch.NotSentMeansNotSent` | A POST that was redirected and then failed is called not sent (`browser.rs:1461`). |
| 16 | `BrowserNav.ForwardIsEmptied` | A page that lands while a question is open withdraws it, and its entry returns to the emptied stack (`browser.rs:2494`). |
| 17 | `BrowserNav.LoadingIsTrue` | A request answered on the page while a transfer is pending leaves `loading` set (`browser.rs:603`). |
| 18 | `BrowserScreen.NothingStale` | Three ways a highlight, a list's row or an arrow stays drawn (`browser.rs:3053`, `:3474`, `:2985`). |
| 19 | `BrowserInput.StartsWithAnEnabledOption` | A list may start with a disabled option (`document.rs:988`). |
| 20 | `Layout.LinesFit` | A piece of a block is measured in another run's face (`layout.rs:1733`; `Mixed = TRUE`). |
| 21 | `Layout.ReadingPositionIsKept` | Laying out again moves the window by the gap above the first line (`layout.rs:586`). |
| 22 | `Html.RoundTrips` | After `<textarea/>` the first reference makes the rest text (`html.rs:1178`; `SelfClosedTextarea = TRUE`, `MaxPieces = 3`). |
| 23 | `Url.DirectoryIsBare` | A directory's query and fragment stay when the path ends in a slash (`url.rs:550`). |
| 24 | `MassStorage.DeclinedOnlyByTheDrive` | A flush whose sense was lost is remembered as unsupported (`msc.rs:811`). |
| 25 | `DiskTests.RestoredIsTrue` | Restoring the target may damage a block already checked (`shell.rs:8822`; `Downwards = TRUE`, `Faults = 1`). |
| 26 | `InputSources.NoSourceStarves` without its exception | Keys of a keyboard polled between frames always come first (`input.rs:395`). |
| 27 | `Console.ScreenShowsCells` | The cursor's block stays where an empty line was printed (`console.rs:322`; `<<>>` in `Lines`). |
| 28 | - | `pressed` and `released` of the mouse miss a click within one update (`hid_mouse.rs:165`); button edges are not modelled. |
| 29 | `Tftp.BlocksInOrder` with `Blocks > Wrap` | A second transfer of the server that was left behind has its block taken for the next one when the numbers come round (`tftp.rs:187`; `Blocks = 4`, `Wrap = 3`). |

Two things looked wrong and are not. The root edge voids every reservation
before the slots are emptied (`take_root_connection_change`); no number can be
handed out in between, since a rescan empties the slots first
(`NumbersDistinct`). And losing VBUS in a power cycle counts as a disconnect of
every drive: numbers and mounts go although nobody touched a cable. The comment
in `clear` speaks of the sessions only; the model does what the code does, and
`UntouchedDriveKeepsItsNumber` excludes the drives behind a port that lost power.

## 4. What is proved

`VfsProofs`, for any volumes, media, ports, tree, bounds and sources that satisfy
the four assumptions of `Vfs` (the RAM disk is a volume and no other volume is on
its device; its medium is FAT; markers such as `NoPort` are not members of the
sets they mark; bounds are numbers):

* `TypeCorrect`: `Spec => []TypeOK`. One lemma per action, under them one for
  each building block of a write.
* `GenerationsAreDistinct`: `Spec => []GenerationsDistinct`.
* `StaleHandlesStayStale`: `Spec => StaleStaysStale`.
* `WritesReachTheirMedium`: `Spec => WritesReachTheMountedMedium`.
* `ReadersAreUninterrupted`: `Spec => []ReadableMeansUninterrupted`.
* `UmountWaitsForHandles`: `Spec => UmountStrandsNoHandle`.
* `ReservedNamesStay`: `Spec => []ReservedNamespaceIntact`, for any folding of names
  and any tree whose paths are sequences of names that have one.

All but the first would each go through every action. Instead, `StepShape` says
what any step can do: mounts are dropped and the counter moves on, or one mount
is made with the counter's generation (`TableMoves`); a handle is closed, kept
with its volume and generation, or new with the generation of a current mount
(`HandlesMove`); a volume's content changes only where a write was granted
(`ContentMoves`); the RAM disk is left alone (`RootUntouched`). `NextShape` proves
it once, action by action, and the theorems follow from the shape.

The inductive invariant is `IInv == TypeOK /\ RootStays /\ GenerationsDistinct`.
`RootStays` (the RAM disk is mounted read-write on its own memory, which always
answers) is needed because `confirm_medium` exempts it: without that, a write
through it would have no identity behind it. `GenerationsDistinct` is needed for
`StaleStaysStale`, where a new mount must not carry a generation that an old
handle names, and says for that purpose that handles are behind the counter.

Two theorems add to it. `ReadersAreUninterrupted` needs `OInv`: a mount's device
is where it was, or off the bus with an epoch that moved on (`OffTheBus`), and a
handle's history is that of its mount (`OpenedAsMounted`); `NextMoved` says that a
step keeps a mount's print and epoch, drops it, or makes it anew.
`ReservedNamesStay` needs `NInv`: nothing but the RAM disk's volume leads to the RAM
medium (`RamIsAlone`), and no handle is open on a reserved path of it
(`OpenPathsAreFree`), since a write or a truncation goes through the handle and is
not looked at again.

`AutoMountProofs`, for any places on the bus, partitions, numbers, budget and
bound on drives (`AutoMountAssumption`: they are numbers and there is at least one
usbM number), and, except in the last, with numbers reused as often as they come
round:

* `TypeCorrect`: `Spec => []TypeOK`.
* `NothingIsLeftBehind`: `Spec => []NothingLeftBehind`, which is inductive as it
  stands.
* `UmountStands`: `Spec => []UmountStandsOnceExamined`. The inductive invariant is
  `IInv == TypeOK /\ NumbersAreKept /\ FirmStaysDone /\ UmountStandsOnceExamined`.
  `FirmStaysDone` says why a look does not touch such a volume: its drive is
  attached, was offered and is not pending. `NumbersAreKept` (a drive that answers
  does so under the number its place keeps) is needed for an unplugging, where
  `firm` loses what was kept at the places and `Attached` what answered there.
* `EveryVolumeIsAccountedFor`: `Spec => []EveryVolumeAccountedFor` under
  `MaxFound <= IdLimit`, that is, while no number is given a second time; without
  the assumption it is false (finding 7). The inductive invariant is `AInv`:
  numbers are given out in order and those from `found` on were never used
  (`NumbersAreNew`), so a new drive is never one that was offered; no place still keeps the number of a severed mount (`SeveredAreGone`), so
  a look only drops mounts of drives that have gone; and a drive that was offered
  and is not pending has been answered for (`ExaminedAreAnswered`), which
  `LookAnswers` shows for the drives a look asks.

`UsbRegistryProofs`, for a hub of any size, any devices, any limit on failed scans
and any number of cable moves, as long as there are more usbM numbers than places
on the bus (`CountsAssumption`; in the code 16 against a socket and the 8 ports of
one hub) and the markers are not devices (`DevicesAssumption`):

* `TypeCorrect`: `Spec => []TypeOK`. That the failed scans stay within the limit
  needs `ScansCounted`: no scan is under way once they were given up.
* `NumbersStayDistinct`: `Spec => []NumbersDistinct`. `FreeIdIsNext` shows that the
  search of `assign_storage_id` ends at a number nobody holds, the first one going
  round from the last: `SomeIdIsFree` by counting, `Circle` for the arithmetic.
  The inductive invariant is `RInv == Typed /\ Numbered /\ Reserved /\
  AboutToBind`. An edge at the socket voids every reservation while the drives are
  still in their slots; were one numbered then, it could be given the number of
  a drive that is attached. `Reserved` says that such drives exist only between
  the edge and the rescan that clears the slots, where nothing is bound.
  `AboutToBind` says that scans and rescans bind into empty slots.
* `RegistryImplementsNumbers`: `Spec => ImplementsNumbers`, from `RInv`. Edges and
  sweeps map to `Unplug`, clearing the registry to `LoseAll`, a bound drive to
  `Find`, everything else to a stutter.
* `AutomountIsTold`: `Spec => AutomountMissesNothing`.
* `UntouchedDrivesKeepTheirNumbers`: `Spec => UntouchedDriveKeepsItsNumber`. The
  inductive invariant is `UntouchedStay`: outside a rescan a pending edge of the
  socket leaves no hub that answers and no drive that was not moved, so the edge
  only ever voids the numbers of drives that were; the edge that a rescan finds
  at its end is its own and is discarded.

In `StorageProofs`, about `BotTransport`, for data phases of any lengths, any retry limits, at least
one recovery and any number of tags (`LengthsAssumption`, `LimitsAssumption`):

* `TypesHold`: `Spec => []TypeOK`.
* `DataIsTakenOnce`: `Spec => []NothingTakenTwice`.
* `DoneIsDone`: `Spec => []SuccessMeansDone`.
* `SessionsAreSynchronized`: `Spec => []SynchronizedBetweenCommands`.
* `WritesAreBegunOnce`: `Spec => []WriteBegunAtMostOnce`.

All five follow from one inductive invariant, `IInv`, which says for each place of
`execute_command` how far the drive is. While the OUT toggles agree the drive is
where the host thinks; while they differ it is exactly one packet ahead, because
it took one whose handshake was lost (`AtCommand`, `AtData`, `AtStatus`). That is
why a packet sent again is never taken again, and why a host that gives up on a
data phase does not know how much was written. `Tags` says that whatever
status the drive still has queued from before is of an older command, so a status
with the right tag is this command's. `Agreement` says that the IN toggles move
together everywhere but between the two halves of a reset recovery, and that a
recovery whose half failed ends the session.

In `StorageProofs`, about `SdHost`, for any transfers, faults and calls (hypothesis
`CardsAreThere`: there are no other kinds of transfer, and the marker for none is not
one of the things it stands for):

* `ControllerIsShared`: `Spec => []TypeOK`.
* `SharedClockSuitsBoth`: `Spec => []NoCardIsOverclocked`.
* `ActiveCoprocessorIsReady`: `Spec => []ActiveIsReady`.
* `TransfersMoveTheirOwn`: `Spec => [](DoneIsDone /\ DoneIsOnTheMedium /\
  DmaEndsWithItsCall)`, where no block is read with `read_block_aligned`: with one
  that is, all of it is false (finding 2, the run `sd_read`).

The inductive invariant is `Sharing`, with `Moving` for the last of them. The two cards
are activated side by side and each sets the divider that both live on, so
`Clocked` says for each place of either sequence what the divider may be: it is 4
only while the microSD card has been told of High Speed and the coprocessor has not
taken its own clock, and that the coprocessor counts as the second card (`second`)
as soon as it is active is what keeps a card activated later from raising it. `Activated`
says how far a command sequence is whose commands and answers may be lost. `Moving`
says that the engine is on only while a transfer waits, and that a data phase still
to come while one waits is its own; so one that comes late finds the engine off and
ends in an error that the next transfer clears before its command.

`WifiProofs`, for any networks, any passwords among them that are good, any
queue of at least one event and any of the two who give orders
(`ConstantsAssumption`; `NoJobAssumption` says that the marker for no job is not a
job). All seven invariants of the run `wifi`:

* `TypeCorrect`: `Spec => []TypeOK`.
* `SavesAreAccepted`: `Spec => []OnlyAcceptedPasswordsAreSaved`.
* `StackGoesWithTheLink`: `Spec => []StackNeedsItsLink`.
* `OffStaysQuiet`: `Spec => []OffMeansQuiet`.
* `RefusedPasswordsAreDropped`: `Spec => []RefusedPasswordIsDropped`.
* `TokensAreAnswered`: `Spec => []EveryTokenIsAnswered`.
* `StartupGivesUpInTime`: `Spec => []StartupGivesUp`.

They follow from `Inductive`: `Spec => []IInv`. The manager's record changes many
times within one frame, so its part of the invariant is a predicate of a record,
`Sound(s)`, that every function on the way is shown to keep. What it adds to the
properties is what they rest on half-way through a job:

* `SavesWhatWorks`. That the flash names no bad password rests on three facts about
  requests in flight: credentials to be tried are sent only while the C6 stores in
  its RAM, and are what it joins with next (`TriedInRam`); whoever is not trying new
  credentials is joining with the ones the manager keeps, and an unread "connected"
  is about those (`JoinsWhatItKeeps`); and only a job that saw that event may save
  (`SavedIsProven`).
* `Quiet`. While Wi-Fi is off the only jobs are turning on and forgetting, and the
  radio is idle: an event that comes in late finds no credentials.
* `PasswordDropped`. Credentials may exist while the user is asked only if they are
  the ones just typed.
* `JobsInOrder`. Which stages a kind of job goes through, that a job of the user
  runs without a follow-up, and that one beyond its first stage has a session.
* `AttemptsEnd` and `Timed`: the count of attempts while one is awaited, the armed
  deadline's state, the bound of the queue.
* `TokenIsKept`: a panel that waits has its reply, or a job that carries its token.

The argument follows the code. `Heard` is a recursive function over the queue; that
it exists for queues of any length and that what it returns is a `Hearing` of what
came before are inductions over the queue (`AfterExists`, `HeardHearing`), which
`Induction` makes first-order: a set of numbers with 0 and every successor is `Nat`,
by `LeastNumber` and the finiteness of segments. A frame without a job is
`ServicePolicyServiced`. A stage of a job is `Carried`: from a job in hand
(`Doing`), through the request and whatever became of it (`RequestAnswered`,
`RefusedCarried`, `ReapCarried`), to the next stage, the end or the failure of the
job. The console runs alone and is shown to leave a manager that is `Free` of jobs
and `Rested`, whatever point it fails at. `NextKeeps` puts them together.

`SdHost` and the components that follow are instantiated, not extended, by the runs
`devices` and `network`, which give their constants values and check the same
properties as parts of their own. So their modules declare no assumptions, and each
theorem has its hypothesis about the constants instead.

In `NetworkProofs`, about `PageFetch`, for any addresses and any number of pieces and
confirmations (hypothesis `Limits`: the two limits are numbers, and what is known
before a connection is not an identity):

* `TypeCorrect`: `Spec => []TypeOK`.
* `Released`: `Spec => []ResourcesReleased`.
* `BodiesGoWhereAllowed`: `Spec => []BodyGoesWhereAllowed`.
* `CacheIsTold`: `Spec => []CacheLearnsTheTruth`.
* `ChainsAreBounded`: `Spec => []ChainIsBounded`.
* `RedirectsStaySecure`: `Spec => NeverLessSecure`.

`Inductive` is that a fetch is either at rest (`Rest`) or open and sound (`Core`). One
frame runs many functions of the fetch, and each keeps `Core`: what is held is what
is counted (`Held`); a POST is on its way only to an origin that was allowed, and a
redirect that keeps it a POST stays within its origin or asks (`Allowed`); a copy for the
cache has the pieces read so far, belongs to a GET that asked for it and was not
redirected, and is given up at its bound (`Cached`). `CloseRest` and `ShownRest`
say that whichever of them ended it, `Rest` is what is left. `Secure` relates a
fetch to the one before it, and goes along with the steps from head to redirect.
`NotSentMeansNotSent` is not among the theorems: it is false (finding 15).

In `NetworkProofs`, about `Downloads`, for files of any length on volumes with room for
two blocks or more (hypothesis `RoomForFiles`, which also says that the marker for no
outcome is none):

* `DownloadsReplaceWholeFiles`: `Spec => [](DestinationIsWhole /\ OneOfThemIsThere)`.
* `DownloadsReportTheTruth`: `Spec => [](TypeOK /\ ReportsAreTrue /\
  ReplacedOnlyByTheWhole)`.

The invariant is `Downloading == Forms /\ UnderWay /\ Said`: what the volume may hold
under the two names at each stage of the transfer and of the commit, with the power
failing between any two steps, and what was said once it was over.

In `NetworkProofs`, about `Tftp` (hypothesis `BlocksAreNumbered`: a file has a block, and no more
than there are block numbers; the well-known port is none of the transfers' own):

* `TransfersAreInOrder`: `Spec => [](TypeOK /\ BlocksInOrder)`.
* `DoneTransfersAreWhole`: `Spec => []DoneMeansWhole`.

The invariant is `Transferring`: a client that has `n` blocks has the first `n`, and
nothing under way to it is later than the next one (`Has`), so the number it waits
for can only be that block's. This needs `Blocks <= Wrap`: without it an old block
passes for the next one, which is finding 29.

In `NetworkProofs`, about `NetStack`, for any addresses and lists of resolvers (hypothesis
`ListsAreNamed`):

* `ConfigurationIsOfItsSource`: `Spec => [](TypeOK /\ ResolversInStep /\ SourceDecides)`.
* `DnsSlotIsReleasedOnce`: `Spec => []SlotReleasedOnce`.
* `NotFoundIsAnAnswer`: `Spec => []NotFoundWasAnswered`, if no stall is longer than two
  seconds (`StallsAreShort`).
* `FallbackIsAsked`: `Spec => []FallbackIsReached`, if also no list names a resolver
  twice (`OneEach`).

The first two follow from `Resolving == Fits /\ SlotHeld`, the others from `Pacing == Paced
/\ Honest`. `Paced` relates three clocks: the query's deadline, the time the socket
gives each resolver, and the time it is polled. The deadline leaves three seconds
beyond the first resolver's ten; a stall of up to two leaves time to ask the
second, and with one of three `FallbackIsReached` is false. `Honest` says that a socket
that has run out of resolvers was told so by each it asked (`InTurn`), unless they
were replaced under the query (`disturbed`, finding 14).

In `NetworkProofs`, about `BrowserCache`, for any addresses, any hash of them and a volume of
any size (hypothesis `AddressesAreHashed`: an address has a hash, an answer a size and a
lifetime, and the marker for none is none of the values it stands for):

* `RecordsVouchForTheirBodies`: `Init /\ [][Next]_cache => [](TypeOK /\ RecordVouches)`.
* `WhatIsShownIsCurrent`: the same for `ShownIsOneResponse` and `NothingStaleIsFound`.
* `OldestGoFirst`: the same for `PurgeTakesTheOldest`.
* `WritesDoNotGoRound`: the same for `WritesMakeProgress`.

The invariant is `Sound(cache)`. `RecordVouches` alone is not inductive: a body that is
being written has no record yet, or one of an older answer would vouch for it once it
has its size. `Writing` says that the record went first and that what is in the file is
of this write alone from its first step on; until then it may be an older body, which
an answer without a body leaves as it is. `Reading` says that a file that is being read
stays. `Vouched` also bounds the age of every record from below by what was posted to any
address of its hash, which is why nothing stale is found, and why what `Invalidate`
takes is not mistaken for a purge. An action removes files and little else, so most
are steps to what is `Left` of the cache, and `LeftKeeps` covers them.

The theorems of `HostedLink` are in the module itself, for frames of any lengths and
registers of any radix, wherever either counter wraps and however many buffers the
slave has. `Limits` is their hypothesis: a counter does not wrap within what it
counts (`MaxUnread < RxByteMax`, `Pool < TxBufferMax`; in the code the byte counter
wraps at 2^20 and the buffer counter at 2^12), and every frame fits into the slave.

* `TypeCorrect`: `Spec => []TypeOK`.
* `StaysInStep`: `Spec => []InStep`.
* `FramesComeInOrder`: `Spec => []InOrder`.
* `BuffersStayInStep`: `Spec => []BuffersInStep`.

`Inductive` is `Sound(link)`: the counters of both sides (`Counted`), the bounds
(`Bounded`), and the numbers of the frames that are on their way, each after the one
before, from the last the host got to the next the slave will send (`Numbered`).
`InOrder` alone is not inductive: it speaks of the first of them. One poll is a chain
of functions of the link, each with its lemma.

* `ReadTwiceIsARead`: a counter that moves once while its bytes (two, in the model)
  are read pass after pass is read as its old value or its new one. Only one pass can have mixed
  them; if it agrees with its neighbour it is equal to a value that was there, and
  the passes before and after it agree among themselves.
* A read is of whole frames because both values are ends of frames: `FillSound`, from
  `TotalSplit` (a queue's length is the length of its front and of its rest, so
  what is behind any front that adds up to the read adds up to the remainder).
* `Total` is a sum over a queue. That the sum exists (`SumsExist`), that it follows its
  equation (`SumsEquation`) and that it depends on the lengths alone (`SumsAgree`)
  are inductions over the length, made first-order by `Induction` as above.
* `PlusIs`, `DistanceIs` and `Ahead` are the arithmetic of counters that wrap, for any
  modulus: what is ahead of a count is found from the two remainders.

`cut`, the read that broke off in the middle, stays an exception in `InStep` and
`InOrder`, because the code does not recover from it (finding 12).

So are the theorems of `RpcLink`, for any call ids and any number of requests, events
and frames under way, and station and event queues of any length from one up
(`Limits`, which also says that `None` is not a call):

* `TypeCorrect`: `Spec => []TypeOK`.
* `AnswersAreMatched`: `Spec => []AnswersMatch`.
* `FragmentsStayTogether`: `Spec => []FragmentsBelongTogether`.
* `FramesAreAccounted`: `Spec => []FramesAccounted`.
* `ServicingIsHeldBack`: `Spec => []ServicingHoldsBack`.

`Inductive` is `Sound(rpc)`. `AnswersMatch` and `FragmentsBelongTogether` speak of what was
taken (`Told`), and need to know what may still come:

* `Alone`: with a peer that echoes no uid, and no call given up, at most one answer is due at any
  time, and it is due to the call that waits. It is in one place: still asked of the
  coprocessor, in the transport, or half reassembled.
* `Echoed`: what the coprocessor said of a fragment is what it was asked, or zero.
* `Whole`: until a fragment is lost (`torn`), the first of two is followed by
  its second, across the boundary between the reassembly and the transport.
* `Accounted`: the station's queue and the station frames in the transport continue the numbers of
  those that were delivered or dropped, without a gap up to the last that came.
* One servicing handles every message that waits, in one step: `Reads` is the recursive
  function of what it does with them one by one. That it exists (`ReadsExist`) and keeps `Sound`
  at every length (`ServicedSound`) are inductions by `Induction`; `CollectSound` and
  `DispatchSound` are the cases of one message.

`orphaned` (a call given up, whose late answer may be taken by the next, finding 13)
and `torn` are exceptions in the properties.

Only model-checked:

* `Vfs.OpenFileLeavesOnlyWithItsDirectory` is not true for every value of the
  constants: a medium that leaves one device and appears in another while the
  stale mount of the first is still there can lose a file under a handle that
  counts as live. The instance has one USB volume.
* What `Http`, `Html`, `Document`, `Layout`, `Url` and `Encoding` compute, for inputs of any
  length: that a body cut into pieces is read as it was sent, that text and tags are
  where they were, is an induction over data, and most of these modules are
  recursive.
* `Tls`, the browser's screen and images, the mass storage class, the two
  halves of the controller driver, enumeration, input, the raw disk tests, the
  system bar and the console: proofs have not been attempted.
* `PageFetch.NotSentMeansNotSent` and the other formulas of the findings are false
  without the exception or the constants the runs give them.
* Liveness (`BudgetRunsOut`, `CommandReturns`, `SettlesAtTheConsole`), and with it
  ENABLED, is out of the prover's reach.

## 5. What is not modelled, and why

* Formats on the medium: FAT and exFAT internals, partition tables, the format
  command. Libraries and pure functions on blocks, with no order of events of
  this program's own. What a change of the tree does is in `Vfs`.
* Parsing of descriptors, reports of HID devices other than boot ones, and the
  I2C keyboard's registers: what they yield is a choice in the models.
* Registers, DMA descriptors, caches, clocks, power rails, board bring-up, the
  display pipeline: the source drives hardware that is not in it. Where the
  order of register accesses can go wrong (interrupt causes, transfer-done bits,
  wrapping counters) that order is modelled.
* Dead code of the controller driver (`run_out_packet_list`,
  `run_direct_fs_bulk_packet`): nothing calls it.
* Failures of allocation: the firmware aborts.
* The other commands of the shell, the coordinator, paint, the touch test and the
  clock: they read state and print, or draw.
* The image decoders, glyphs, colours and positions of pixels of the browser.
  `Layout` is about lines and boxes, `BrowserScreen` about what is repainted;
  frames drawn before the first tick of a page are not in it.
* TCP, DHCP, TLS records and certificates: libraries. Of them only the way they
  are called, and what they may answer, is here.

## 6. What could come next

* Theorems about the mass storage class and the browser's screen, whose properties
  are so far checked only as parts of `devices` and `browser`.
* The layers under one another: `BotTransport` as a refinement of what
  `MassStorage` assumes of it, `RpcLink` over `HostedLink`.
* Liveness of the registry: scanning resumes after it was given up.
