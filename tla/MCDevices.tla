----------------------------- MODULE MCDevices -----------------------------
(***************************************************************************)
(* The devices and what the program does with them in one run: small       *)
(* instances of the host controller's packets and its periodic channels,   *)
(* of enumeration, the keyboards and the mouse, the mass-storage driver,   *)
(* the SD host, the shell's disk tests, downloads, the RAM disk's tree,    *)
(* the screens below the system bar and the text console.  A behaviour     *)
(* runs one of them: `focus` is chosen at the beginning among Parts, and   *)
(* the others stand still.                                                 *)
(***************************************************************************)
EXTENDS Integers, Sequences, TLC

CONSTANTS
    Parts,
    SdKinds,  \* the transfers of the SD host
    None

VARIABLES focus, hcd, periodic, bus, sources, store, sd, disk, download, bar, con,
          mounts, files, nextGeneration, location, epoch, inside, volumes, opened, mediumFailed

tree == <<mounts, files, nextGeneration, location, epoch, inside, volumes, opened, mediumFailed>>

---------------------------------------------------------------------------
(* The instances                                                           *)

Packets == INSTANCE HcdPackets WITH
    Lengths <- {0, 2}, SplitRounds <- 2, HardCap <- 3

Channels == INSTANCE HcdPeriodic WITH
    Slots <- {1, 2}, Endpoints <- {"k", "m"}, MaxReports <- 2, MaxEnables <- 2,
    MaxRefusals <- 1, MaxWedges <- 1

\* The devices' descriptors do not fit into what is read of them.
Enumeration == INSTANCE UsbEnumeration WITH
    PortCount <- 2, MaxPorts <- 2, Attempts <- 2, Faults <- 2, Moves <- 1,
    Sayings <- {[size0 |-> 8, mps |-> 8, total |-> 300, has |-> 300]}

Inputs == INSTANCE InputSources WITH
    Scenarios <- {[part |-> "keys", split |-> FALSE], [part |-> "keys", split |-> TRUE],
                  [part |-> "mouse", split |-> FALSE], [part |-> "stale", split |-> FALSE]},
    Codes <- {"x", "y"}, Rollover <- 1, PendingMax <- 2, Drain <- 2, GiveUp <- 2,
    Backoff <- 1, BackoffMax <- 3, Settled <- 3, MaxPresses <- 2, MaxWire <- 2, MaxFrames <- 5

Drive == INSTANCE MassStorage WITH
    Size <- 3, BlockBytes <- 2, CacheBlocks <- 2, MaxWrite <- 1, FlushAttempts <- 2,
    Faults <- 1, Values <- {1}, Lengths <- {3}

Card == INSTANCE SdHost WITH Kinds <- SdKinds, MaxFaults <- 2, MaxCalls <- 3

Tests == INSTANCE DiskTests WITH
    LastBlock <- 4, Spans <- {1, 2}, Burst <- 3, Rounds <- 2, Faults <- 2, Downwards <- FALSE

Files == INSTANCE Downloads WITH Blocks <- 2, Space <- 4

\* A RAM disk and an exFAT card, which is mounted read-only; directories, two
\* spellings of a name, and paths into the namespace the root reserves.
Names == {<<"tmp">>, <<"vol">>, <<"vol", "sd">>, <<"vol", "sd", "note">>, <<"docs">>,
          <<"docs", "note">>, <<"misc">>, <<"misc", "note">>, <<"note">>}
Spelling == [name \in {"tmp", "vol", "VOL", "docs", "DOCS", "misc", "note", "sd"} |->
               CASE name = "VOL" -> "vol" [] name = "DOCS" -> "docs" [] OTHER -> name]
Volume == INSTANCE Vfs WITH
    Volumes <- {"ram", "sd"}, RamVolume <- "ram", Devices <- {"ram", "sd"}, Ram <- "ram", UsbIds <- {},
    DeviceOf <- "ram" :> "ram" @@ "sd" :> "sd", Partitions <- {1}, PartitionOf <- "ram" :> 1 @@ "sd" :> 1,
    Media <- {"memory", "card"}, RamMedium <- "memory", NoMedium <- None,
    BlockCount <- "memory" :> 1 @@ "card" :> 2, FormatOf <- "memory" :> "FAT" @@ "card" :> "exFAT",
    Sources <- {"pages"}, Ports <- {}, NoPort <- None, Tmp <- "tmp", Vol <- "vol", FoldOf <- Spelling,
    Paths <- {<<"tmp">>, <<"docs">>, <<"misc">>, <<"docs", "note">>, <<"DOCS", "note">>, <<"VOL", "sd">>,
              <<"vol", "sd", "note">>},
    Tree <- Names,
    Tree0 <- [medium \in {"memory", "card"} |-> [partition \in {1} |-> [path \in Names |->
                CASE medium = "memory" /\ path \in {<<"tmp">>, <<"vol">>} -> [kind |-> "dir", size |-> 0]
                  [] medium = "card" /\ path = <<"note">> -> [kind |-> "file", size |-> 1]
                  [] OTHER -> [kind |-> "none", size |-> 0]]]],
    MaxMounts <- 2, MaxOpenFiles <- 1, MaxSize <- 1, MaxGeneration <- 2, MaxEpoch <- 0, disk <- volumes

\* What a finger can touch, and how near two points are to a tap's eyes.  Three
\* instances: fingers and keys; fingers on neighbouring buttons of the bar; keys
\* that arrive faster than they are read.
Zones == "l" :> "launcher" @@ "w" :> "wifi" @@ "b" :> "battery" @@ "a" :> "bar" @@ "r3" :> "page"
Touches == INSTANCE SystemBar WITH
    Places <- {"l", "r3"}, ZoneOf <- Zones, TargetOf <- "a" :> "address", RowOf <- "r3" :> 3, Near <- {},
    Fingers <- {"f", "g"}, Keys <- {"m"}, Batch <- 2, MaxKeys <- 0, Snapshots <- {0}
Buttons == INSTANCE SystemBar WITH
    Places <- {"b", "a"}, ZoneOf <- Zones, TargetOf <- "a" :> "address", RowOf <- "r3" :> 3, Near <- {{"a", "b"}},
    Fingers <- {"f"}, Keys <- {"esc"}, Batch <- 2, MaxKeys <- 1, Snapshots <- {0, 1}
Keyboard == INSTANCE SystemBar WITH
    Places <- {"l"}, ZoneOf <- Zones, TargetOf <- "a" :> "address", RowOf <- "r3" :> 3, Near <- {},
    Fingers <- {}, Keys <- {"m", "enter", "down"}, Batch <- 2, MaxKeys <- 2, Snapshots <- {0}

\* Lines of a command and of automount that fit into a row, fill it, or do not.
Text == INSTANCE Console WITH
    Rows <- 3, Columns <- 4, TabWidth <- 2, Prompt <- <<">">>, Letters <- {"a"},
    Lines <- {<<"o">>, <<"o", "o", "o", "o">>, <<"o", "o", "o", "o", "p">>},
    Reports <- {<<"r">>, <<"r", "r", "r", "r", "r">>}

---------------------------------------------------------------------------
(* One part runs                                                           *)

Init ==
    /\ focus \in Parts
    /\ Volume!Init /\ Inputs!Init /\ (focus # "sources" => sources.is.part = "mouse")
    /\ IF focus = "hcd" THEN Packets!Init ELSE hcd = None
    /\ IF focus = "periodic" THEN Channels!Init ELSE periodic = None
    /\ IF focus = "sd" THEN Card!Init ELSE sd = None
    /\ IF focus = "bus" THEN Enumeration!Init ELSE bus = None
    /\ IF focus = "store" THEN Drive!Init ELSE store = None
    /\ IF focus = "disk" THEN Tests!Init ELSE disk = None
    /\ IF focus = "download" THEN Files!Init ELSE download = None
    /\ IF focus = "console" THEN Text!Init ELSE con = None
    /\ CASE focus = "fingers" -> Touches!Init
         [] focus = "buttons" -> Buttons!Init
         [] focus = "keyboard" -> Keyboard!Init
         [] OTHER -> bar = None

Runs(part, others) == focus = part /\ UNCHANGED <<focus, others>>

Next ==
    \/ Runs("hcd", <<periodic, bus, sources, store, sd, disk, download, bar, con, tree>>) /\ Packets!Next
    \/ Runs("periodic", <<hcd, bus, sources, store, sd, disk, download, bar, con, tree>>) /\ Channels!Next
    \/ Runs("bus", <<hcd, periodic, sources, store, sd, disk, download, bar, con, tree>>) /\ Enumeration!Next
    \/ Runs("sources", <<hcd, periodic, bus, store, sd, disk, download, bar, con, tree>>) /\ Inputs!Next
    \/ Runs("store", <<hcd, periodic, bus, sources, sd, disk, download, bar, con, tree>>) /\ Drive!Next
    \/ Runs("sd", <<hcd, periodic, bus, sources, store, disk, download, bar, con, tree>>) /\ Card!Next
    \/ Runs("disk", <<hcd, periodic, bus, sources, store, sd, download, bar, con, tree>>) /\ Tests!Next
    \/ Runs("download", <<hcd, periodic, bus, sources, store, sd, disk, bar, con, tree>>) /\ Files!Next
    \/ Runs("console", <<hcd, periodic, bus, sources, store, sd, disk, download, bar, tree>>) /\ Text!Next
    \/ Runs("tree", <<hcd, periodic, bus, sources, store, sd, disk, download, bar, con>>) /\ Volume!Next
    \/ Runs("fingers", <<hcd, periodic, bus, sources, store, sd, disk, download, con, tree>>) /\ Touches!Next
    \/ Runs("buttons", <<hcd, periodic, bus, sources, store, sd, disk, download, con, tree>>) /\ Buttons!Next
    \/ Runs("keyboard", <<hcd, periodic, bus, sources, store, sd, disk, download, con, tree>>) /\ Keyboard!Next

Spec == Init /\ [][Next]_<<focus, hcd, periodic, bus, sources, store, sd, disk, download, bar, con, tree>>

---------------------------------------------------------------------------
(* Properties *)

(* What a layer reports is what happened on the wire, the card or the      *)
(* volume, whichever answer is lost and whichever retry succeeded: packets *)
(* and reports, blocks in the cache, a flush, a verdict of a disk test, an *)
(* SD transfer, a download, an enumerated device; and the console's screen *)
(* is its text.                                                            *)
ReportsAreTrue ==
    /\ focus = "hcd" => Packets!TypeOK /\ Packets!OutcomesAreTrue
    /\ focus = "periodic" => Channels!TypeOK /\ Channels!ReportsAreFresh /\ Channels!HealthyIsNotStalled
    /\ focus = "bus" => Enumeration!TypeOK /\ Enumeration!EnumeratedIsThere
    /\ focus = "store" => /\ Drive!TypeOK /\ Drive!CachedRunIsTheDrives /\ Drive!ToldIsStored
                          /\ Drive!FlushedIsOnTheMedium /\ Drive!DiagnosesAreTheDrives /\ Drive!SerialIsTheSerial
    /\ focus = "sd" => Card!TypeOK /\ Card!DoneIsDone /\ Card!DoneIsOnTheMedium /\ Card!ActiveIsReady
    /\ focus = "disk" => Tests!TypeOK /\ Tests!RestoredIsTrue /\ Tests!PassLeavesNoTrace /\ Tests!NothingWrittenIsTrue
    /\ focus = "download" => Files!TypeOK /\ Files!ReportsAreTrue /\ Files!ReplacedOnlyByTheWhole
    /\ focus = "console" => Text!ScreenShowsCells /\ Text!OutputIsWrapped

(* Whatever fails on the way, a resource is left as the next user must     *)
(* find it: the DMA mode, a hub's translator, the channels of other        *)
(* devices, a data toggle, address 0, a port's reset, the SD host's DMA    *)
(* and clock, the blocks and the file of before, the reserved directories. *)
ResourcesAreLeftClean ==
    /\ focus = "hcd" => /\ Packets!NeverAsleepOverAHalt /\ Packets!ModeIsRestored
                        /\ Packets!TranslatorIsLeftFree /\ Packets!PeriodicSurvives
    /\ focus = "periodic" => Channels!ToggleAgrees /\ Channels!NothingRunsUnowned
    /\ focus = "bus" => Enumeration!OneAtAddressZero /\ Enumeration!ResetIsItsOwn
    /\ focus = "sd" => Card!DmaEndsWithItsCall /\ Card!NoCardIsOverclocked
    /\ focus = "disk" => Tests!LiveSessionsRestore
    /\ focus = "download" => Files!DestinationIsWhole /\ Files!OneOfThemIsThere
    /\ focus = "tree" => Volume!ReservedNamespaceIntact

(* What the user does reaches the screen it was meant for, once and in     *)
(* order, across transitions, batches, several keyboards and a mouse; the  *)
(* screen that is shown is alive, and its bar shows what is the case.      *)
InputArrivesWhereItWasMeant ==
    /\ focus = "sources" => /\ Inputs!TypeOK /\ Inputs!KeysArriveOnceInOrder
                            /\ Inputs!NoSourceStarves /\ Inputs!MotionIsKept
    /\ focus = "fingers" => /\ Touches!TypeOK /\ Touches!InputReachesItsScreen /\ Touches!OldFingersAreWaitedOut
                            /\ Touches!PanelShowsTheState /\ Touches!ScreensLiveWhileShown
    /\ focus = "buttons" => /\ Buttons!TypeOK /\ Buttons!InputReachesItsScreen /\ Buttons!OldFingersAreWaitedOut
                            /\ Buttons!PanelShowsTheState /\ Buttons!ScreensLiveWhileShown
    /\ focus = "keyboard" => /\ Keyboard!TypeOK /\ Keyboard!InputReachesItsScreen /\ Keyboard!OldFingersAreWaitedOut
                             /\ Keyboard!PanelShowsTheState /\ Keyboard!ScreensLiveWhileShown
    /\ focus = "console" => Text!LineIsWhatWasTyped

(* Scans of a session that stays stale are not back to back, and a file    *)
(* that is open leaves its name only with a directory above it and its     *)
(* handle only with its medium, never by an umount.                        *)
StepsKeepTheirPromises ==
    /\ Inputs!RescansAreSpaced
    /\ Volume!OpenFileLeavesOnlyWithItsDirectory /\ Volume!UmountStrandsNoHandle

(* SdHost: nothing an earlier transfer left over is taken for this one's.  *)
TransferIsItsOwn == focus = "sd" => Card!DoneIsDone

(* HcdPeriodic: a channel that is given up leaves the next packet's toggle *)
(* as the device has it.                                                   *)
FallbackPidAgrees == focus = "periodic" => Channels!FallbackPidAgrees
=============================================================================
