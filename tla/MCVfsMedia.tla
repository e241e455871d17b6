----------------------------- MODULE MCVfsMedia -----------------------------
(***************************************************************************)
(* Vfs with a drive that comes, goes and changes: the RAM disk and one USB *)
(* volume, two media of one capacity that could be exchanged unnoticed,    *)
(* and one file.  A drive can come back at the other of two ports.         *)
(***************************************************************************)
EXTENDS Vfs, TLC

CONSTANTS ram, usb, memory, stick, twin, tmp, vol, note, left, right

MCDeviceOf == ram :> ram @@ usb :> usb
MCPartitionOf == ram :> 1 @@ usb :> 1
MCBlockCount == memory :> 1 @@ stick :> 2 @@ twin :> 2
MCFormatOf == memory :> "FAT" @@ stick :> "FAT" @@ twin :> "FAT"
MCFoldOf == tmp :> tmp @@ vol :> vol @@ note :> note @@ usb :> usb
MCPaths == {<<vol, usb, note>>}
MCTree == {<<note>>}
MCTree0 == [m \in {memory, stick, twin} |-> [p \in {1} |-> [q \in MCTree |-> Missing]]]
\* The twins and the ports are interchangeable.
MCSymmetry == Permutations({stick, twin}) \cup Permutations({left, right})
=============================================================================
