----------------------------- MODULE UsbNumbers -----------------------------
(***************************************************************************)
(* What the USB registry promises about the usbM numbers a drive answers   *)
(* to, with no rescans, scans or sweeps in it: a number belongs to one     *)
(* place on the bus until something there is unplugged, whether or not the *)
(* drive can be reached in the meantime (registry.rs, StorageId).          *)
(***************************************************************************)
EXTENDS Integers

CONSTANTS
  Slots,   \* the places on the bus
  IdLimit  \* how many numbers there are, STORAGE_ID_LIMIT

Ids == 0..(IdLimit - 1)
NoId == -1

VARIABLES
  number,     \* the number the drive at a place answers to now
  kept,       \* the number a place will give its drive when it is found again
  nextNumber  \* where the search for a free number starts

numbering == <<number, kept, nextNumber>>

\* Numbers are handed out in a circle, so that one that was given up is not
\* taken up again until all the others have been.
Free(id) == \A l \in Slots : kept[l] # id
NextFree(id) ==
  /\ id \in Ids /\ Free(id)
  /\ \A other \in Ids :
       Free(other) => (id - nextNumber) % IdLimit <= (other - nextNumber) % IdLimit

\* A drive is found: under the number its place kept, or the next free one.
Find(l) ==
  /\ number[l] = NoId
  /\ \/ kept[l] # NoId /\ number' = [number EXCEPT ![l] = kept[l]]
        /\ UNCHANGED <<kept, nextNumber>>
     \/ kept[l] = NoId /\ \E id \in Ids :
          /\ NextFree(id)
          /\ number' = [number EXCEPT ![l] = id]
          /\ kept' = [kept EXCEPT ![l] = id]
          /\ nextNumber' = (id + 1) % IdLimit

\* Every drive is out of reach for a while.
LoseAll ==
  /\ number' = [l \in Slots |-> NoId]
  /\ UNCHANGED <<kept, nextNumber>>

\* Something was unplugged at these places: what was kept there is given up.
Unplug(places) ==
  /\ number' = [l \in Slots |-> IF l \in places THEN NoId ELSE number[l]]
  /\ kept' = [l \in Slots |-> IF l \in places THEN NoId ELSE kept[l]]
  /\ UNCHANGED nextNumber

Init ==
  /\ number = [l \in Slots |-> NoId]
  /\ kept = [l \in Slots |-> NoId]
  /\ nextNumber = 0

Next ==
  \/ \E l \in Slots : Find(l)
  \/ LoseAll
  \/ \E places \in SUBSET Slots : Unplug(places)

Spec == Init /\ [][Next]_numbering
=============================================================================
