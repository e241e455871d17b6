-------------------------- MODULE AutoMountProofs --------------------------
(***************************************************************************)
(* Theorems about AutoMount, for any places, partitions, numbers and       *)
(* budget: nothing that has gone stays in the tree, and what the user took *)
(* out of it stays out.                                                    *)
(***************************************************************************)
EXTENDS AutoMount, TLAPS

BusTypes ==
  /\ number \in [Slots -> Ids \cup {NoId}] /\ kept \in [Slots -> Ids \cup {NoId}]
  /\ nextNumber \in Ids

LEMMA InitTypes == Init => TypeOK
<1> SUFFICES ASSUME Init PROVE TypeOK
  OBVIOUS
<1>1. 0 \in Ids
  BY AutoMountAssumption DEF Ids, Bus!Ids
<1>2. BusTypes
  BY <1>1 DEF Init, Bus!Init, BusTypes, NoId
<1>3. left \in [Ids -> 0..Budget] /\ found \in 0..MaxFound
  BY AutoMountAssumption DEF Init
<1> QED BY <1>2, <1>3 DEF Init, TypeOK, BusTypes

LEMMA FindTypes ==
  ASSUME BusTypes, NEW l \in Slots, Bus!Find(l) PROVE BusTypes'
<1>1. CASE kept[l] # NoId
  BY <1>1 DEF BusTypes, Bus!Find, Ids, NoId
<1>2. CASE kept[l] = NoId
  <2>1. PICK id \in Ids : /\ number' = [number EXCEPT ![l] = id]
                          /\ kept' = [kept EXCEPT ![l] = id]
                          /\ nextNumber' = (id + 1) % IdLimit
    BY <1>2 DEF Bus!Find, Ids, NoId
  <2>2. (id + 1) % IdLimit \in Ids
    BY AutoMountAssumption DEF Ids, Bus!Ids
  <2> QED BY <2>1, <2>2 DEF BusTypes
<1> QED BY <1>1, <1>2

LEMMA BusStepTypes == TypeOK /\ BusStep => TypeOK'
<1> SUFFICES ASSUME TypeOK, BusStep PROVE TypeOK'
  OBVIOUS
<1>1. ASSUME NEW l \in Slots, DriveFound(l) PROVE TypeOK'
  <2>1. BusTypes'
    BY <1>1, FindTypes DEF DriveFound, TypeOK, BusTypes
  <2>2. /\ holds' \in [Slots -> SUBSET Partitions] /\ found' \in 0..MaxFound
        /\ settled' \subseteq Volumes /\ dismissed' = dismissed /\ firm' = firm
    BY <1>1, AutoMountAssumption DEF DriveFound, TypeOK, history
  <2> QED BY <1>1, <2>1, <2>2 DEF DriveFound, TypeOK, BusTypes, memory, tree
<1>2. ASSUME NEW places \in SUBSET Slots, DriveUnplugged(places) PROVE TypeOK'
  <2>1. BusTypes'
    BY <1>2 DEF DriveUnplugged, Bus!Unplug, TypeOK, BusTypes, NoId, Bus!NoId
  <2>2. severed' \subseteq mounted'
    BY <1>2 DEF DriveUnplugged, TypeOK
  <2> QED BY <1>2, <2>1, <2>2 DEF DriveUnplugged, TypeOK, BusTypes, memory
<1>3. CASE DrivesLost
  BY <1>3 DEF DrivesLost, Bus!LoseAll, TypeOK, memory, tree, NoId, Bus!NoId
<1> QED BY <1>1, <1>2, <1>3 DEF BusStep

LEMMA UserStepTypes == TypeOK /\ UserStep => TypeOK'
<1> SUFFICES ASSUME TypeOK, UserStep PROVE TypeOK'
  OBVIOUS
<1>1. ASSUME NEW id \in Ids, NEW p \in Partitions, MountByHand(id, p) PROVE TypeOK'
  BY <1>1 DEF MountByHand, TypeOK, numbering, memory, Volumes
<1>2. ASSUME NEW v \in Volumes, UmountByHand(v) PROVE TypeOK'
  <2>1. {v} \cap OfDrive((Attached \cap offered) \ pending) \subseteq {v} \cap OfDrive(Attached)
    BY DEF OfDrive
  <2>2. /\ mounted' \subseteq Volumes /\ severed' \subseteq mounted'
        /\ settled' \subseteq Volumes /\ dismissed' \subseteq Volumes
    BY <1>2 DEF UmountByHand, TypeOK
  <2>3. firm' \subseteq dismissed'
    BY <1>2, <2>1 DEF UmountByHand, TypeOK
  <2> QED BY <1>2, <2>2, <2>3 DEF UmountByHand, TypeOK, numbering, memory
<1>3. ASSUME NEW on \in BOOLEAN, SetEnabled(on) PROVE TypeOK'
  BY <1>3 DEF SetEnabled, TypeOK, numbering, tree, history
<1> QED BY <1>1, <1>2, <1>3 DEF UserStep

\* What a look does to the sets of drives and volumes, however they answer.
LookMounts ==
  /\ mounted' \subseteq (mounted \ severed) \cup OfDrive(Asked)
  /\ mounted' \subseteq Volumes
  /\ pending' \subseteq Asked
  /\ left' \in [Ids -> 0..Budget]
  /\ settled' \subseteq Volumes

LEMMA AttachedAreIds == TypeOK => Attached \subseteq Ids
BY DEF TypeOK, Attached

LEMMA AskedAttached == Asked \subseteq Attached
BY DEF Asked, Fresh

LEMMA LookShape == TypeOK /\ Look => LookMounts
<1> SUFFICES ASSUME TypeOK, Look PROVE LookMounts
  OBVIOUS
<1>1. PICK silent \in SUBSET Asked : \E unreadable \in SUBSET (Asked \ silent) :
        \E late \in SUBSET Entries(silent, unreadable) :
        \E refused \in SUBSET (ReadableEntries(silent, unreadable) \ late) :
          Reconcile(silent, unreadable, late, refused)
  BY DEF Look
<1>2. PICK unreadable \in SUBSET (Asked \ silent) :
        \E late \in SUBSET Entries(silent, unreadable) :
        \E refused \in SUBSET (ReadableEntries(silent, unreadable) \ late) :
          Reconcile(silent, unreadable, late, refused)
  BY <1>1
<1>3. PICK late \in SUBSET Entries(silent, unreadable) :
        \E refused \in SUBSET (ReadableEntries(silent, unreadable) \ late) :
          Reconcile(silent, unreadable, late, refused)
  BY <1>2
<1>4. PICK refused \in SUBSET (ReadableEntries(silent, unreadable) \ late) :
        Reconcile(silent, unreadable, late, refused)
  BY <1>3
<1> DEFINE retry == Retry(silent, late)
           givenUp == {id \in retry : Deadlines(Asked)[id] = 0}
<1>5. /\ Asked \subseteq Ids
      /\ Entries(silent, unreadable) \subseteq OfDrive(Asked)
      /\ ReadableEntries(silent, unreadable) \subseteq OfDrive(Asked)
  BY AskedAttached, AttachedAreIds DEF Entries, ReadableEntries, OfDrive
<1>6. OfDrive(Asked) \subseteq Volumes
  BY <1>5 DEF OfDrive, Volumes
<1>7. retry \subseteq Asked
  BY <1>5 DEF Retry, OfDrive
<1>8. pending' \subseteq Asked
  BY <1>4, <1>7 DEF Reconcile
<1>9. left' \in [Ids -> 0..Budget]
  <2>1. \A id \in Ids : Deadlines(Asked)[id] \in 0..Budget
    BY AutoMountAssumption DEF Deadlines, TypeOK
  <2>2. left' = [id \in Ids |-> IF id \in retry THEN Deadlines(Asked)[id] ELSE 0]
    BY <1>4 DEF Reconcile
  <2> QED BY <2>1, <2>2, AutoMountAssumption
<1>10. mounted' \subseteq (mounted \ severed) \cup OfDrive(Asked)
  BY <1>4, <1>5 DEF Reconcile
<1>11. settled' \subseteq Volumes
  <2>1. refused \subseteq Volumes
    BY <1>5, <1>6
  <2>2. OfDrive(unreadable \cup givenUp) \subseteq Volumes
    BY <1>5, <1>7 DEF OfDrive, Volumes
  <2>3. settled' = settled \cup refused \cup OfDrive(unreadable \cup givenUp)
    BY <1>4 DEF Reconcile
  <2> QED BY <2>1, <2>2, <2>3 DEF TypeOK
<1> QED BY <1>6, <1>8, <1>9, <1>10, <1>11 DEF LookMounts, TypeOK

LEMMA LookTypes == TypeOK /\ Look => TypeOK'
<1> SUFFICES ASSUME TypeOK, Look PROVE TypeOK'
  OBVIOUS
<1>1. LookMounts
  BY LookShape
<1> QED
  BY <1>1, AskedAttached, AttachedAreIds DEF Look, LookMounts, TypeOK, numbering

LEMMA TickTypes == TypeOK /\ Tick => TypeOK'
<1> SUFFICES ASSUME TypeOK, Tick PROVE TypeOK'
  OBVIOUS
<1>1. left' \in [Ids -> 0..Budget]
  BY AutoMountAssumption DEF Tick, TypeOK
<1> QED BY <1>1 DEF Tick, TypeOK, numbering, tree, history

LEMMA TypeStep == TypeOK /\ [Next]_vars => TypeOK'
<1> SUFFICES ASSUME TypeOK, [Next]_vars PROVE TypeOK'
  OBVIOUS
<1>1. CASE UNCHANGED vars
  BY <1>1 DEF vars, TypeOK
<1> QED
  BY <1>1, BusStepTypes, UserStepTypes, LookTypes, TickTypes DEF Next

\* Automount's memory, the tree and the registry's numbers keep their types,
\* and what is pending has been offered (automount.rs, AutoMount).
THEOREM TypeCorrect == Spec => []TypeOK
<1>1. Init => TypeOK
  BY InitTypes
<1> QED BY <1>1, TypeStep, PTL DEF Spec

----------------------------------------------------------------------------

\* Whatever happened on the bus, a frame that finds its counter where it was
\* leaves no mount of an unplugged drive, and has offered every drive there is
\* (automount.rs, service_with_report).
THEOREM NothingIsLeftBehind == Spec => []NothingLeftBehind
<1>1. Init => NothingLeftBehind
  BY DEF Init, NothingLeftBehind
<1>2. NothingLeftBehind /\ [Next]_vars => NothingLeftBehind'
  <2> SUFFICES ASSUME NothingLeftBehind, [Next]_vars PROVE NothingLeftBehind'
    OBVIOUS
  <2>1. CASE BusStep
    BY <2>1 DEF BusStep, DriveFound, DriveUnplugged, DrivesLost, NothingLeftBehind
  <2>2. ASSUME NEW id \in Ids, NEW p \in Partitions, MountByHand(id, p)
        PROVE NothingLeftBehind'
    BY <2>2 DEF MountByHand, NothingLeftBehind, numbering, memory, Attached
  <2>3. ASSUME NEW v \in Volumes, UmountByHand(v) PROVE NothingLeftBehind'
    BY <2>3 DEF UmountByHand, NothingLeftBehind, numbering, memory, Attached
  <2>4. ASSUME NEW on \in BOOLEAN, SetEnabled(on) PROVE NothingLeftBehind'
    BY <2>4 DEF SetEnabled, NothingLeftBehind
  <2>5. CASE Look
    BY <2>5 DEF Look, NothingLeftBehind, numbering, Attached
  <2>6. CASE Tick
    BY <2>6 DEF Tick, NothingLeftBehind, numbering, tree, Attached
  <2>7. CASE UNCHANGED vars
    BY <2>7 DEF vars, NothingLeftBehind, Attached
  <2> QED BY <2>1, <2>2, <2>3, <2>4, <2>5, <2>6, <2>7 DEF Next, UserStep
<1> QED BY <1>1, <1>2, PTL DEF Spec

----------------------------------------------------------------------------

\* A drive that answers does so under the number its place keeps.
NumbersAreKept == \A l \in Slots : number[l] # NoId => number[l] = kept[l]

\* A volume that stays out belongs to a drive that is attached, was offered
\* and is not being asked, so no look has a reason to touch it.
FirmStaysDone == firm \subseteq OfDrive((Attached \cap offered) \ pending)

IInv == TypeOK /\ NumbersAreKept /\ FirmStaysDone /\ UmountStandsOnceExamined

LEMMA BusStepFirm == IInv /\ BusStep => IInv'
<1> SUFFICES ASSUME IInv, BusStep PROVE IInv'
  OBVIOUS
<1>1. TypeOK'
  BY BusStepTypes DEF IInv
<1>2. ASSUME NEW l \in Slots, DriveFound(l) PROVE IInv'
  <2>1. NumbersAreKept'
    BY <1>2 DEF DriveFound, Bus!Find, NumbersAreKept, IInv, TypeOK, NoId
  <2>2. number[l] = NoId /\ \A k \in Slots \ {l} : number'[k] = number[k]
    BY <1>2 DEF DriveFound, Bus!Find, IInv, TypeOK, NoId
  <2>3. Attached \subseteq Attached'
    BY <2>2 DEF Attached
  <2>4. firm' = firm /\ UNCHANGED <<offered, pending, mounted>>
    BY <1>2 DEF DriveFound, memory, tree, history
  <2>5. FirmStaysDone'
    BY <2>3, <2>4 DEF FirmStaysDone, IInv, OfDrive
  <2> QED BY <1>1, <2>1, <2>4, <2>5 DEF IInv, UmountStandsOnceExamined
<1>3. ASSUME NEW places \in SUBSET Slots, DriveUnplugged(places) PROVE IInv'
  <2>1. NumbersAreKept'
    BY <1>3 DEF DriveUnplugged, Bus!Unplug, NumbersAreKept, IInv, TypeOK, NoId
  <2>2. /\ firm' = firm \ OfDrive({kept[l] : l \in places})
        /\ UNCHANGED <<offered, pending, mounted>>
    BY <1>3 DEF DriveUnplugged, memory
  <2>3. \A k \in Slots \ places : number'[k] = number[k]
    BY <1>3 DEF DriveUnplugged, Bus!Unplug
  <2>4. Attached \ {kept[l] : l \in places} \subseteq Attached'
    <3> SUFFICES ASSUME NEW id \in Attached, id \notin {kept[l] : l \in places}
                 PROVE id \in Attached'
      OBVIOUS
    <3>1. PICK k \in Slots : number[k] # NoId /\ number[k] = id
      BY DEF Attached
    <3>2. k \notin places
      BY <3>1 DEF IInv, NumbersAreKept
    <3> QED BY <3>1, <3>2, <2>3 DEF Attached
  <2>5. FirmStaysDone'
    BY <2>2, <2>4 DEF FirmStaysDone, IInv, OfDrive
  <2> QED BY <1>1, <2>1, <2>2, <2>5 DEF IInv, UmountStandsOnceExamined
<1>4. CASE DrivesLost
  BY <1>1, <1>4
     DEF DrivesLost, Bus!LoseAll, IInv, NumbersAreKept, FirmStaysDone, NoId,
         UmountStandsOnceExamined
<1> QED BY <1>2, <1>3, <1>4 DEF BusStep

LEMMA UserStepFirm == IInv /\ UserStep => IInv'
<1> SUFFICES ASSUME IInv, UserStep PROVE IInv'
  OBVIOUS
<1>1. TypeOK'
  BY UserStepTypes DEF IInv
<1>2. UNCHANGED <<numbering, offered, pending>>
  BY DEF UserStep, MountByHand, UmountByHand, SetEnabled, memory
<1>3. NumbersAreKept' /\ Attached' = Attached
  BY <1>2 DEF IInv, NumbersAreKept, Attached, numbering
<1>4. firm' \subseteq OfDrive((Attached \cap offered) \ pending) /\ UmountStandsOnceExamined'
  BY DEF UserStep, MountByHand, UmountByHand, SetEnabled, memory, tree, history, IInv,
         FirmStaysDone, UmountStandsOnceExamined
<1> QED BY <1>1, <1>2, <1>3, <1>4 DEF IInv, FirmStaysDone

LEMMA LookFirm == IInv /\ Look => IInv'
<1> SUFFICES ASSUME IInv, Look PROVE IInv'
  OBVIOUS
<1>1. TypeOK' /\ LookMounts
  BY LookTypes, LookShape DEF IInv
<1>2. UNCHANGED <<number, kept, firm>> /\ offered' = Attached
  BY DEF Look, numbering
<1>3. NumbersAreKept' /\ Attached' = Attached
  BY <1>2 DEF IInv, NumbersAreKept, Attached
<1>4. ((Attached \cap offered) \ pending) \cap Asked = {}
  BY DEF Asked, Fresh
<1>5. firm \cap OfDrive(Asked) = {}
  BY <1>4 DEF IInv, FirmStaysDone, OfDrive
<1>6. FirmStaysDone'
  BY <1>1, <1>2, <1>3, <1>4 DEF LookMounts, IInv, FirmStaysDone, OfDrive
<1>7. UmountStandsOnceExamined'
  BY <1>1, <1>2, <1>5 DEF LookMounts, IInv, UmountStandsOnceExamined
<1> QED BY <1>1, <1>3, <1>6, <1>7 DEF IInv

\* What the user umounts stays out for as long as its drive is attached and had
\* been examined, whatever looks, rescans and toggles follow (automount.rs,
\* AutoMount.offered).
THEOREM UmountStands == Spec => []UmountStandsOnceExamined
<1>1. Init => IInv
  <2>1. Init => NumbersAreKept /\ FirmStaysDone /\ UmountStandsOnceExamined
    BY DEF Init, Bus!Init, NumbersAreKept, FirmStaysDone, UmountStandsOnceExamined, NoId
  <2> QED BY <2>1, InitTypes DEF IInv
<1>2. IInv /\ [Next]_vars => IInv'
  <2> SUFFICES ASSUME IInv, [Next]_vars PROVE IInv'
    OBVIOUS
  <2>1. CASE Tick
    BY <2>1, TickTypes DEF Tick, IInv, NumbersAreKept, FirmStaysDone, Attached,
         UmountStandsOnceExamined, numbering, tree, history
  <2>2. CASE UNCHANGED vars
    BY <2>2, TypeStep DEF vars, IInv, NumbersAreKept, FirmStaysDone, Attached,
         UmountStandsOnceExamined
  <2> QED BY <2>1, <2>2, BusStepFirm, UserStepFirm, LookFirm DEF Next
<1>3. IInv => UmountStandsOnceExamined
  BY DEF IInv
<1> QED BY <1>1, <1>2, <1>3, PTL DEF Spec
----------------------------------------------------------------------------

\* As long as no more drives are numbered than there are numbers, they are
\* given out in order, and those at or past `found` have never been used.
NumbersAreNew ==
  /\ nextNumber = found % IdLimit
  /\ \A l \in Slots : kept[l] # NoId => kept[l] < found
  /\ \A l, k \in Slots : kept[l] # NoId /\ kept[l] = kept[k] => l = k
  /\ \A id \in offered : id < found
  /\ \A v \in mounted : v[1] < found

\* A mount is only severed with the number its drive had.
SeveredAreGone == \A l \in Slots : \A v \in severed : v[1] # kept[l]

\* A drive that was offered and is not pending has been answered for, whether
\* or not it can be reached just now.
ExaminedAreAnswered ==
  \A l \in Slots :
    kept[l] \in offered \ pending => {kept[l]} \X holds[l] \subseteq mounted \cup settled

AInv == /\ TypeOK /\ NumbersAreKept /\ NumbersAreNew /\ SeveredAreGone
        /\ ExaminedAreAnswered /\ NothingLeftBehind

LEMMA NextNewNumber ==
  ASSUME AInv, MaxFound <= IdLimit, found < MaxFound, NEW id \in Ids, Bus!NextFree(id)
  PROVE  id = found
<1>1. found \in 0..(IdLimit - 1)
  BY AutoMountAssumption DEF AInv, TypeOK
<1>2. nextNumber = found
  BY <1>1, AutoMountAssumption DEF AInv, NumbersAreNew
<1>3. Bus!Free(found)
  <2> SUFFICES ASSUME NEW l \in Slots PROVE kept[l] # found
    BY DEF Bus!Free
  <2>1. kept[l] \in Ids \/ kept[l] = NoId
    BY DEF AInv, TypeOK
  <2>2. CASE kept[l] = NoId
    BY <1>1, <2>2 DEF NoId, Bus!NoId
  <2>3. CASE kept[l] # NoId /\ kept[l] \in Ids
    BY <1>1, <2>3 DEF AInv, NumbersAreNew, Ids, Bus!Ids
  <2> QED BY <2>1, <2>2, <2>3
<1>4. (id - found) % IdLimit <= (found - found) % IdLimit
  BY <1>1, <1>2, <1>3 DEF Bus!NextFree, Bus!Ids
<1>5. id \in 0..(IdLimit - 1)
  BY DEF Ids, Bus!Ids
<1>6. CASE id >= found
  BY <1>1, <1>4, <1>5, <1>6, AutoMountAssumption
<1>7. CASE id < found
  BY <1>1, <1>4, <1>5, <1>7, AutoMountAssumption
<1> QED BY <1>1, <1>5, <1>6, <1>7

LEMMA FoundAccounted ==
  ASSUME MaxFound <= IdLimit, AInv, NEW l \in Slots, DriveFound(l) PROVE AInv'
<1>1. TypeOK' /\ NothingLeftBehind'
  <2>1. BusStep
    BY DEF BusStep
  <2> QED BY <2>1, BusStepTypes DEF AInv, DriveFound, NothingLeftBehind
<1>2. NumbersAreKept'
  BY DEF DriveFound, Bus!Find, NumbersAreKept, AInv, TypeOK, NoId
<1>3. UNCHANGED <<offered, pending, mounted, severed>>
  BY DEF DriveFound, memory, tree
<1>4. CASE kept[l] # NoId
  <2>1. UNCHANGED <<kept, nextNumber, holds, found, settled>>
    BY <1>4 DEF DriveFound, Bus!Find, history, NoId
  <2> QED BY <1>1, <1>2, <1>3, <2>1
          DEF AInv, NumbersAreNew, SeveredAreGone, ExaminedAreAnswered
<1>5. CASE kept[l] = NoId
  <2>1. PICK id \in Ids : /\ Bus!NextFree(id)
                          /\ number' = [number EXCEPT ![l] = id]
                          /\ kept' = [kept EXCEPT ![l] = id]
                          /\ nextNumber' = (id + 1) % IdLimit
    BY <1>5 DEF DriveFound, Bus!Find, Ids, NoId
  <2>2. PICK volumes \in SUBSET Partitions :
          /\ found < MaxFound /\ found' = found + 1
          /\ holds' = [holds EXCEPT ![l] = volumes]
          /\ settled' = settled \ OfDrive({number'[l]})
    BY <1>5 DEF DriveFound
  <2>3. id = found
    BY <2>1, <2>2, NextNewNumber
  <2>4. kept' = [kept EXCEPT ![l] = found] /\ number'[l] = found /\ found \in Nat
    BY <2>1, <2>3 DEF AInv, TypeOK
  <2>5. NumbersAreNew'
    <3>1. nextNumber' = found' % IdLimit
      BY <2>1, <2>2, <2>3
    <3>2. \A k \in Slots : kept'[k] # NoId => kept'[k] < found'
      BY <2>2, <2>4 DEF AInv, TypeOK, NumbersAreNew, Ids, Bus!Ids
    <3>3. \A j, k \in Slots : kept'[j] # NoId /\ kept'[j] = kept'[k] => j = k
      BY <2>4 DEF AInv, TypeOK, NumbersAreNew, Ids, Bus!Ids, NoId, Bus!NoId
    <3>4. (\A d \in offered' : d < found') /\ (\A v \in mounted' : v[1] < found')
      BY <1>3, <2>2, <2>4 DEF AInv, TypeOK, NumbersAreNew, Ids, Bus!Ids, Volumes
    <3> QED BY <3>1, <3>2, <3>3, <3>4 DEF NumbersAreNew
  <2>6. SeveredAreGone'
    BY <1>3, <2>4 DEF AInv, TypeOK, NumbersAreNew, SeveredAreGone, Ids, Bus!Ids
  <2>7. ExaminedAreAnswered'
    <3> SUFFICES ASSUME NEW k \in Slots, kept'[k] \in offered \ pending
                 PROVE {kept'[k]} \X holds'[k] \subseteq mounted \cup settled'
      BY <1>3 DEF ExaminedAreAnswered
    <3>1. k # l /\ kept'[k] = kept[k] /\ holds'[k] = holds[k] /\ kept[k] # found
      BY <2>2, <2>4 DEF AInv, TypeOK, NumbersAreNew
    <3>2. {kept[k]} \X holds[k] \subseteq mounted \cup settled
      BY <3>1 DEF AInv, ExaminedAreAnswered
    <3>3. ({kept[k]} \X holds[k]) \cap OfDrive({number'[l]}) = {}
      BY <2>4, <3>1 DEF OfDrive
    <3> QED BY <2>2, <3>1, <3>2, <3>3
  <2> QED BY <1>1, <1>2, <2>5, <2>6, <2>7 DEF AInv
<1> QED BY <1>4, <1>5

LEMMA UnpluggedAccounted ==
  ASSUME AInv, NEW places \in SUBSET Slots, DriveUnplugged(places), TypeOK' PROVE AInv'
<1>1. NumbersAreKept' /\ NothingLeftBehind'
  BY DEF DriveUnplugged, Bus!Unplug, NumbersAreKept, AInv, TypeOK, NoId, NothingLeftBehind
<1>2. /\ UNCHANGED <<offered, pending, mounted, nextNumber, found, settled>>
      /\ severed' = severed \cup (mounted \cap OfDrive({kept[l] : l \in places}))
      /\ holds' = [l \in Slots |-> IF l \in places THEN {} ELSE holds[l]]
  BY DEF DriveUnplugged, memory, Bus!Unplug
<1>3. kept' = [l \in Slots |-> IF l \in places THEN NoId ELSE kept[l]]
  BY DEF DriveUnplugged, Bus!Unplug, NoId
<1>4. NumbersAreNew'
  BY <1>2, <1>3 DEF AInv, NumbersAreNew
<1>5. SeveredAreGone'
  <2> SUFFICES ASSUME NEW l \in Slots, NEW v \in severed' PROVE v[1] # kept'[l]
    BY DEF SeveredAreGone
  <2>1. v \in Volumes /\ v[1] # NoId
    BY <1>2 DEF AInv, TypeOK, Volumes, Ids, NoId, Bus!Ids, Bus!NoId
  <2>2. CASE l \in places
    BY <1>3, <2>1, <2>2
  <2>3. CASE l \notin places /\ v \in severed
    BY <1>3, <2>3 DEF AInv, SeveredAreGone
  <2>4. CASE l \notin places /\ v \in mounted \cap OfDrive({kept[k] : k \in places})
    <3>1. PICK k \in places : v[1] = kept[k]
      BY <2>4 DEF OfDrive
    <3> QED BY <1>3, <2>1, <2>4, <3>1 DEF AInv, NumbersAreNew
  <2> QED BY <1>2, <2>2, <2>3, <2>4
<1>6. ExaminedAreAnswered'
  BY <1>2, <1>3 DEF AInv, ExaminedAreAnswered, TypeOK, Ids, NoId, Bus!Ids, Bus!NoId
<1> QED BY <1>1, <1>4, <1>5, <1>6 DEF AInv

LEMMA UserAccounted == AInv /\ UserStep => AInv'
<1> SUFFICES ASSUME AInv, UserStep PROVE AInv'
  OBVIOUS
<1>1. TypeOK'
  BY UserStepTypes DEF AInv
<1>2. UNCHANGED <<number, kept, nextNumber, offered, pending, holds, found>>
  BY DEF UserStep, MountByHand, UmountByHand, SetEnabled, numbering, memory
<1>3. NumbersAreKept'
  BY <1>2 DEF AInv, NumbersAreKept
<1> DEFINE OnlyGrows ==
             /\ severed' \subseteq severed /\ mounted \cup settled \subseteq mounted' \cup settled'
             /\ \A v \in mounted' \ mounted : \E l \in Slots : v[1] = number[l] /\ number[l] # NoId
             /\ NothingLeftBehind'
<1>4. OnlyGrows
  <2>1. ASSUME NEW id \in Ids, NEW p \in Partitions, MountByHand(id, p) PROVE OnlyGrows
    <3>1. \E l \in Slots : id = number[l] /\ number[l] # NoId
      BY <2>1, AutoMountAssumption DEF MountByHand, Readable, Ids, NoId, Bus!Ids, Bus!NoId
    <3>2. mounted' = mounted \cup {<<id, p>>} /\ UNCHANGED <<severed, settled, enabled, moved>>
      BY <2>1 DEF MountByHand, memory
    <3> QED BY <3>1, <3>2, <1>2 DEF Attached, AInv, NothingLeftBehind
  <2>2. ASSUME NEW v \in Volumes, UmountByHand(v) PROVE OnlyGrows
    BY <2>2, <1>2 DEF UmountByHand, Attached, AInv, NothingLeftBehind, memory
  <2>3. ASSUME NEW on \in BOOLEAN, SetEnabled(on) PROVE OnlyGrows
    BY <2>3, <1>2 DEF SetEnabled, Attached, AInv, NothingLeftBehind, tree, history
  <2> QED BY <2>1, <2>2, <2>3 DEF UserStep
<1>5. NumbersAreNew'
  BY <1>2, <1>4 DEF AInv, NumbersAreNew, NumbersAreKept, OnlyGrows
<1>6. SeveredAreGone' /\ ExaminedAreAnswered'
  BY <1>2, <1>4 DEF AInv, SeveredAreGone, ExaminedAreAnswered
<1> QED BY <1>1, <1>3, <1>4, <1>5, <1>6 DEF AInv

\* One look answers for every drive it does not leave pending.
LEMMA LookAnswers ==
  ASSUME AInv, Look, NEW l \in Slots, kept[l] \in Attached \ pending'
  PROVE  {kept[l]} \X holds[l] \subseteq mounted' \cup settled'
<1> DEFINE id == kept[l]
<1>1. number[l] = id /\ id \in Ids
  <2>1. PICK k \in Slots : number[k] # NoId /\ number[k] = id
    BY DEF Attached
  <2>2. kept[k] = kept[l] /\ kept[k] # NoId
    BY <2>1 DEF AInv, NumbersAreKept
  <2>3. k = l
    BY <2>2 DEF AInv, NumbersAreNew
  <2> QED BY <2>1, <2>3 DEF AInv, TypeOK
<1>2. PICK silent \in SUBSET Asked : \E unreadable \in SUBSET (Asked \ silent) :
        \E late \in SUBSET Entries(silent, unreadable) :
        \E refused \in SUBSET (ReadableEntries(silent, unreadable) \ late) :
          Reconcile(silent, unreadable, late, refused)
  BY DEF Look
<1>3. PICK unreadable \in SUBSET (Asked \ silent) :
        \E late \in SUBSET Entries(silent, unreadable) :
        \E refused \in SUBSET (ReadableEntries(silent, unreadable) \ late) :
          Reconcile(silent, unreadable, late, refused)
  BY <1>2
<1>4. PICK late \in SUBSET Entries(silent, unreadable) :
        \E refused \in SUBSET (ReadableEntries(silent, unreadable) \ late) :
          Reconcile(silent, unreadable, late, refused)
  BY <1>3
<1>5. PICK refused \in SUBSET (ReadableEntries(silent, unreadable) \ late) :
        Reconcile(silent, unreadable, late, refused)
  BY <1>4
<1> DEFINE retry == Retry(silent, late)
           givenUp == {d \in retry : Deadlines(Asked)[d] = 0}
<1>6. /\ pending' = retry \ givenUp
      /\ mounted' = (mounted \ severed)
                       \cup (ReadableEntries(silent, unreadable) \ (late \cup refused))
      /\ settled' = settled \cup refused \cup OfDrive(unreadable \cup givenUp)
  BY <1>5 DEF Reconcile
<1>7. SUFFICES ASSUME NEW p \in holds[l] PROVE <<id, p>> \in mounted' \cup settled'
  OBVIOUS
<1>8. p \in Partitions /\ <<id, p>> \in Readable(id)
  BY <1>1 DEF Readable, AInv, TypeOK
<1>9. CASE id \in Asked
  <2>1. CASE id \in unreadable \cup givenUp
    BY <1>6, <1>8, <2>1 DEF OfDrive
  <2>2. CASE id \notin unreadable \cup givenUp
    <3>1. id \notin retry
      BY <1>6, <2>2
    <3>2. id \notin silent /\ <<id, p>> \notin late
      BY <3>1 DEF Retry
    <3>3. <<id, p>> \in mounted \ severed \/ <<id, p>> \in ReadableEntries(silent, unreadable)
      BY <1>8, <1>9, <2>2, <3>2 DEF Entries, ReadableEntries, OfDrive
    <3> QED BY <1>6, <3>2, <3>3
  <2> QED BY <2>1, <2>2
<1>10. CASE id \notin Asked
  <2>1. id \in offered \ pending
    BY <1>10 DEF Asked, Fresh
  <2>2. <<id, p>> \in mounted \cup settled
    BY <2>1 DEF AInv, ExaminedAreAnswered
  <2>3. <<id, p>> \notin severed
    BY DEF AInv, SeveredAreGone
  <2> QED BY <1>6, <2>2, <2>3
<1> QED BY <1>9, <1>10

LEMMA LookAccounted == AInv /\ Look => AInv'
<1> SUFFICES ASSUME AInv, Look PROVE AInv'
  OBVIOUS
<1>1. TypeOK' /\ LookMounts
  BY LookTypes, LookShape DEF AInv
<1>2. /\ UNCHANGED <<number, kept, nextNumber, holds, found>>
      /\ offered' = Attached /\ severed' = {} /\ Attached' = Attached
  BY DEF Look, numbering, Attached
<1>3. NumbersAreKept' /\ SeveredAreGone' /\ NothingLeftBehind'
  BY <1>2 DEF AInv, NumbersAreKept, SeveredAreGone, NothingLeftBehind
<1>4. \A id \in Attached : id < found
  BY DEF Attached, AInv, NumbersAreKept, NumbersAreNew
<1>5. NumbersAreNew'
  <2>1. \A v \in OfDrive(Asked) : v[1] < found
    BY <1>4, AskedAttached DEF OfDrive
  <2> QED BY <1>1, <1>2, <1>4, <2>1 DEF AInv, NumbersAreNew, LookMounts
<1>6. ExaminedAreAnswered'
  BY <1>2, LookAnswers DEF ExaminedAreAnswered
<1> QED BY <1>1, <1>3, <1>5, <1>6 DEF AInv

\* As long as no more drives come than there are numbers, a frame that finds
\* nothing to do has every readable volume of an attached drive in the tree,
\* answered for, out of it by the user's hand, or still to be asked
\* (automount.rs, reconcile and worth_retrying).
THEOREM EveryVolumeIsAccountedFor ==
  ASSUME MaxFound <= IdLimit PROVE Spec => []EveryVolumeAccountedFor
<1>1. Init => AInv
  <2> SUFFICES ASSUME Init PROVE AInv
    OBVIOUS
  <2>1. 0 % IdLimit = 0
    BY AutoMountAssumption
  <2>2. NumbersAreNew
    BY <2>1 DEF Init, Bus!Init, NumbersAreNew, NoId
  <2> QED BY <2>2, InitTypes
          DEF Init, Bus!Init, AInv, NumbersAreKept, SeveredAreGone, ExaminedAreAnswered,
              NothingLeftBehind, NoId
<1>2. AInv /\ [Next]_vars => AInv'
  <2> SUFFICES ASSUME AInv, [Next]_vars PROVE AInv'
    OBVIOUS
  <2>1. TypeOK'
    BY TypeStep DEF AInv
  <2>2. ASSUME NEW l \in Slots, DriveFound(l) PROVE AInv'
    BY <2>2, FoundAccounted
  <2>3. ASSUME NEW places \in SUBSET Slots, DriveUnplugged(places) PROVE AInv'
    BY <2>1, <2>3, UnpluggedAccounted
  <2>4. CASE DrivesLost
    BY <2>1, <2>4
       DEF DrivesLost, Bus!LoseAll, AInv, NumbersAreKept, NumbersAreNew, SeveredAreGone,
           ExaminedAreAnswered, NothingLeftBehind, memory, tree, NoId
  <2>5. CASE Tick
    BY <2>1, <2>5
       DEF Tick, AInv, NumbersAreKept, NumbersAreNew, SeveredAreGone, ExaminedAreAnswered,
           NothingLeftBehind, Attached, numbering, tree, history
  <2>6. CASE UNCHANGED vars
    BY <2>1, <2>6
       DEF vars, AInv, NumbersAreKept, NumbersAreNew, SeveredAreGone, ExaminedAreAnswered,
           NothingLeftBehind, Attached
  <2> QED BY <2>2, <2>3, <2>4, <2>5, <2>6, UserAccounted, LookAccounted DEF Next, BusStep
<1>3. AInv => EveryVolumeAccountedFor
  <2> SUFFICES ASSUME AInv, enabled, ~moved, NEW id \in Attached \ pending,
                      NEW v \in Readable(id)
               PROVE v \in mounted \cup settled
    BY DEF EveryVolumeAccountedFor
  <2>1. id \in offered
    BY DEF AInv, NothingLeftBehind
  <2>2. PICK l \in Slots : number[l] = id /\ \E p \in holds[l] : v = <<id, p>>
    BY DEF Readable
  <2>3. kept[l] = id
    BY <2>2, AutoMountAssumption DEF AInv, NumbersAreKept, Attached
  <2> QED BY <2>1, <2>2, <2>3 DEF AInv, ExaminedAreAnswered
<1> QED BY <1>1, <1>2, <1>3, PTL DEF Spec

=============================================================================
