--------------------------- MODULE StorageProofs ---------------------------
(***************************************************************************)
(* Theorems about the two ways to a medium: BotTransport, for data phases  *)
(* of any lengths and any limits (data crosses once and in order, a        *)
(* command that is called done is, and a session that is still usable has  *)
(* both sides agreed), and SdHost, for any faults and calls (the clock     *)
(* that two cards share suits both, and a transfer moves its own data).    *)
(***************************************************************************)
EXTENDS BotTransport, TLAPS

----------------------------------------------------------------------------
(* The inductive invariant.                                                *)

InAgreed == inToggle = drive.inToggle
OutAgreed == outToggle = drive.outToggle
Busy == at \in {"cbw", "data", "csw"}

\* The places 1, 2, ... n of a data phase, in order.
InOrder(s, n) == s \in Seq(Nat) /\ Len(s) = n /\ \A i \in 1..n : s[i] = i

\* By the toggle of a command block, both know whether the drive has it.
AtCommand ==
  at = "cbw" =>
    /\ done = 0 /\ received = <<>>
    /\ OutAgreed => drive.phase = "ready" /\ begun < attempt
    /\ ~OutAgreed =>
         /\ drive.tag = tag /\ drive.left = command.packets /\ taken = <<>>
         /\ drive.phase \in {"data", "status"}
         /\ command.kind = "none" => drive.phase = "status"
         /\ command.kind = "out" => drive.phase = "data"

\* The drive is as far as the host, or one packet OUT ahead of it.
AtData ==
  at = "data" =>
    /\ drive.tag = tag /\ done < command.packets
    /\ command.kind = "in" =>
         /\ OutAgreed /\ drive.phase \in {"data", "status"}
         /\ drive.left = command.packets - done /\ InOrder(received, done)
    /\ command.kind = "out" =>
         IF OutAgreed
         THEN drive.phase = "data" /\ drive.left = command.packets - done /\ InOrder(taken, done)
         ELSE /\ drive.phase = IF drive.left = 0 THEN "status" ELSE "data"
              /\ drive.left = command.packets - done - 1 /\ InOrder(taken, done + 1)

AtStatus ==
  at = "csw" =>
    /\ drive.tag = tag /\ drive.phase = "status" /\ OutAgreed
    /\ drive.left = command.packets - done
    /\ command.kind = "in" => InOrder(received, done)
    /\ command.kind = "out" => done = command.packets /\ InOrder(taken, done)

\* The IN toggles move together but for a CLEAR_FEATURE that went wrong.
Agreement ==
  /\ Busy \/ (at = "clearOut" /\ cleared) => InAgreed
  /\ at \in {"clearIn", "clearOut"} => drive.phase = "ready"
  /\ SynchronizedBetweenCommands

\* Statuses the drive may still have queued are those of earlier commands.
Tags ==
  /\ drive.tag <= tag /\ drive.stale <= tag
  /\ Busy => drive.stale < tag
  /\ at # "idle" /\ attempt = 1 => tag < MaxTag

Session ==
  /\ unusable => at \in {"idle", "failed"}
  /\ ~unusable => recoveries < RecoveryLimit

Attempts ==
  /\ begun <= attempt
  /\ attempt = 2 => command.replayable

Outcomes == outcome = "passed" => at = "idle" /\ ~unusable /\ SuccessMeansDone

IInv ==
  /\ TypeOK /\ NothingTakenTwice
  /\ AtCommand /\ AtData /\ AtStatus /\ Agreement
  /\ Tags /\ Session /\ Attempts /\ Outcomes
----------------------------------------------------------------------------
(* Data.                                                                   *)

LEMMA CommandFacts ==
  ASSUME NEW c \in Commands
  PROVE  /\ c.kind \in {"none", "in", "out"} /\ c.packets \in Nat
         /\ c.kind = "none" => c.packets = 0
         /\ c.kind # "none" => c.packets > 0
<1>1. CASE c \in [kind : {"none"}, packets : {0}, replayable : BOOLEAN]
  BY <1>1
<1>2. CASE c \in [kind : {"in"}, packets : Lengths, replayable : BOOLEAN]
  <2>1. c.packets \in Nat \ {0}
    BY <1>2, LengthsAssumption
  <2> QED BY <1>2, <2>1
<1>3. CASE c \in [kind : {"out"}, packets : Lengths, replayable : {FALSE}]
  <2>1. c.packets \in Nat \ {0}
    BY <1>3, LengthsAssumption
  <2> QED BY <1>3, <2>1
<1> QED BY <1>1, <1>2, <1>3 DEF Commands

LEMMA OneMoreInOrder ==
  ASSUME NEW n \in Nat, NEW s, InOrder(s, n)
  PROVE  InOrder(Append(s, n + 1), n + 1)
BY DEF InOrder

LEMMA AllInOrder ==
  ASSUME NEW n \in Nat, NEW s, InOrder(s, n)
  PROVE  s = [i \in 1..n |-> i]
BY DEF InOrder

LEMMA NothingInOrder == InOrder(<<>>, 0)
BY DEF InOrder

LEMMA InitIInv == Init => IInv
<1> SUFFICES ASSUME Init PROVE IInv
  OBVIOUS
<1>1. drive \in Drive
  BY LimitsAssumption DEF Init, Drive, FreshDrive, Toggle
<1>2. command.packets \in Nat
  BY CommandFacts DEF Init
<1>3. TypeOK
  <2>1. /\ command \in Commands /\ done \in 0..command.packets /\ tag \in 0..MaxTag
        /\ errors \in 0..PacketRetries /\ timeouts \in 0..TimeoutRetries
        /\ recoveries \in 0..RecoveryLimit
    BY <1>2, LimitsAssumption DEF Init
  <2>2. recovered \in BOOLEAN /\ unusable \in BOOLEAN /\ cleared \in BOOLEAN
    BY DEF Init
  <2>3. taken \in Seq(Nat) /\ received \in Seq(Nat) /\ begun \in Nat
    BY DEF Init
  <2>4. /\ at = "idle" /\ attempt = 1 /\ inToggle = 0 /\ outToggle = 0 /\ outcome = "none"
    BY DEF Init
  <2> QED BY <1>1, <2>1, <2>2, <2>3, <2>4 DEF TypeOK, Toggle
<1>4. Session
  BY LimitsAssumption DEF Init, Session
<1>5. Tags
  BY DEF Init, FreshDrive, Tags, Busy
<1> QED
  BY <1>3, <1>4, <1>5 DEF Init, FreshDrive, IInv, NothingTakenTwice, AtCommand, AtData, AtStatus,
     Agreement, Busy, InAgreed, SynchronizedBetweenCommands, Attempts, Outcomes

----------------------------------------------------------------------------
(* What the drive does with a packet OUT.                                  *)

LEMMA FlipToggles == \A t \in Toggle : Flip(t) \in Toggle /\ Flip(t) # t
BY DEF Toggle, Flip

LEMMA DriveSet ==
  ASSUME NEW d \in Drive
  PROVE  /\ d.phase \in {"ready", "data", "status"} /\ d.tag \in 0..MaxTag /\ d.left \in Nat
         /\ d.inToggle \in Toggle /\ d.outToggle \in Toggle /\ d.resend \in BOOLEAN
         /\ d.stale \in 0..MaxTag
BY DEF Drive

LEMMA Taking ==
  ASSUME IInv, Sending, Takes
  PROVE  /\ OutAgreed /\ drive' \in Drive /\ received' = received
         /\ drive'.outToggle = Flip(drive.outToggle) /\ drive'.inToggle = drive.inToggle
         /\ drive'.stale = drive.stale /\ drive'.tag = tag
         /\ at = "cbw" =>
              /\ drive'.left = command.packets /\ taken' = <<>> /\ begun' = begun + 1
              /\ drive'.phase = IF command.packets = 0 THEN "status" ELSE "data"
         /\ at = "data" =>
              /\ command.kind = "out" /\ drive.left = command.packets - done /\ drive.left > 0
              /\ drive'.left = drive.left - 1
              /\ drive'.phase = IF drive.left = 1 THEN "status" ELSE "data"
              /\ taken' = Append(taken, done + 1) /\ begun' = begun /\ InOrder(taken, done)
<1>1. /\ drive \in Drive /\ command.packets \in Nat /\ tag \in 0..MaxTag /\ MaxTag \in Nat
      /\ done \in Nat
  BY CommandFacts, LimitsAssumption DEF IInv, TypeOK
<1>2. CASE at = "cbw"
  <2>1. PICK status \in {"passed", "failed", "phaseError"} :
          /\ outToggle = drive.outToggle
          /\ drive' = [drive EXCEPT !.phase = IF command.packets = 0 THEN "status" ELSE "data",
                                    !.tag = tag, !.left = command.packets, !.status = status,
                                    !.outToggle = Flip(outToggle)]
          /\ begun' = begun + 1 /\ taken' = <<>> /\ received' = received
    BY <1>2 DEF Takes, TakesCommand
  <2>2. drive' \in Drive
    <3>1. Flip(outToggle) \in Toggle
      BY <1>1, <2>1, DriveSet, FlipToggles
    <3>2. (IF command.packets = 0 THEN "status" ELSE "data") \in {"ready", "data", "status"}
      OBVIOUS
    <3> QED BY <1>1, <2>1, <3>1, <3>2 DEF Drive
  <2> QED BY <1>1, <1>2, <2>1, <2>2 DEF Drive, OutAgreed
<1>3. CASE at = "data"
  <2>1. command.kind = "out" /\ OutAgreed
    BY <1>3 DEF Takes, TakesData, OutAgreed
  <2>2. /\ drive.left = command.packets - done /\ drive.left > 0 /\ drive.tag = tag
        /\ InOrder(taken, done)
    BY <1>1, <1>3, <2>1 DEF IInv, AtData
  <2>3. /\ drive' = [drive EXCEPT !.phase = IF drive.left = 1 THEN "status" ELSE "data",
                                  !.left = drive.left - 1, !.outToggle = Flip(outToggle)]
        /\ taken' = Append(taken, done + 1) /\ received' = received /\ begun' = begun
    BY <1>3 DEF Takes, TakesData
  <2>4. drive' \in Drive
    <3>1. Flip(outToggle) \in Toggle
      BY <1>1, <2>1, DriveSet, FlipToggles DEF OutAgreed
    <3>2. drive.left - 1 \in Nat
      BY <1>1, <2>2, DriveSet
    <3>3. (IF drive.left = 1 THEN "status" ELSE "data") \in {"ready", "data", "status"}
      OBVIOUS
    <3> QED BY <1>1, <2>3, <3>1, <3>2, <3>3 DEF Drive
  <2> QED BY <1>1, <1>3, <2>1, <2>2, <2>3, <2>4 DEF Drive, OutAgreed
<1> QED BY <1>2, <1>3 DEF Sending

\* Whatever becomes of a packet OUT, its data is not taken again.
LEMMA TakingOnce ==
  ASSUME IInv, Sending, Takes \/ TakesNothing
  PROVE  /\ drive' \in Drive /\ taken' \in Seq(Nat) /\ received' \in Seq(Nat) /\ begun' \in Nat
         /\ begun' <= attempt /\ drive'.tag <= tag /\ drive'.stale = drive.stale
         /\ NothingTakenTwice'
<1>1. CASE TakesNothing
  BY <1>1 DEF TakesNothing, history, IInv, TypeOK, Attempts, Tags, NothingTakenTwice
<1>2. CASE Takes
  <2>0. received' = received /\ drive' \in Drive /\ drive'.tag <= tag /\ drive'.stale = drive.stale
    BY <1>2, Taking, LimitsAssumption DEF IInv, TypeOK
  <2>1. CASE at = "cbw"
    <3>1. taken' = <<>> /\ begun' = begun + 1
      BY <1>2, <2>1, Taking
    <3>2. begun < attempt
      BY <1>2, <2>1, Taking DEF IInv, AtCommand
    <3>3. begun' \in Nat /\ begun' <= attempt
      BY <3>1, <3>2 DEF IInv, TypeOK
    <3> QED BY <2>0, <3>1, <3>3 DEF NothingTakenTwice, IInv, TypeOK
  <2>2. CASE at = "data"
    <3>1. taken' = Append(taken, done + 1) /\ begun' = begun /\ InOrder(taken, done) /\ done \in Nat
      BY <1>2, <2>2, Taking, CommandFacts DEF IInv, TypeOK
    <3>2. InOrder(taken', done + 1)
      BY <3>1, OneMoreInOrder
    <3> QED BY <2>0, <3>1, <3>2 DEF NothingTakenTwice, InOrder, IInv, TypeOK, Attempts
  <2> QED BY <2>1, <2>2 DEF Sending
<1> QED BY <1>1, <1>2

----------------------------------------------------------------------------
(* Steps that several actions take.                                        *)

\* A command that fails leaves the rest to the recovery.
LEMMA ToCleanup ==
  ASSUME IInv, Busy, at' = "cleanup",
         inToggle' \in Toggle, errors' \in 0..PacketRetries, timeouts' \in 0..TimeoutRetries,
         UNCHANGED <<command, attempt, tag, done, outToggle, recoveries, recovered, unusable,
                     cleared, outcome>>,
         drive' \in Drive, taken' \in Seq(Nat), received' \in Seq(Nat), begun' \in Nat,
         begun' <= attempt, drive'.tag <= tag, drive'.stale <= tag, NothingTakenTwice'
  PROVE  IInv'
<1>1. TypeOK'
  BY DEF IInv, TypeOK
<1>2. AtCommand' /\ AtData' /\ AtStatus' /\ Agreement'
  BY DEF AtCommand, AtData, AtStatus, Agreement, Busy, SynchronizedBetweenCommands
<1>3. Tags'
  BY DEF IInv, Tags, Busy
<1>4. Session' /\ Attempts' /\ Outcomes'
  BY DEF IInv, Session, Attempts, Outcomes, Busy
<1> QED BY <1>1, <1>2, <1>3, <1>4 DEF IInv

\* A packet that is sent again, or waited for again.
LEMMA SamePacket ==
  ASSUME IInv, Busy, (Sending /\ Takes) \/ TakesNothing,
         errors' \in 0..PacketRetries, timeouts' \in 0..TimeoutRetries,
         UNCHANGED <<at, command, attempt, tag, done, inToggle, outToggle, recoveries, recovered,
                     unusable, cleared, outcome>>
  PROVE  IInv'
<1>1. CASE TakesNothing
  BY <1>1 DEF TakesNothing, history, IInv, TypeOK, NothingTakenTwice, AtCommand, AtData, AtStatus,
     Agreement, InAgreed, OutAgreed, Busy, SynchronizedBetweenCommands, Tags, Session, Attempts,
     Outcomes, SuccessMeansDone
<1>2. CASE Sending /\ Takes
  <2>1. TypeOK' /\ NothingTakenTwice'
    BY <1>2, TakingOnce DEF IInv, TypeOK
  <2>2. OutAgreed /\ ~OutAgreed'
    BY <1>2, Taking, FlipToggles, DriveSet DEF IInv, TypeOK, OutAgreed
  <2>3. AtCommand'
    <3> SUFFICES ASSUME at = "cbw" PROVE AtCommand'
      BY DEF AtCommand
    <3>1. done = 0 /\ received = <<>> /\ received' = received
      BY <1>2, Taking DEF IInv, AtCommand
    <3>2. command.kind \in {"none", "in", "out"} /\ (command.kind = "none" <=> command.packets = 0)
      BY CommandFacts DEF IInv, TypeOK
    <3>3. /\ drive'.tag = tag /\ drive'.left = command.packets /\ taken' = <<>>
          /\ drive'.phase = IF command.packets = 0 THEN "status" ELSE "data"
      BY <1>2, Taking
    <3> QED BY <2>2, <3>1, <3>2, <3>3 DEF AtCommand
  <2>4. AtData'
    <3> SUFFICES ASSUME at = "data" PROVE AtData'
      BY DEF AtData
    <3>1. /\ command.kind = "out" /\ drive.left = command.packets - done /\ drive.left > 0
          /\ drive'.left = drive.left - 1
          /\ drive'.phase = IF drive.left = 1 THEN "status" ELSE "data"
          /\ taken' = Append(taken, done + 1) /\ InOrder(taken, done) /\ drive'.tag = tag
      BY <1>2, Taking
    <3>2. done \in Nat /\ command.packets \in Nat /\ drive.left \in Nat
      BY CommandFacts, DriveSet DEF IInv, TypeOK
    <3>3. InOrder(taken', done + 1)
      BY <3>1, <3>2, OneMoreInOrder
    <3> QED BY <2>2, <3>1, <3>2, <3>3 DEF AtData
  <2>5. AtStatus' /\ Agreement'
    BY <1>2, Taking DEF IInv, AtStatus, Agreement, Sending, Busy, InAgreed, SynchronizedBetweenCommands
  <2>6. Tags' /\ Session' /\ Attempts' /\ Outcomes'
    BY <1>2, TakingOnce DEF IInv, Tags, Session, Attempts, Outcomes, Busy, Sending
  <2> QED BY <2>1, <2>3, <2>4, <2>5, <2>6 DEF IInv
<1> QED BY <1>1, <1>2

----------------------------------------------------------------------------
(* Packets OUT.                                                            *)

LEMMA OutOkStep == IInv /\ OutOk => IInv'
<1> SUFFICES ASSUME IInv, OutOk PROVE IInv'
  OBVIOUS
<1> USE DEF OutOk
<1>1. /\ command \in Commands /\ command' = command /\ attempt' = attempt /\ tag' = tag
      /\ command.kind \in {"none", "in", "out"} /\ command.packets \in Nat /\ done \in Nat
      /\ command.kind = "none" <=> command.packets = 0
  BY CommandFacts DEF IInv, TypeOK
<1>2. /\ drive' \in Drive /\ taken' \in Seq(Nat) /\ received' = received /\ begun' \in Nat
      /\ begun' <= attempt /\ drive'.tag <= tag /\ drive'.stale = drive.stale /\ NothingTakenTwice'
      /\ drive'.inToggle = drive.inToggle
  <2>1. CASE Takes
    BY <2>1, TakingOnce, Taking
  <2>2. CASE Duplicate
    BY <2>2 DEF Duplicate, history, IInv, TypeOK, Attempts, Tags, NothingTakenTwice
  <2> QED BY <2>1, <2>2
<1>3. OutAgreed'
  <2>1. CASE Takes
    BY <2>1, Taking DEF OutAgreed
  <2>2. CASE Duplicate
    BY <2>2, DriveSet DEF Duplicate, OutAgreed, IInv, TypeOK, Toggle, Flip
  <2> QED BY <2>1, <2>2
<1>4. CASE at = "cbw"
  <2>1. /\ drive'.tag = tag /\ drive'.left = command.packets /\ done = 0 /\ done' = 0
        /\ drive'.phase \in {"data", "status"} /\ received' = <<>> /\ taken' = <<>>
        /\ command.kind = "none" => drive'.phase = "status"
        /\ command.kind = "out" => drive'.phase = "data"
    <3>1. CASE Takes
      BY <1>1, <1>4, <3>1, Taking DEF IInv, AtCommand
    <3>2. CASE Duplicate
      BY <1>1, <1>4, <3>2 DEF Duplicate, history, IInv, AtCommand, OutAgreed
    <3> QED BY <3>1, <3>2
  <2>2. at' = IF command.packets = 0 THEN "csw" ELSE "data"
    BY <1>4 DEF AfterData
  <2>3. TypeOK'
    BY <1>1, <1>2, <2>1, <2>2, FlipToggles, LimitsAssumption DEF IInv, TypeOK
  <2>4. AtCommand' /\ AtData' /\ AtStatus'
    BY <1>1, <1>3, <2>1, <2>2, NothingInOrder DEF AtCommand, AtData, AtStatus
  <2> QED BY <1>1, <1>2, <1>3, <1>4, <2>2, <2>3, <2>4
     DEF IInv, Agreement, InAgreed, Busy, SynchronizedBetweenCommands, Tags, Session, Attempts, Outcomes
<1>5. CASE at = "data"
  <2>1. command.kind = "out" /\ done < command.packets /\ done' = done + 1
    BY <1>5 DEF Sending, IInv, AtData
  <2>2. /\ drive'.tag = tag /\ drive'.left = command.packets - done - 1
        /\ drive'.phase = IF drive'.left = 0 THEN "status" ELSE "data"
        /\ InOrder(taken', done + 1)
    <3>1. CASE Takes
      <4>1. InOrder(Append(taken, done + 1), done + 1)
        BY <1>1, <1>5, <3>1, Taking, OneMoreInOrder
      <4>2. drive.left \in Nat
        BY DriveSet DEF IInv, TypeOK
      <4>3. /\ drive.left = command.packets - done /\ drive'.left = drive.left - 1
            /\ drive'.phase = IF drive.left = 1 THEN "status" ELSE "data"
            /\ taken' = Append(taken, done + 1) /\ drive'.tag = tag
        BY <1>5, <3>1, Taking
      <4> QED BY <1>1, <4>1, <4>2, <4>3
    <3>2. CASE Duplicate
      BY <1>1, <1>5, <2>1, <3>2 DEF Duplicate, history, IInv, AtData, OutAgreed
    <3> QED BY <3>1, <3>2
  <2>3. at' = IF done + 1 = command.packets THEN "csw" ELSE "data"
    BY <1>5
  <2>4. TypeOK'
    BY <1>1, <1>2, <2>1, <2>3, FlipToggles, LimitsAssumption DEF IInv, TypeOK
  <2>5. AtCommand' /\ AtData' /\ AtStatus'
    BY <1>1, <1>3, <2>1, <2>2, <2>3 DEF AtCommand, AtData, AtStatus
  <2> QED BY <1>1, <1>2, <1>3, <1>5, <2>3, <2>4, <2>5
     DEF IInv, Agreement, InAgreed, Busy, SynchronizedBetweenCommands, Tags, Session, Attempts, Outcomes
<1> QED BY <1>4, <1>5 DEF Sending

LEMMA OutErrorStep == IInv /\ OutError => IInv'
<1> SUFFICES ASSUME IInv, OutError PROVE IInv'
  OBVIOUS
<1>1. /\ drive' \in Drive /\ taken' \in Seq(Nat) /\ received' \in Seq(Nat) /\ begun' \in Nat
      /\ begun' <= attempt /\ drive'.tag <= tag /\ drive'.stale = drive.stale /\ NothingTakenTwice'
  BY TakingOnce DEF OutError
<1>2. Busy /\ inToggle \in Toggle /\ timeouts \in 0..TimeoutRetries /\ drive.stale <= tag
  BY DEF OutError, Sending, Busy, IInv, TypeOK, Tags
<1>3. CASE at' = "cleanup" /\ UNCHANGED <<errors, outToggle>>
  BY <1>1, <1>2, <1>3, ToCleanup DEF OutError, IInv, TypeOK
<1>4. CASE errors < PacketRetries /\ errors' = errors + 1 /\ outToggle' = ToggleOfRetry /\ at' = at
  <2>1. errors' \in 0..PacketRetries /\ outToggle' = outToggle
    BY <1>4, LimitsAssumption DEF IInv, TypeOK, ToggleOfRetry
  <2> QED BY <1>2, <1>4, <2>1, SamePacket DEF OutError
<1> QED BY <1>3, <1>4 DEF OutError

LEMMA OutFailsStep == IInv /\ OutFails => IInv'
<1> SUFFICES ASSUME IInv, OutFails PROVE IInv'
  OBVIOUS
<1>1. /\ drive' \in Drive /\ taken' \in Seq(Nat) /\ received' \in Seq(Nat) /\ begun' \in Nat
      /\ begun' <= attempt /\ drive'.tag <= tag /\ drive'.stale = drive.stale /\ NothingTakenTwice'
  BY TakingOnce DEF OutFails
<1> QED BY <1>1, ToCleanup DEF OutFails, Sending, Busy, IInv, TypeOK, Tags

LEMMA TimeoutStep == IInv /\ Timeout => IInv'
<1> SUFFICES ASSUME IInv, Timeout PROVE IInv'
  OBVIOUS
<1>1. timeouts' \in 0..TimeoutRetries /\ errors' \in 0..PacketRetries
  BY LimitsAssumption DEF Timeout, TimeoutCounted, IInv, TypeOK
<1> QED BY <1>1, SamePacket DEF Timeout, Busy

----------------------------------------------------------------------------
(* Packets IN.                                                             *)

LEMMA InDuplicateStep == IInv /\ InDuplicate => IInv'
<1> SUFFICES ASSUME IInv, InDuplicate PROVE IInv'
  OBVIOUS
<1>1. drive \in Drive /\ drive' = [drive EXCEPT !.resend = FALSE]
  BY DEF InDuplicate, IInv, TypeOK
<1>2. /\ drive' \in Drive /\ drive'.phase = drive.phase /\ drive'.tag = drive.tag
      /\ drive'.left = drive.left /\ drive'.status = drive.status /\ drive'.stale = drive.stale
      /\ drive'.inToggle = drive.inToggle /\ drive'.outToggle = drive.outToggle
  BY <1>1 DEF Drive
<1>3. TypeOK' /\ NothingTakenTwice'
  BY <1>2 DEF InDuplicate, host, history, IInv, TypeOK, NothingTakenTwice
<1>4. AtCommand' /\ AtData' /\ AtStatus'
  BY <1>2 DEF InDuplicate, host, history, IInv, AtCommand, AtData, AtStatus, OutAgreed
<1> QED BY <1>2, <1>3, <1>4
   DEF InDuplicate, host, history, IInv, Agreement, InAgreed, Busy, SynchronizedBetweenCommands, Tags,
       Session, Attempts, Outcomes, SuccessMeansDone

\* A packet the drive offers moves both toggles IN.
LEMMA Offering ==
  ASSUME NEW after \in Drive, Offer(after), drive \in Drive
  PROVE  /\ drive' \in Drive /\ drive'.phase = after.phase /\ drive'.tag = after.tag
         /\ drive'.left = after.left /\ drive'.status = after.status /\ drive'.stale = after.stale
         /\ drive'.outToggle = after.outToggle /\ InAgreed' /\ inToggle' \in Toggle
<1>1. PICK lost \in BOOLEAN : drive' = [after EXCEPT !.inToggle = Flip(inToggle), !.resend = lost]
  BY DEF Offer
<1>2. Flip(inToggle) \in Toggle
  BY FlipToggles, DriveSet DEF Offer
<1> QED BY <1>1, <1>2 DEF Offer, Drive, InAgreed

LEMMA InDataStep == IInv /\ InData => IInv'
<1> SUFFICES ASSUME IInv, InData PROVE IInv'
  OBVIOUS
<1> DEFINE after == [drive EXCEPT !.left = @ - 1, !.phase = IF drive.left = 1 THEN "status" ELSE "data"]
<1>1. /\ drive \in Drive /\ command.packets \in Nat /\ done \in Nat /\ at = "data"
      /\ command.kind = "in"
  BY CommandFacts DEF InData, Offer, Receiving, IInv, TypeOK
<1>2. /\ done < command.packets /\ drive.left = command.packets - done /\ drive.tag = tag
      /\ OutAgreed /\ InOrder(received, done)
  BY <1>1 DEF IInv, AtData
<1>3. drive.left - 1 \in Nat /\ (IF drive.left = 1 THEN "status" ELSE "data") \in {"ready", "data", "status"}
  BY <1>1, <1>2
<1>4. after \in Drive
  BY <1>1, <1>3 DEF Drive
<1>5. /\ drive' \in Drive /\ drive'.phase = after.phase /\ drive'.tag = after.tag
      /\ drive'.left = after.left /\ drive'.stale = after.stale
      /\ drive'.outToggle = after.outToggle /\ InAgreed' /\ inToggle' \in Toggle
  BY <1>1, <1>4, Offering DEF InData
<1>6. /\ drive'.left = command.packets - done - 1 /\ drive'.tag = tag /\ OutAgreed'
      /\ drive'.phase = (IF drive.left = 1 THEN "status" ELSE "data") /\ drive'.stale = drive.stale
  BY <1>1, <1>2, <1>5 DEF Drive, InData, OutAgreed
<1>7. received' = Append(received, done + 1) /\ InOrder(received', done + 1)
  <2>1. command.packets - drive.left + 1 = done + 1
    BY <1>1, <1>2
  <2> QED BY <1>1, <1>2, <2>1, OneMoreInOrder DEF InData
<1>8. done' = done + 1 /\ at' = (IF done + 1 = command.packets THEN "csw" ELSE "data")
  BY DEF InData
<1>9. TypeOK'
  <2>1. received' \in Seq(Nat)
    BY <1>7 DEF InOrder
  <2> QED BY <1>1, <1>2, <1>5, <1>8, <2>1, LimitsAssumption DEF InData, Offer, IInv, TypeOK
<1>10. AtCommand' /\ AtData' /\ AtStatus'
  BY <1>1, <1>2, <1>6, <1>7, <1>8 DEF InData, AtCommand, AtData, AtStatus
<1> QED BY <1>1, <1>5, <1>6, <1>8, <1>9, <1>10
   DEF InData, IInv, NothingTakenTwice, Agreement, Busy, SynchronizedBetweenCommands, Tags, Session,
       Attempts, Outcomes

LEMMA InShortStep == IInv /\ InShort => IInv'
<1> SUFFICES ASSUME IInv, InShort PROVE IInv'
  OBVIOUS
<1> DEFINE after == [drive EXCEPT !.phase = "status"]
<1>1. drive \in Drive /\ after \in Drive /\ at = "data" /\ command.kind = "in"
  BY DEF InShort, Offer, Receiving, IInv, TypeOK, Drive
<1>2. /\ drive.left = command.packets - done /\ drive.tag = tag /\ OutAgreed /\ InOrder(received, done)
  BY <1>1 DEF IInv, AtData
<1>3. /\ drive' \in Drive /\ drive'.phase = "status" /\ drive'.tag = tag /\ drive'.left = drive.left
      /\ drive'.stale = drive.stale /\ drive'.outToggle = drive.outToggle
      /\ InAgreed' /\ inToggle' \in Toggle
  BY <1>1, <1>2, Offering DEF InShort, Drive
<1>4. TypeOK'
  BY <1>3, LimitsAssumption DEF InShort, Offer, history, IInv, TypeOK
<1>5. AtCommand' /\ AtData' /\ AtStatus'
  BY <1>1, <1>2, <1>3 DEF InShort, history, AtCommand, AtData, AtStatus, OutAgreed
<1>6. /\ at' = "csw" /\ taken' = taken /\ begun' = begun
      /\ UNCHANGED <<command, attempt, tag, recoveries, unusable, outcome>>
  BY DEF InShort, history
<1>7. NothingTakenTwice' /\ Agreement' /\ Tags'
  BY <1>1, <1>2, <1>3, <1>6
     DEF IInv, NothingTakenTwice, Agreement, Busy, SynchronizedBetweenCommands, Tags
<1>8. Session' /\ Attempts' /\ Outcomes'
  BY <1>1, <1>6 DEF IInv, Session, Attempts, Outcomes
<1> QED BY <1>4, <1>5, <1>7, <1>8 DEF IInv

\* A status that is not the command's own ends in the recovery.
LEMMA InStaleStep == IInv /\ InStale => IInv'
<1> SUFFICES ASSUME IInv, InStale PROVE IInv'
  OBVIOUS
<1> DEFINE after == [drive EXCEPT !.stale = 0]
            csw == [tag |-> drive.stale, status |-> "passed", residue |-> 0]
<1>1. drive \in Drive /\ after \in Drive /\ Busy /\ drive.tag <= tag /\ tag \in Nat
  <2>1. drive \in Drive /\ Busy /\ drive.tag <= tag /\ tag \in Nat
    BY LimitsAssumption DEF InStale, Offer, Receiving, Busy, IInv, TypeOK, Tags
  <2>2. 0 \in 0..MaxTag
    BY LimitsAssumption
  <2> QED BY <2>1, <2>2 DEF Drive
<1>2. /\ drive' \in Drive /\ drive'.tag = drive.tag /\ drive'.stale = 0 /\ inToggle' \in Toggle
  BY <1>1, Offering DEF InStale, Drive
<1>3. ~CswValid(csw)
  <2>1. drive.stale < tag /\ drive.stale \in Nat
    BY <1>1, DriveSet, LimitsAssumption DEF IInv, Tags
  <2> QED BY <1>1, <2>1 DEF CswValid
<1>4. /\ at' = "cleanup" /\ UNCHANGED <<recoveries, outcome>>
      /\ UNCHANGED <<command, attempt, tag, done, outToggle, recovered, unusable, cleared, history>>
  BY <1>3 DEF InStale, InCsw
<1>5. errors' \in 0..PacketRetries /\ timeouts' \in 0..TimeoutRetries
  BY LimitsAssumption DEF InStale, Offer
<1>6. /\ taken' \in Seq(Nat) /\ received' \in Seq(Nat) /\ begun' \in Nat /\ begun' <= attempt
      /\ NothingTakenTwice'
  BY <1>4 DEF history, IInv, TypeOK, NothingTakenTwice, Attempts
<1>7. drive'.tag <= tag /\ drive'.stale <= tag
  BY <1>1, <1>2
<1> QED BY <1>1, <1>2, <1>4, <1>5, <1>6, <1>7, ToCleanup

\* What InStatus sees: the drive's account of the command that runs.
LEMMA StatusOfTheCommand ==
  ASSUME IInv, InStatus
  PROVE  /\ OutAgreed /\ drive.tag = tag /\ drive.left = command.packets - done
         /\ at = "data" => command.kind = "in" /\ done < command.packets
         /\ at = "csw" =>
              /\ command.kind = "in" => InOrder(received, done)
              /\ command.kind = "out" => InOrder(taken, done)
BY DEF InStatus, Offer, Receiving, IInv, AtData, AtStatus

LEMMA InStatusStep == IInv /\ InStatus => IInv'
<1> SUFFICES ASSUME IInv, InStatus PROVE IInv'
  OBVIOUS
<1> DEFINE after == [drive EXCEPT !.phase = "ready"]
           csw == [tag |-> drive.tag, status |-> drive.status, residue |-> drive.left]
<1>1. drive \in Drive /\ after \in Drive /\ at \in {"data", "csw"} /\ ~unusable
  BY DEF InStatus, Offer, Receiving, IInv, TypeOK, Session, Drive
<1>2. /\ drive' \in Drive /\ drive'.phase = "ready" /\ drive'.tag = drive.tag
      /\ drive'.status = drive.status /\ drive'.stale = drive.stale
      /\ drive'.outToggle = drive.outToggle /\ InAgreed' /\ inToggle' \in Toggle
  BY <1>1, Offering DEF InStatus, Drive
<1>3. /\ UNCHANGED <<command, attempt, tag, done, outToggle, recovered, unusable, cleared>>
      /\ taken' = taken /\ received' = received /\ begun' = begun
  BY DEF InStatus, InCsw, history
<1>4. errors' \in 0..PacketRetries /\ timeouts' \in 0..TimeoutRetries
  BY LimitsAssumption DEF InStatus, Offer
<1>5. CASE ~CswValid(csw)
  <2>1. at' = "cleanup" /\ UNCHANGED <<recoveries, outcome>>
    BY <1>5 DEF InStatus, InCsw
  <2>2. drive'.tag <= tag /\ drive'.stale <= tag
    BY <1>2 DEF IInv, Tags
  <2>3. /\ taken' \in Seq(Nat) /\ received' \in Seq(Nat) /\ begun' \in Nat /\ begun' <= attempt
        /\ NothingTakenTwice' /\ Busy
    BY <1>1, <1>3 DEF IInv, TypeOK, NothingTakenTwice, Attempts, Busy
  <2> QED BY <1>2, <1>3, <1>4, <2>1, <2>2, <2>3, ToCleanup
<1>6. CASE CswValid(csw)
  <2>1. recoveries' = 0 /\ at' = "idle" /\ outcome' = IF Exact(csw) THEN "passed" ELSE "failed"
    BY <1>6 DEF InStatus, InCsw
  <2>2. TypeOK' /\ NothingTakenTwice'
    BY <1>2, <1>3, <1>4, <2>1, LimitsAssumption DEF IInv, TypeOK, NothingTakenTwice
  <2>3. OutAgreed'
    BY <1>2, <1>3, StatusOfTheCommand DEF OutAgreed
  <2>4. AtCommand' /\ AtData' /\ AtStatus' /\ Agreement' /\ Tags'
    BY <1>2, <1>3, <2>1, <2>3
       DEF IInv, AtCommand, AtData, AtStatus, Agreement, Busy, InAgreed, OutAgreed,
           SynchronizedBetweenCommands, Tags
  <2>5. Session' /\ Attempts'
    BY <1>1, <1>3, <2>1, LimitsAssumption DEF IInv, Session, Attempts
  <2>6. ASSUME Exact(csw) PROVE SuccessMeansDone'
    <3>1. drive.status = "passed" /\ done = command.packets /\ done \in Nat /\ at = "csw"
      BY <1>1, <2>6, StatusOfTheCommand, CommandFacts DEF Exact, IInv, TypeOK
    <3>2. command.kind = "in" => received = [i \in 1..command.packets |-> i]
      BY <3>1, StatusOfTheCommand, AllInOrder
    <3>3. command.kind = "out" => taken = [i \in 1..command.packets |-> i]
      BY <3>1, StatusOfTheCommand, AllInOrder
    <3> QED BY <1>2, <1>3, <3>1, <3>2, <3>3, StatusOfTheCommand DEF SuccessMeansDone
  <2>7. Outcomes'
    BY <1>1, <1>3, <2>1, <2>6 DEF Outcomes
  <2> QED BY <2>2, <2>4, <2>5, <2>7 DEF IInv
<1> QED BY <1>5, <1>6

LEMMA InErrorStep == IInv /\ InError => IInv'
<1> SUFFICES ASSUME IInv, InError PROVE IInv'
  OBVIOUS
<1>1. Busy /\ TakesNothing /\ inToggle \in Toggle /\ timeouts' \in 0..TimeoutRetries
  BY DEF InError, Receiving, Busy, TakesNothing, IInv, TypeOK
<1>2. CASE errors < PacketRetries /\ errors' = errors + 1 /\ at' = at
  <2>1. errors' \in 0..PacketRetries
    BY <1>2, LimitsAssumption DEF IInv, TypeOK
  <2> QED BY <1>1, <1>2, <2>1, SamePacket DEF InError
<1>3. CASE at' = "cleanup" /\ UNCHANGED errors
  BY <1>1, <1>3, ToCleanup
     DEF InError, history, IInv, TypeOK, Attempts, Tags, NothingTakenTwice
<1> QED BY <1>2, <1>3 DEF InError

----------------------------------------------------------------------------
(* The recovery.                                                           *)

LEMMA CleanupFailsStep == IInv /\ CleanupFails => IInv'
<1> SUFFICES ASSUME IInv, CleanupFails PROVE IInv'
  OBVIOUS
<1>1. TypeOK'
  BY DEF CleanupFails, history, IInv, TypeOK
<1>2. AtCommand' /\ AtData' /\ AtStatus' /\ Agreement'
  BY DEF CleanupFails, AtCommand, AtData, AtStatus, Agreement, Busy, SynchronizedBetweenCommands
<1>3. NothingTakenTwice' /\ Tags' /\ Session' /\ Attempts' /\ Outcomes'
  BY DEF CleanupFails, history, IInv, NothingTakenTwice, Tags, Busy, Session, Attempts, Outcomes
<1> QED BY <1>1, <1>2, <1>3 DEF IInv

LEMMA CleanupStep == IInv /\ Cleanup => IInv'
<1> SUFFICES ASSUME IInv, Cleanup PROVE IInv'
  OBVIOUS
<1>1. TypeOK'
  BY DEF Cleanup, history, IInv, TypeOK
<1>2. AtCommand' /\ AtData' /\ AtStatus' /\ Agreement'
  BY DEF Cleanup, AtCommand, AtData, AtStatus, Agreement, Busy, SynchronizedBetweenCommands
<1>3. NothingTakenTwice' /\ Tags' /\ Session' /\ Attempts' /\ Outcomes'
  BY DEF Cleanup, history, IInv, NothingTakenTwice, Tags, Busy, Session, Attempts, Outcomes
<1> QED BY <1>1, <1>2, <1>3 DEF IInv

LEMMA ResetsTheDrive ==
  ASSUME IInv, DriveResets
  PROVE  drive' \in Drive /\ drive'.phase = "ready" /\ drive'.tag = drive.tag /\ drive'.stale <= tag
<1>1. drive \in Drive /\ drive.tag <= tag /\ drive.tag \in 0..MaxTag /\ tag \in Nat /\ MaxTag \in Nat
  BY DriveSet, LimitsAssumption DEF IInv, TypeOK, Tags
<1>2. PICK kept \in {0} \cup {drive.tag : p \in {drive.phase} \cap {"status"}} :
        drive' = [drive EXCEPT !.phase = "ready", !.left = 0, !.stale = kept]
  BY DEF DriveResets
<1>3. kept \in 0..MaxTag /\ kept <= tag
  BY <1>1, <1>2
<1> QED BY <1>1, <1>2, <1>3 DEF Drive

LEMMA MassStorageResetStep == IInv /\ MassStorageReset => IInv'
<1> SUFFICES ASSUME IInv, MassStorageReset PROVE IInv'
  OBVIOUS
<1>1. drive' \in Drive /\ drive'.phase = "ready" /\ drive'.tag = drive.tag /\ drive'.stale <= tag
  BY ResetsTheDrive DEF MassStorageReset
<1>2. TypeOK'
  BY <1>1 DEF MassStorageReset, history, IInv, TypeOK
<1>3. AtCommand' /\ AtData' /\ AtStatus' /\ Agreement'
  BY <1>1 DEF MassStorageReset, AtCommand, AtData, AtStatus, Agreement, Busy, SynchronizedBetweenCommands
<1>4. NothingTakenTwice' /\ Tags' /\ Session' /\ Attempts' /\ Outcomes'
  BY <1>1 DEF MassStorageReset, history, IInv, NothingTakenTwice, Tags, Busy, Session, Attempts, Outcomes
<1> QED BY <1>2, <1>3, <1>4 DEF IInv

LEMMA MassStorageResetFailsStep == IInv /\ MassStorageResetFails => IInv'
<1> SUFFICES ASSUME IInv, MassStorageResetFails PROVE IInv'
  OBVIOUS
<1>1. drive' \in Drive /\ drive'.tag = drive.tag /\ drive'.stale <= tag
  BY ResetsTheDrive DEF MassStorageResetFails, IInv, TypeOK, Tags
<1>2. TypeOK'
  BY <1>1 DEF MassStorageResetFails, history, IInv, TypeOK
<1>3. AtCommand' /\ AtData' /\ AtStatus' /\ Agreement'
  BY DEF MassStorageResetFails, AtCommand, AtData, AtStatus, Agreement, Busy, SynchronizedBetweenCommands
<1>4. NothingTakenTwice' /\ Tags' /\ Session' /\ Attempts' /\ Outcomes'
  BY <1>1 DEF MassStorageResetFails, history, IInv, NothingTakenTwice, Tags, Busy, Session, Attempts, Outcomes
<1> QED BY <1>2, <1>3, <1>4 DEF IInv

LEMMA ClearInStep == IInv /\ ClearIn => IInv'
<1> SUFFICES ASSUME IInv, ClearIn PROVE IInv'
  OBVIOUS
<1>1. drive \in Drive /\ drive.phase = "ready" /\ 0 \in Toggle
  BY DEF ClearIn, IInv, TypeOK, Agreement, Toggle
<1>2. \/ drive' = [drive EXCEPT !.inToggle = 0, !.resend = FALSE]
      \/ drive' = drive
  BY DEF ClearIn
<1>3. /\ drive' \in Drive /\ drive'.phase = "ready" /\ drive'.tag = drive.tag
      /\ drive'.stale = drive.stale
  BY <1>1, <1>2 DEF Drive
<1>4. cleared' => InAgreed'
  BY <1>1 DEF ClearIn, InAgreed, Drive
<1>5. TypeOK'
  BY <1>1, <1>3 DEF ClearIn, history, IInv, TypeOK
<1>6. AtCommand' /\ AtData' /\ AtStatus' /\ Agreement'
  BY <1>3, <1>4 DEF ClearIn, AtCommand, AtData, AtStatus, Agreement, Busy, SynchronizedBetweenCommands
<1>7. NothingTakenTwice' /\ Tags' /\ Session' /\ Attempts' /\ Outcomes'
  BY <1>3 DEF ClearIn, history, IInv, NothingTakenTwice, Tags, Busy, Session, Attempts, Outcomes
<1> QED BY <1>5, <1>6, <1>7 DEF IInv

LEMMA ClearOutStep == IInv /\ ClearOut => IInv'
<1> SUFFICES ASSUME IInv, ClearOut PROVE IInv'
  OBVIOUS
<1>1. drive \in Drive /\ drive.phase = "ready" /\ 0 \in Toggle /\ drive' = [drive EXCEPT !.outToggle = 0]
  BY DEF ClearOut, IInv, TypeOK, Agreement, Toggle
<1>2. /\ drive' \in Drive /\ drive'.phase = "ready" /\ drive'.tag = drive.tag
      /\ drive'.stale = drive.stale /\ drive'.inToggle = drive.inToggle /\ drive'.outToggle = 0
  BY <1>1 DEF Drive
<1>3. recoveries \in 0..RecoveryLimit /\ recoveries < RecoveryLimit /\ RecoveryLimit \in Nat
  BY LimitsAssumption DEF ClearOut, IInv, TypeOK, Session
<1>4. /\ recoveries' \in 0..RecoveryLimit /\ unusable' \in BOOLEAN
      /\ ~unusable' => cleared /\ recoveries' < RecoveryLimit
  <2>1. unusable' = (~cleared \/ ~Holds) /\ recoveries' = IF cleared THEN recoveries + 1 ELSE recoveries
    BY DEF ClearOut
  <2>2. unusable' \in BOOLEAN /\ (~unusable' => cleared /\ Holds)
    BY <2>1, Zenon
  <2>3. recoveries' \in 0..RecoveryLimit
    BY <1>3, <2>1
  <2>4. cleared /\ Holds => recoveries' < RecoveryLimit
    BY <2>1 DEF Holds
  <2> QED BY <2>2, <2>3, <2>4
<1>5. TypeOK'
  BY <1>1, <1>2, <1>4 DEF ClearOut, ClearedOutToggle, history, IInv, TypeOK
<1>6. AtCommand' /\ AtData' /\ AtStatus' /\ Agreement'
  BY <1>2, <1>4
     DEF ClearOut, ClearedOutToggle, IInv, AtCommand, AtData, AtStatus, Agreement, Busy, InAgreed,
         SynchronizedBetweenCommands
<1>7. NothingTakenTwice' /\ Tags' /\ Session' /\ Attempts' /\ Outcomes'
  BY <1>2, <1>4 DEF ClearOut, history, IInv, NothingTakenTwice, Tags, Busy, Session, Attempts, Outcomes
<1> QED BY <1>5, <1>6, <1>7 DEF IInv

LEMMA ClearOutFailsStep == IInv /\ ClearOutFails => IInv'
<1> SUFFICES ASSUME IInv, ClearOutFails PROVE IInv'
  OBVIOUS
<1>1. drive' \in Drive /\ drive'.tag = drive.tag /\ drive'.stale = drive.stale
  BY DEF ClearOutFails, IInv, TypeOK, Toggle, Drive
<1>2. TypeOK'
  BY <1>1 DEF ClearOutFails, history, IInv, TypeOK
<1>3. AtCommand' /\ AtData' /\ AtStatus' /\ Agreement'
  BY DEF ClearOutFails, AtCommand, AtData, AtStatus, Agreement, Busy, SynchronizedBetweenCommands
<1>4. NothingTakenTwice' /\ Tags' /\ Session' /\ Attempts' /\ Outcomes'
  BY <1>1 DEF ClearOutFails, history, IInv, NothingTakenTwice, Tags, Busy, Session, Attempts, Outcomes
<1> QED BY <1>2, <1>3, <1>4 DEF IInv

----------------------------------------------------------------------------
(* The class driver, the registry and the drive on its own.                *)

LEMMA Sends ==
  ASSUME IInv, at \in {"idle", "failed"}, ~unusable,
         NEW next \in Commands, NEW try \in {1, 2}, Send(next, try),
         IF try = 1 THEN tag + 2 <= MaxTag
         ELSE tag < MaxTag /\ next = command /\ next.replayable /\ attempt = 1
  PROVE  IInv'
<1>1. tag \in 0..MaxTag /\ MaxTag \in Nat /\ next.packets \in Nat
  BY CommandFacts, LimitsAssumption DEF IInv, TypeOK
<1>2. drive.phase = "ready" /\ InAgreed /\ OutAgreed
  BY DEF IInv, Agreement, SynchronizedBetweenCommands, InAgreed, OutAgreed
<1>3. tag' = tag + 1 /\ tag' \in 0..MaxTag /\ begun' \in Nat /\ begun' < try
  BY <1>1 DEF Send, IInv, TypeOK, Attempts
<1>4. TypeOK'
  <2>1. /\ done' \in 0..next.packets /\ errors' \in 0..PacketRetries
        /\ timeouts' \in 0..TimeoutRetries /\ attempt' \in {1, 2}
    BY <1>1, LimitsAssumption DEF Send
  <2>2. recovered' \in BOOLEAN /\ unusable' \in BOOLEAN /\ cleared' \in BOOLEAN
    BY DEF Send, IInv, TypeOK
  <2>3. taken' \in Seq(Nat) /\ received' \in Seq(Nat) /\ drive' \in Drive
    BY DEF Send, IInv, TypeOK
  <2>4. /\ command' = next /\ at' = "cbw" /\ outcome' = "none"
        /\ UNCHANGED <<inToggle, outToggle, recoveries>>
    BY DEF Send
  <2> QED BY <1>3, <2>1, <2>2, <2>3, <2>4 DEF IInv, TypeOK
<1>5. AtCommand' /\ AtData' /\ AtStatus' /\ Agreement'
  BY <1>2, <1>3
     DEF Send, AtCommand, AtData, AtStatus, Agreement, Busy, InAgreed, OutAgreed,
         SynchronizedBetweenCommands
<1>6. Tags'
  BY <1>1, <1>3, DriveSet DEF Send, IInv, TypeOK, Tags, Busy
<1>7. NothingTakenTwice' /\ Session' /\ Attempts' /\ Outcomes'
  BY <1>1, <1>3 DEF Send, IInv, TypeOK, NothingTakenTwice, Session, Attempts, Outcomes
<1> QED BY <1>4, <1>5, <1>6, <1>7 DEF IInv

LEMMA ReplayStep == IInv /\ Replay => IInv'
<1> SUFFICES ASSUME IInv, Replay PROVE IInv'
  OBVIOUS
<1>1. at = "failed" /\ ~unusable /\ command.replayable /\ attempt = 1 /\ Send(command, 2)
  BY DEF Replay, MayReplay
<1>2. tag < MaxTag /\ command \in Commands
  BY <1>1 DEF IInv, TypeOK, Tags
<1> QED BY <1>1, <1>2, Sends

LEMMA IssueStep == ASSUME IInv, NEW next \in Commands, Issue(next) PROVE IInv'
BY Sends DEF Issue, Usable

LEMMA GiveUpStep == IInv /\ GiveUp => IInv'
<1> SUFFICES ASSUME IInv, GiveUp PROVE IInv'
  OBVIOUS
<1>1. TypeOK'
  BY DEF GiveUp, history, IInv, TypeOK
<1>2. AtCommand' /\ AtData' /\ AtStatus'
  BY DEF GiveUp, AtCommand, AtData, AtStatus
<1>3. Agreement'
  BY DEF GiveUp, IInv, Agreement, Busy, SynchronizedBetweenCommands
<1>4. NothingTakenTwice' /\ Tags' /\ Session' /\ Attempts' /\ Outcomes'
  BY DEF GiveUp, history, IInv, NothingTakenTwice, Tags, Busy, Session, Attempts, Outcomes
<1> QED BY <1>1, <1>2, <1>3, <1>4 DEF IInv

LEMMA ReattachStep == IInv /\ Reattach => IInv'
<1> SUFFICES ASSUME IInv, Reattach PROVE IInv'
  OBVIOUS
<1>1. FreshDrive \in Drive
  BY LimitsAssumption DEF Drive, FreshDrive, Toggle
<1>2. TypeOK'
  <2>1. recoveries' \in 0..RecoveryLimit /\ tag' \in 0..MaxTag
    BY LimitsAssumption DEF Reattach
  <2>2. recovered' \in BOOLEAN /\ unusable' \in BOOLEAN /\ cleared' \in BOOLEAN
    BY DEF Reattach, IInv, TypeOK
  <2>3. taken' \in Seq(Nat) /\ received' \in Seq(Nat) /\ begun' \in Nat /\ drive' \in Drive
    BY <1>1 DEF Reattach, history, IInv, TypeOK
  <2>4. /\ inToggle' = 0 /\ outToggle' = 0 /\ outcome' = "none"
        /\ UNCHANGED <<at, command, attempt, done, errors, timeouts>>
    BY DEF Reattach
  <2> QED BY <2>1, <2>2, <2>3, <2>4 DEF IInv, TypeOK, Toggle
<1>3. AtCommand' /\ AtData' /\ AtStatus' /\ Agreement'
  BY DEF Reattach, FreshDrive, AtCommand, AtData, AtStatus, Agreement, Busy, SynchronizedBetweenCommands
<1>4. NothingTakenTwice' /\ Tags' /\ Attempts' /\ Outcomes'
  BY DEF Reattach, FreshDrive, history, IInv, NothingTakenTwice, Tags, Busy, Attempts, Outcomes
<1>5. Session'
  BY LimitsAssumption DEF Reattach, Session
<1> QED BY <1>2, <1>3, <1>4, <1>5 DEF IInv

LEMMA DriveEndsDataEarlyStep == IInv /\ DriveEndsDataEarly => IInv'
<1> SUFFICES ASSUME IInv, DriveEndsDataEarly PROVE IInv'
  OBVIOUS
<1>1. /\ drive \in Drive /\ drive.phase = "data" /\ command.kind = "in"
      /\ drive' = [drive EXCEPT !.phase = "status"]
      /\ UNCHANGED host /\ UNCHANGED history
  BY DEF DriveEndsDataEarly, IInv, TypeOK
<1>2. /\ drive' \in Drive /\ drive'.phase = "status" /\ drive'.tag = drive.tag
      /\ drive'.left = drive.left /\ drive'.status = drive.status /\ drive'.stale = drive.stale
      /\ drive'.inToggle = drive.inToggle /\ drive'.outToggle = drive.outToggle
  BY <1>1 DEF Drive
<1>3. TypeOK' /\ NothingTakenTwice'
  BY <1>1, <1>2 DEF host, history, IInv, TypeOK, NothingTakenTwice
<1>4. AtCommand' /\ AtData' /\ AtStatus'
  BY <1>1, <1>2 DEF host, history, IInv, AtCommand, AtData, AtStatus, OutAgreed
<1>5. Agreement'
  BY <1>1, <1>2 DEF host, IInv, Agreement, Busy, InAgreed, SynchronizedBetweenCommands
<1>6. Tags' /\ Session' /\ Attempts' /\ Outcomes'
  BY <1>1, <1>2 DEF host, history, IInv, Tags, Busy, Session, Attempts, Outcomes, SuccessMeansDone
<1> QED BY <1>3, <1>4, <1>5, <1>6 DEF IInv

----------------------------------------------------------------------------
(* The invariant is inductive.                                             *)

LEMMA StepKeepsIInv == IInv /\ [Next]_vars => IInv'
<1> SUFFICES ASSUME IInv, [Next]_vars PROVE IInv'
  OBVIOUS
<1>1. CASE Packet
  BY <1>1, OutOkStep, OutErrorStep, OutFailsStep, TimeoutStep, InDuplicateStep, InDataStep,
     InShortStep, InStatusStep, InStaleStep, InErrorStep DEF Packet
<1>2. CASE Recovery
  BY <1>2, CleanupFailsStep, CleanupStep, MassStorageResetStep, MassStorageResetFailsStep,
     ClearInStep, ClearOutStep, ClearOutFailsStep DEF Recovery
<1>3. CASE ClassDriver
  BY <1>3, ReplayStep, GiveUpStep DEF ClassDriver
<1>4. CASE \E next \in Commands : Issue(next)
  BY <1>4, IssueStep
<1>5. CASE Reattach \/ DriveEndsDataEarly
  BY <1>5, ReattachStep, DriveEndsDataEarlyStep
<1>6. CASE UNCHANGED vars
  <2>1. UNCHANGED host /\ UNCHANGED history /\ UNCHANGED drive
    BY <1>6 DEF vars, host, history
  <2>2. TypeOK' /\ NothingTakenTwice'
    BY <2>1 DEF host, history, IInv, TypeOK, NothingTakenTwice
  <2>3. AtCommand' /\ AtData' /\ AtStatus' /\ Agreement'
    BY <2>1 DEF host, history, IInv, AtCommand, AtData, AtStatus, Agreement, Busy, InAgreed, OutAgreed,
       SynchronizedBetweenCommands
  <2>4. Tags' /\ Session' /\ Attempts' /\ Outcomes'
    BY <2>1 DEF host, history, IInv, Tags, Busy, Session, Attempts, Outcomes, SuccessMeansDone
  <2> QED BY <2>2, <2>3, <2>4 DEF IInv
<1> QED BY <1>1, <1>2, <1>3, <1>4, <1>5, <1>6 DEF Next

\* Both sides of a session agree, packet by packet, on how far a command is.
THEOREM Inductive == Spec => []IInv
BY InitIInv, StepKeepsIInv, PTL DEF Spec

----------------------------------------------------------------------------
(* Theorems.                                                               *)

\* Types of both sides; recoveries in a row never pass their limit.
THEOREM TypesHold == Spec => []TypeOK
<1>1. IInv => TypeOK
  BY DEF IInv
<1> QED BY <1>1, Inductive, PTL

\* Whatever is sent again after a lost packet, a lost handshake, a timeout or a
\* recovery, the drive takes each packet of a command's data once, in order.
THEOREM DataIsTakenOnce == Spec => []NothingTakenTwice
<1>1. IInv => NothingTakenTwice
  BY DEF IInv
<1> QED BY <1>1, Inductive, PTL

\* A command is called done only when the drive reported on this one and all of
\* its data crossed, whatever stale or early statuses came before.
THEOREM DoneIsDone == Spec => []SuccessMeansDone
<1>1. IInv => SuccessMeansDone
  BY DEF IInv, Outcomes, SuccessMeansDone
<1> QED BY <1>1, Inductive, PTL

\* A session that is not given up starts its next command synchronized.
THEOREM SessionsAreSynchronized == Spec => []SynchronizedBetweenCommands
<1>1. IInv => SynchronizedBetweenCommands
  BY DEF IInv, Agreement
<1> QED BY <1>1, Inductive, PTL

\* What may change the medium is begun at most once, a query at most twice.
THEOREM WritesAreBegunOnce == Spec => []WriteBegunAtMostOnce
<1>1. ASSUME IInv PROVE WriteBegunAtMostOnce
  <2>1. begun \in Nat /\ attempt \in {1, 2} /\ begun <= attempt
    BY <1>1 DEF IInv, TypeOK, Attempts
  <2>2. attempt = 2 => command.replayable
    BY <1>1 DEF IInv, Attempts
  <2>3. CASE command.replayable
    BY <2>1, <2>3 DEF WriteBegunAtMostOnce
  <2>4. CASE ~command.replayable
    BY <2>1, <2>2, <2>4 DEF WriteBegunAtMostOnce
  <2> QED BY <2>3, <2>4
<1> QED BY <1>1, Inductive, PTL

----------------------------------------------------------------------------
(* The SD controller.  Dividers, status bit and DMA engine belong to both cards, *)
(* so what is proved is where each of the two is in its own sequence when  *)
(* the other changes them.                                                 *)

CONSTANTS Kinds, MaxFaults, MaxCalls, None
VARIABLE sd

Sd == INSTANCE SdHost

InitStages == {"host", "idle", "identify", "select", "width", "clock", "query", "switch", "raise"}
C6Stages == {"idle", "probe", "select", "width", "block", "enable", "clock"}
Stages == {"off", "power", "reset", "host", "active"} \cup C6Stages
Hosts == [ready : BOOLEAN, second : BOOLEAN, div : {4, 8, 10}, cardDiv : [Sd!Slots -> {0, 20}], on : [Sd!Slots -> BOOLEAN],
          width : [Sd!Slots -> {1, 4}], dma : BOOLEAN, status : {None, "over", "error"}]
Cards == [selected : BOOLEAN, width : {1, 4}, fast : BOOLEAN]
Coprocessors == [selected : BOOLEAN, width : {1, 4}, function : BOOLEAN]
Jobs == [kind : {"init"} \cup Kinds, at : InitStages \cup {"wait", "busy"}, id : Nat, buffer : {None, "wide", "data"}]
Sessions == [fast : BOOLEAN, clock : Nat, wide : BOOLEAN]
Phases == [id : Nat, kind : Kinds]
SdShapes ==
  [host : Hosts, card : Cards, c6 : Coprocessors, act : Stages, job : {None} \cup Jobs, of : {None} \cup Jobs,
   session : {None} \cup Sessions, coming : {None} \cup Phases, busy : BOOLEAN, stray : BOOLEAN,
   result : {None} \cup BOOLEAN, calls : Nat, faults : 0 .. MaxFaults]

\* What the theorems about the SD host assume: the marker for none is none of the
\* things it stands for.
CardsAreThere ==
  /\ Kinds \subseteq {"single", "multi", "write", "io"} /\ MaxFaults \in Nat
  /\ None \notin Jobs /\ None \notin Sessions /\ None \notin Phases /\ None \notin BOOLEAN /\ None \notin {"over", "error"}

Initializing(s, stages) == s.job # None /\ s.job.kind = "init" /\ s.job.at \in stages

\* The dividers and the clocks.
Clocked(s) ==
  /\ s.job # None /\ s.job.kind = "init" => s.job.at \in InitStages
  /\ s.host.div = 4 => s.card.fast /\ ~s.host.second
  /\ s.act = "active" => s.host.second
  /\ Initializing(s, {"idle"}) => s.host.div # 4
  /\ Initializing(s, {"raise"}) => s.card.fast /\ ~s.host.second
  /\ Initializing(s, InitStages \ {"host"}) \/ s.session # None => s.host.on["sd"]
  /\ s.act \in C6Stages \cup {"active"} => s.host.on["c6"]

\* How far the coprocessor is in its activation.
Activated(s) ==
  /\ s.act \in {"width", "block", "enable", "clock", "active"} => s.c6.selected
  /\ s.act \in {"clock", "active"} => s.c6.function

Sharing == sd \in SdShapes /\ Clocked(sd) /\ Activated(sd)

Transferring(s) == s.job # None /\ s.job.kind # "init"

\* What a transfer may still have under way, and what it says when it has ended.
Moving(s) ==
  /\ ~s.stray
  /\ s.host.dma => Transferring(s) /\ s.job.at = "wait"
  /\ Transferring(s) /\ s.coming # None => s.coming.id = s.job.id /\ s.job.at = "wait" /\ s.host.status = None
  /\ Transferring(s) /\ ((s.host.status = "over" /\ s.job.at = "wait") \/ s.job.at = "busy") => s.job.buffer = "data"
  /\ s.job = None /\ s.result = TRUE /\ s.of # None => s.of.buffer = "data" /\ (s.of.kind = "write" => ~s.busy)

LEMMA SdBegins ==
  ASSUME CardsAreThere
  PROVE  Sd!Init => Sharing /\ Moving(sd)
<1> SUFFICES ASSUME Sd!Init PROVE Sharing /\ Moving(sd)
  OBVIOUS
<1>1. sd \in SdShapes
  BY DEF Sd!Init, SdShapes, CardsAreThere, Hosts, Cards, Coprocessors, Stages, Sd!Fresh, Sd!Slots
<1>2. Clocked(sd) /\ Activated(sd)
  BY DEF Sd!Init, Clocked, Activated, Initializing, C6Stages
<1>3. Moving(sd)
  BY DEF Sd!Init, Moving, Transferring
<1> QED BY <1>1, <1>2, <1>3 DEF Sharing

\* What setting a card's clocks leaves: with luck the divider asked for, and in any
\* case the clock of the other card as it was.
ClockSet(o, h, slot, div) ==
  /\ o.done \in BOOLEAN /\ o.host \in Hosts
  /\ o.host.second = h.second /\ o.host.dma \in {h.dma, FALSE} /\ o.host.status = h.status
  /\ o.host.div \in {h.div, div} /\ \A other \in Sd!Slots \ {slot} : o.host.on[other] = h.on[other]
  /\ o.done => o.host.div = div /\ o.host.on[slot]

LEMMA ClocksAre ==
  ASSUME NEW h \in Hosts, NEW slot \in Sd!Slots, NEW div \in {4, 8, 10}, NEW cardDiv \in {0, 20},
         NEW o \in Sd!SetCardClocks(h, slot, div, cardDiv)
  PROVE  ClockSet(o, h, slot, div)
<1> DEFINE set == [h EXCEPT !.div = div, !.cardDiv[slot] = cardDiv, !.on[slot] = TRUE]
           off == [set EXCEPT !.on[slot] = FALSE]
<1>1. set \in Hosts /\ off \in Hosts
  BY DEF Hosts
<1>2. /\ set.div = div /\ off.div = div /\ set.second = h.second /\ off.second = h.second
      /\ set.dma = h.dma /\ off.dma = h.dma /\ set.status = h.status /\ off.status = h.status
      /\ set.on[slot]
      /\ \A other \in Sd!Slots \ {slot} : set.on[other] = h.on[other] /\ off.on[other] = h.on[other]
  BY DEF Hosts
<1>3. o \in [done : {TRUE}, host : {set}] \cup [done : {FALSE}, host : {h, off}]
  BY DEF Sd!SetCardClocks
<1> HIDE DEF set, off
<1>4. CASE o.done = TRUE /\ o.host = set
  BY <1>1, <1>2, <1>4 DEF ClockSet
<1>5. CASE o.done = FALSE /\ o.host = off
  BY <1>1, <1>2, <1>5 DEF ClockSet
<1>6. CASE o.done = FALSE /\ o.host = h
  BY <1>6 DEF ClockSet
<1> QED BY <1>3, <1>4, <1>5, <1>6

LEMMA HostsAre ==
  ASSUME NEW h \in Hosts, NEW slot \in Sd!Slots, NEW o \in Sd!InitHost(h, slot)
  PROVE  ClockSet(o, h, slot, 10)
<1> DEFINE up == [h EXCEPT !.ready = TRUE, !.dma = FALSE]
<1>1. /\ up \in Hosts /\ up.second = h.second /\ up.dma = FALSE /\ up.status = h.status /\ up.div = h.div
      /\ up.on = h.on
  BY DEF Hosts
<1>2. o \in Sd!SetCardClocks(h, slot, 10, 20) \/ o \in Sd!SetCardClocks(up, slot, 10, 20)
      \/ o \in [done : {FALSE}, host : {h}]
  BY DEF Sd!InitHost
<1> HIDE DEF up
<1>3. CASE o \in Sd!SetCardClocks(h, slot, 10, 20)
  BY <1>3, ClocksAre
<1>4. CASE o \in Sd!SetCardClocks(up, slot, 10, 20)
  <2>1. ClockSet(o, up, slot, 10)
    BY <1>1, <1>4, ClocksAre
  <2> QED BY <1>1, <2>1 DEF ClockSet
<1>5. CASE o \in [done : {FALSE}, host : {h}]
  BY <1>5 DEF ClockSet
<1> QED BY <1>2, <1>3, <1>4, <1>5

\* Whatever the dividers, a clock is a number, and only the smallest one for both cards
\* passes that of Default Speed.
LEMMA ClockIs ==
  ASSUME NEW h \in Hosts, NEW slot \in Sd!Slots
  PROVE  Sd!Clock(h, slot) \in Nat /\ (h.div # 4 => Sd!Clock(h, slot) <= 25000)
<1>1. h.div \in {4, 8, 10} /\ h.cardDiv[slot] \in {0, 20}
  BY DEF Hosts
<1>2. CASE h.cardDiv[slot] = 0
  <2>1. Sd!Clock(h, slot) = 160000 \div h.div
    BY <1>1, <1>2 DEF Sd!Clock
  <2>2. 160000 \div 4 = 40000 /\ 160000 \div 8 = 20000 /\ 160000 \div 10 = 16000
    OBVIOUS
  <2> QED BY <1>1, <2>1, <2>2
<1>3. CASE h.cardDiv[slot] = 20
  <2>1. Sd!Clock(h, slot) = 160000 \div (h.div * 40)
    BY <1>1, <1>3 DEF Sd!Clock
  <2>2. 160000 \div 160 = 1000 /\ 160000 \div 320 = 500 /\ 160000 \div 400 = 400
    OBVIOUS
  <2>3. h.div * 40 \in {160, 320, 400}
    BY <1>1
  <2> QED BY <2>1, <2>2, <2>3
<1> QED BY <1>1, <1>2, <1>3

LEMMA SessionIs ==
  ASSUME NEW s \in SdShapes, NEW fast \in BOOLEAN
  PROVE  Sd!Session(s, fast) \in Sessions
<1>1. Sd!Clock(s.host, "sd") \in Nat
  BY ClockIs DEF SdShapes, Sd!Slots
<1> QED BY <1>1 DEF Sd!Session, Sessions

LEMMA DoneIs ==
  ASSUME CardsAreThere, NEW s \in SdShapes, NEW session \in {None} \cup Sessions
  PROVE  LET t == Sd!Done(s, session)
         IN  /\ t \in SdShapes /\ t.job = None /\ t.session = session /\ t.of = None
             /\ t.host = s.host /\ t.card = s.card /\ t.act = s.act /\ t.c6 = s.c6 /\ t.stray = s.stray
BY DEF SdShapes, Sd!Done

LEMMA GoIs ==
  ASSUME CardsAreThere, NEW s \in SdShapes, s.job # None, NEW stage \in InitStages
  PROVE  LET t == Sd!Go(s, stage)
         IN  /\ t \in SdShapes /\ t.job # None /\ t.job.at = stage /\ t.job.kind = s.job.kind /\ t.session = s.session
             /\ t.host = s.host /\ t.card = s.card /\ t.act = s.act /\ t.c6 = s.c6 /\ t.stray = s.stray
<1>1. s.job \in Jobs
  BY DEF SdShapes
<1> DEFINE job == [s.job EXCEPT !.at = stage]
<1>2. job \in Jobs /\ job.at = stage /\ job.kind = s.job.kind
  BY <1>1 DEF Jobs
<1>3. Sd!Go(s, stage) = [s EXCEPT !.job = job]
  BY DEF Sd!Go
<1> HIDE DEF job
<1>4. job # None
  BY <1>2 DEF CardsAreThere
<1> QED BY <1>2, <1>3, <1>4 DEF SdShapes

\* While a card is identified nothing is transferred, so what may go wrong is of the
\* clock alone.
LEMMA IdentifyingMoves ==
  ASSUME NEW s, NEW t, Initializing(s, InitStages), Moving(s), t.stray = s.stray, t.host.dma \in {s.host.dma, FALSE},
         (t.job = None /\ t.of = None) \/ Initializing(t, InitStages)
  PROVE  Moving(t)
<1>1. ~s.host.dma /\ ~t.host.dma
  BY DEF Moving, Initializing, Transferring
<1> QED BY <1>1 DEF Moving, Initializing, Transferring

LEMMA FaultsAre ==
  ASSUME CardsAreThere, Sharing, NEW b \in BOOLEAN, b => Sd!Faulty
  PROVE  Sd!Fault(b) \in 0 .. MaxFaults
<1>1. sd.faults \in 0 .. MaxFaults
  BY DEF Sharing, SdShapes
<1> QED BY <1>1 DEF Sd!Fault, Sd!Faulty, CardsAreThere

\* A failure ends the initialization wherever the clock is then.
LEMMA ClockFails ==
  ASSUME CardsAreThere, Sharing, Initializing(sd, InitStages), NEW s \in SdShapes, NEW div \in {4, 8, 10},
         s.host.div \in {sd.host.div, div}, s.host.second = sd.host.second, s.host.on["c6"] = sd.host.on["c6"],
         s.card = sd.card, s.act = sd.act, s.c6 = sd.c6, div = 4 => sd.card.fast /\ ~sd.host.second
  PROVE  LET t == Sd!Done(s, None) IN t \in SdShapes /\ Clocked(t) /\ Activated(t)
<1> DEFINE t == Sd!Done(s, None)
<1>1. /\ t \in SdShapes /\ t.job = None /\ t.session = None
      /\ t.host = s.host /\ t.card = s.card /\ t.act = s.act /\ t.c6 = s.c6
  BY DoneIs
<1> HIDE DEF t
<1>2. Clocked(t)
  BY <1>1 DEF Sharing, Clocked, Initializing
<1>3. Activated(t)
  BY <1>1 DEF Sharing, Activated
<1> QED BY <1>1, <1>2, <1>3 DEF t

LEMMA ClockStepKeeps ==
  ASSUME CardsAreThere, Sharing, Sd!ClockStep
  PROVE  Sharing' /\ (Moving(sd) => Moving(sd'))
<1>1. PICK o \in CASE Sd!Running("host")  -> Sd!InitHost(sd.host, "sd")
                   [] Sd!Running("clock") -> Sd!SetCardClocks(sd.host, "sd", 8, 0)
                   [] Sd!Running("raise") -> Sd!SetCardClocks(sd.host, "sd", 4, 0)
                   [] OTHER               -> {} :
        /\ o.done \/ Sd!Faulty
        /\ sd' = LET s == [sd EXCEPT !.host = o.host, !.faults = Sd!Fault(~o.done)]
                 IN  IF ~o.done THEN Sd!Done(s, None)
                     ELSE CASE Sd!Running("host")  -> Sd!Go(s, "idle")
                            [] Sd!Running("clock") -> Sd!Go(s, "query")
                            [] Sd!Running("raise") -> Sd!Done(s, Sd!Session(s, TRUE))
  BY Zenon DEF Sd!ClockStep
<1>2. /\ sd.host \in Hosts /\ "sd" \in Sd!Slots /\ "c6" \in Sd!Slots \ {"sd"}
      /\ Clocked(sd) /\ Activated(sd)
  BY DEF Sharing, SdShapes, Sd!Slots
<1> DEFINE s == [sd EXCEPT !.host = o.host, !.faults = Sd!Fault(~o.done)]
<1>3. PICK stage \in {"host", "clock", "raise"}, div \in {4, 8, 10} :
        /\ Sd!Running(stage) /\ ClockSet(o, sd.host, "sd", div) /\ (div = 4 <=> stage = "raise")
        /\ ~o.done => sd' = Sd!Done(s, None)
        /\ o.done /\ stage = "raise" => sd' = Sd!Done(s, Sd!Session(s, TRUE))
        /\ o.done /\ stage # "raise" => sd' = Sd!Go(s, "idle") \/ sd' = Sd!Go(s, "query")
  <2>1. CASE Sd!Running("host")
    <3>1. ~Sd!Running("clock") /\ ~Sd!Running("raise")
      BY <2>1 DEF Sd!Running
    <3>2. o \in Sd!InitHost(sd.host, "sd") /\ (o.done => sd' = Sd!Go(s, "idle")) /\ (~o.done => sd' = Sd!Done(s, None))
      BY <1>1, <2>1, <3>1, Zenon
    <3>3. ClockSet(o, sd.host, "sd", 10)
      BY <1>2, <3>2, HostsAre
    <3> HIDE DEF s
    <3> WITNESS "host" \in {"host", "clock", "raise"}, 10 \in {4, 8, 10}
    <3> QED BY <2>1, <3>2, <3>3
  <2>2. CASE Sd!Running("clock")
    <3>1. ~Sd!Running("host") /\ ~Sd!Running("raise")
      BY <2>2 DEF Sd!Running
    <3>2. /\ o \in Sd!SetCardClocks(sd.host, "sd", 8, 0)
          /\ (o.done => sd' = Sd!Go(s, "query")) /\ (~o.done => sd' = Sd!Done(s, None))
      BY <1>1, <2>2, <3>1, Zenon
    <3>3. ClockSet(o, sd.host, "sd", 8)
      BY <1>2, <3>2, ClocksAre
    <3> HIDE DEF s
    <3> WITNESS "clock" \in {"host", "clock", "raise"}, 8 \in {4, 8, 10}
    <3> QED BY <2>2, <3>2, <3>3
  <2>3. CASE Sd!Running("raise")
    <3>1. ~Sd!Running("host") /\ ~Sd!Running("clock")
      BY <2>3 DEF Sd!Running
    <3>2. /\ o \in Sd!SetCardClocks(sd.host, "sd", 4, 0)
          /\ (o.done => sd' = Sd!Done(s, Sd!Session(s, TRUE))) /\ (~o.done => sd' = Sd!Done(s, None))
      BY <1>1, <2>3, <3>1, Zenon
    <3>3. ClockSet(o, sd.host, "sd", 4)
      BY <1>2, <3>2, ClocksAre
    <3> HIDE DEF s
    <3> WITNESS "raise" \in {"host", "clock", "raise"}, 4 \in {4, 8, 10}
    <3> QED BY <2>3, <3>2, <3>3
  <2> QED BY <1>1, <2>1, <2>2, <2>3
<1>4. Initializing(sd, InitStages) /\ sd.job # None /\ sd.job.kind = "init"
  BY <1>3 DEF Sd!Running, Initializing, InitStages
<1>5. /\ s \in SdShapes /\ s.host = o.host /\ s.job = sd.job /\ s.session = sd.session /\ s.card = sd.card
      /\ s.act = sd.act /\ s.c6 = sd.c6 /\ s.stray = sd.stray
  <2>1. Sd!Fault(~o.done) \in 0 .. MaxFaults /\ o.host \in Hosts
    BY <1>1, <1>3, FaultsAre DEF ClockSet
  <2> QED BY <2>1 DEF Sharing, SdShapes
<1> HIDE DEF s
<1>6. /\ s.host.div \in {sd.host.div, div} /\ s.host.second = sd.host.second /\ s.host.on["c6"] = sd.host.on["c6"]
      /\ o.done => s.host.div = div /\ s.host.on["sd"]
      /\ s.host.dma \in {sd.host.dma, FALSE}
  <2>1. ClockSet(o, sd.host, "sd", div)
    BY <1>3
  <2> QED BY <1>2, <1>5, <2>1 DEF ClockSet
<1>7. div = 4 => sd.card.fast /\ ~sd.host.second
  BY <1>2, <1>3 DEF Sd!Running, Clocked, Initializing
<1>8. CASE ~o.done
  <2>1. sd' = Sd!Done(s, None)
    BY <1>3, <1>8
  <2>2. sd' \in SdShapes /\ Clocked(sd') /\ Activated(sd')
    BY <1>4, <1>5, <1>6, <1>7, <2>1, ClockFails
  <2>3. sd'.job = None /\ sd'.of = None /\ sd'.stray = sd.stray /\ sd'.host = s.host
    BY <1>5, <2>1, DoneIs
  <2>4. Moving(sd) => Moving(sd')
    BY <1>4, <1>6, <2>3, IdentifyingMoves
  <2> QED BY <2>2, <2>4 DEF Sharing
<1>9. CASE o.done /\ stage = "raise"
  <2>1. sd' = Sd!Done(s, Sd!Session(s, TRUE)) /\ div = 4
    BY <1>3, <1>9
  <2>2. Sd!Session(s, TRUE) \in Sessions
    BY <1>5, SessionIs
  <2>3. /\ sd' \in SdShapes /\ sd'.job = None /\ sd'.of = None /\ sd'.host = s.host /\ sd'.card = sd.card
        /\ sd'.act = sd.act /\ sd'.c6 = sd.c6 /\ sd'.stray = sd.stray
    BY <1>5, <2>1, <2>2, DoneIs
  <2>4. Clocked(sd')
    BY <1>2, <1>6, <1>7, <1>9, <2>1, <2>3 DEF Clocked, Initializing
  <2>5. Activated(sd')
    BY <1>2, <2>3 DEF Activated
  <2>6. Moving(sd) => Moving(sd')
    BY <1>4, <1>6, <2>3, IdentifyingMoves
  <2> QED BY <2>3, <2>4, <2>5, <2>6 DEF Sharing
<1>10. CASE o.done /\ stage # "raise"
  <2>1. PICK next \in {"idle", "query"} : sd' = Sd!Go(s, next)
    BY <1>3, <1>10
  <2>2. next \in InitStages /\ next # "raise" /\ next # "host" /\ div # 4
    BY <1>3, <1>10 DEF InitStages
  <2>3. /\ sd' \in SdShapes /\ sd'.job # None /\ sd'.job.at = next /\ sd'.job.kind = "init" /\ sd'.session = sd.session
        /\ sd'.host = s.host /\ sd'.card = sd.card /\ sd'.act = sd.act /\ sd'.c6 = sd.c6 /\ sd'.stray = sd.stray
    BY <1>4, <1>5, <2>1, <2>2, GoIs
  <2>4. Clocked(sd')
    BY <1>2, <1>6, <1>10, <2>2, <2>3 DEF Clocked, Initializing
  <2>5. Activated(sd')
    BY <1>2, <2>3 DEF Activated
  <2>6. Moving(sd) => Moving(sd')
    BY <1>4, <1>6, <2>2, <2>3, IdentifyingMoves DEF Initializing
  <2> QED BY <2>3, <2>4, <2>5, <2>6 DEF Sharing
<1> QED BY <1>8, <1>9, <1>10

LEMMA InitSdKeeps ==
  ASSUME CardsAreThere, Sharing, Sd!InitSd
  PROVE  Sharing' /\ (Moving(sd) => Moving(sd'))
<1> DEFINE job == Sd!Job("init", "host")
<1>1. job \in Jobs /\ job.kind = "init" /\ job.at = "host" /\ job # None
  <2>1. sd.calls \in Nat
    BY DEF Sharing, SdShapes
  <2>2. job \in Jobs /\ job.kind = "init" /\ job.at = "host"
    BY <2>1 DEF Sd!Job, Jobs, InitStages
  <2> QED BY <2>2 DEF CardsAreThere
<1>2. sd.job = None /\ sd' = [sd EXCEPT !.job = job, !.calls = @ + 1, !.result = None]
  BY DEF Sd!InitSd, Sd!Idle
<1> HIDE DEF job
<1>3. /\ sd' \in SdShapes /\ sd'.job = job /\ sd'.host = sd.host /\ sd'.card = sd.card /\ sd'.act = sd.act
      /\ sd'.c6 = sd.c6 /\ sd'.session = sd.session /\ sd'.stray = sd.stray
  <2> DEFINE calls == sd.calls + 1
  <2>1. sd \in SdShapes /\ calls \in Nat
    BY DEF Sharing, SdShapes
  <2>2. sd' = [sd EXCEPT !.job = job, !.calls = calls, !.result = None]
    BY <1>2
  <2> HIDE DEF calls
  <2> QED BY <1>1, <2>1, <2>2 DEF SdShapes
<1>4. Clocked(sd') /\ Activated(sd')
  BY <1>1, <1>3 DEF Sharing, Clocked, Activated, Initializing, InitStages
<1>5. Moving(sd) => Moving(sd')
  BY <1>1, <1>2, <1>3 DEF Moving, Transferring
<1> QED BY <1>3, <1>4, <1>5 DEF Sharing

LEMMA OutcomesAre ==
  ASSUME CardsAreThere, Sharing, NEW slot \in Sd!Slots, NEW answer \in Sd!Outcomes(slot)
  PROVE  /\ answer \in {"ok", "silent", "garbled"}
         /\ sd.host.on[slot] => Sd!Fault(answer # "ok") \in 0 .. MaxFaults
<1>1. answer \in {"ok", "silent", "garbled"} /\ (sd.host.on[slot] /\ answer # "ok" => Sd!Faulty)
  BY DEF Sd!Outcomes
<1> QED BY <1>1, FaultsAre

\* The sequence goes on from s: the clocks are as they were, and the card is not
\* faster on the host's side than on its own.
Following(s) ==
  /\ s \in SdShapes /\ s.job # None /\ s.job.kind = "init" /\ s.session = sd.session
  /\ s.host.div = sd.host.div /\ s.host.second = sd.host.second /\ s.host.on = sd.host.on
  /\ s.host.dma \in {sd.host.dma, FALSE} /\ s.act = sd.act /\ s.c6 = sd.c6 /\ s.stray = sd.stray
  /\ s.host.div = 4 => s.card.fast

LEMMA FollowingEnds ==
  ASSUME CardsAreThere, Sharing, Initializing(sd, InitStages \ {"host"}), NEW s, Following(s),
         NEW session \in {None} \cup Sessions, sd' = Sd!Done(s, session)
  PROVE  Sharing' /\ (Moving(sd) => Moving(sd'))
<1>1. /\ sd' \in SdShapes /\ sd'.job = None /\ sd'.session = session /\ sd'.of = None
      /\ sd'.host = s.host /\ sd'.card = s.card /\ sd'.act = s.act /\ sd'.c6 = s.c6 /\ sd'.stray = s.stray
  BY DoneIs DEF Following
<1>2. Clocked(sd') /\ Activated(sd')
  BY <1>1 DEF Sharing, Following, Clocked, Activated, Initializing
<1>3. Moving(sd) => Moving(sd')
  BY <1>1, IdentifyingMoves DEF Following, Initializing
<1> QED BY <1>1, <1>2, <1>3 DEF Sharing

LEMMA FollowingGoes ==
  ASSUME CardsAreThere, Sharing, Initializing(sd, InitStages \ {"host"}), NEW s, Following(s),
         NEW stage \in InitStages \ {"host", "idle"}, stage = "raise" => s.card.fast /\ ~s.host.second,
         sd' = Sd!Go(s, stage)
  PROVE  Sharing' /\ (Moving(sd) => Moving(sd'))
<1>1. /\ sd' \in SdShapes /\ sd'.job # None /\ sd'.job.at = stage /\ sd'.job.kind = "init"
      /\ sd'.session = sd.session
      /\ sd'.host = s.host /\ sd'.card = s.card /\ sd'.act = s.act /\ sd'.c6 = s.c6 /\ sd'.stray = s.stray
  BY GoIs DEF Following
<1>2. Clocked(sd') /\ Activated(sd')
  BY <1>1 DEF Sharing, Following, Clocked, Activated, Initializing
<1>3. Moving(sd) => Moving(sd')
  BY <1>1, IdentifyingMoves DEF Following, Initializing
<1> QED BY <1>1, <1>2, <1>3 DEF Sharing

\* A command of the sequence, carried out or not.
LEMMA CommandFollows ==
  ASSUME CardsAreThere, Sharing, NEW stage \in InitStages \ {"host"}, Initializing(sd, {stage}),
         NEW answer \in Sd!Outcomes("sd")
  PROVE  LET s == [sd EXCEPT !.card = IF Sd!CarriedOut(answer) THEN Sd!Effect(@, stage) ELSE @,
                             !.faults = Sd!Fault(answer # "ok")]
         IN  /\ Following(s) /\ Initializing(sd, InitStages \ {"host"}) /\ answer \in {"ok", "silent", "garbled"}
             /\ s.job = sd.job /\ s.host = sd.host /\ (stage = "switch" /\ answer = "ok" => s.card.fast)
<1> DEFINE card == IF Sd!CarriedOut(answer) THEN Sd!Effect(sd.card, stage) ELSE sd.card
           faults == Sd!Fault(answer # "ok")
           s == [sd EXCEPT !.card = card, !.faults = faults]
<1>1. sd \in SdShapes /\ sd.card \in Cards /\ sd.job # None /\ sd.job.kind = "init" /\ sd.job.at = stage
  BY DEF Sharing, SdShapes, Initializing
<1>2. sd.host.on["sd"] /\ (sd.host.div = 4 => sd.card.fast /\ stage # "idle")
  BY <1>1 DEF Sharing, Clocked, Initializing
<1>3. answer \in {"ok", "silent", "garbled"} /\ faults \in 0 .. MaxFaults
  BY <1>2, OutcomesAre DEF Sd!Slots
<1>4. /\ card \in Cards /\ (stage # "idle" /\ sd.card.fast => card.fast)
      /\ stage = "switch" /\ answer = "ok" => card.fast
  <2>1. /\ Sd!Effect(sd.card, stage) \in Cards /\ (stage # "idle" /\ sd.card.fast => Sd!Effect(sd.card, stage).fast)
        /\ stage = "switch" => Sd!Effect(sd.card, stage).fast
    BY <1>1 DEF Sd!Effect, Cards
  <2> QED BY <1>1, <2>1 DEF Sd!CarriedOut
<1> HIDE DEF card, faults
<1>5. /\ s \in SdShapes /\ s.card = card /\ s.job = sd.job /\ s.host = sd.host /\ s.act = sd.act /\ s.c6 = sd.c6
      /\ s.stray = sd.stray /\ s.session = sd.session
  BY <1>1, <1>3, <1>4 DEF SdShapes
<1> HIDE DEF s
<1>6. Following(s) /\ (stage = "switch" /\ answer = "ok" => s.card.fast)
  BY <1>1, <1>2, <1>4, <1>5 DEF Following
<1>7. Initializing(sd, InitStages \ {"host"})
  BY <1>1 DEF Initializing
<1> QED BY <1>3, <1>5, <1>6, <1>7 DEF s, card, faults

LEMMA IdentifyKeeps ==
  ASSUME CardsAreThere, Sharing, Sd!Identify
  PROVE  Sharing' /\ (Moving(sd) => Moving(sd'))
<1>1. PICK stage \in {"idle", "identify", "select"}, answer \in Sd!Outcomes("sd") :
        /\ Sd!Running(stage)
        /\ LET s == [sd EXCEPT !.card = IF Sd!CarriedOut(answer) THEN Sd!Effect(@, stage) ELSE @,
                               !.faults = Sd!Fault(answer # "ok")]
           IN  sd' = IF answer # "ok" THEN Sd!Done(s, None)
                     ELSE Sd!Go(s, CASE stage = "idle" -> "identify" [] stage = "identify" -> "select"
                                     [] OTHER -> "width")
  BY DEF Sd!Identify
<1> DEFINE s == [sd EXCEPT !.card = IF Sd!CarriedOut(answer) THEN Sd!Effect(@, stage) ELSE @,
                           !.faults = Sd!Fault(answer # "ok")]
<1>2. stage \in InitStages \ {"host"} /\ Initializing(sd, {stage})
  BY <1>1 DEF InitStages, Sd!Running, Initializing
<1>3. Following(s) /\ Initializing(sd, InitStages \ {"host"})
  BY <1>2, CommandFollows
<1> HIDE DEF s
<1>4. sd' = Sd!Done(s, None) \/ sd' = Sd!Go(s, "identify") \/ sd' = Sd!Go(s, "select") \/ sd' = Sd!Go(s, "width")
  BY <1>1 DEF s
<1> QED BY <1>3, <1>4, FollowingEnds, FollowingGoes DEF InitStages

LEMMA SetBusWidthKeeps ==
  ASSUME CardsAreThere, Sharing, Sd!SetBusWidth
  PROVE  Sharing' /\ (Moving(sd) => Moving(sd'))
<1>1. PICK answer \in Sd!Outcomes("sd") :
        LET s == [sd EXCEPT !.card = IF Sd!CarriedOut(answer) THEN Sd!Effect(@, "width") ELSE @,
                            !.faults = Sd!Fault(answer # "ok")]
        IN  sd' = Sd!Go(IF answer = "ok" THEN [s EXCEPT !.host.width["sd"] = 4, !.job.buffer = "wide"] ELSE s, "clock")
  BY DEF Sd!SetBusWidth
<1> DEFINE s == [sd EXCEPT !.card = IF Sd!CarriedOut(answer) THEN Sd!Effect(@, "width") ELSE @,
                           !.faults = Sd!Fault(answer # "ok")]
           controller == [s.host EXCEPT !.width["sd"] = 4]
           job == [s.job EXCEPT !.buffer = "wide"]
           wide == [s EXCEPT !.host = controller, !.job = job]
<1>2. "width" \in InitStages \ {"host"} /\ Initializing(sd, {"width"})
  BY DEF Sd!SetBusWidth, InitStages, Sd!Running, Initializing
<1>3. Following(s) /\ Initializing(sd, InitStages \ {"host"})
  BY <1>2, CommandFollows
<1>4. sd' = Sd!Go(s, "clock") \/ sd' = Sd!Go([s EXCEPT !.host.width["sd"] = 4, !.job.buffer = "wide"], "clock")
  BY <1>1
<1> HIDE DEF s
<1>5. [s EXCEPT !.host.width["sd"] = 4, !.job.buffer = "wide"] = wide
  BY <1>3 DEF Following, SdShapes
<1>6. Following(wide)
  <2>1. /\ controller \in Hosts /\ controller.div = s.host.div /\ controller.second = s.host.second /\ controller.on = s.host.on
        /\ controller.dma = s.host.dma
    BY <1>3 DEF Following, SdShapes, Hosts
  <2>2. job \in Jobs /\ job.kind = s.job.kind /\ job # None
    <3>1. s.job \in Jobs
      BY <1>3 DEF Following, SdShapes
    <3>2. job \in Jobs /\ job.kind = s.job.kind
      BY <3>1 DEF Jobs
    <3> QED BY <3>2 DEF CardsAreThere
  <2> HIDE DEF controller, job
  <2>3. /\ wide \in SdShapes /\ wide.host = controller /\ wide.job = job /\ wide.card = s.card /\ wide.act = s.act
        /\ wide.c6 = s.c6 /\ wide.session = s.session /\ wide.stray = s.stray
    BY <1>3, <2>1, <2>2 DEF Following, SdShapes
  <2> HIDE DEF wide
  <2> QED BY <1>3, <2>1, <2>2, <2>3 DEF Following
<1> HIDE DEF wide
<1> QED BY <1>3, <1>4, <1>5, <1>6, FollowingGoes DEF InitStages

LEMMA SwitchFunctionKeeps ==
  ASSUME CardsAreThere, Sharing, Sd!SwitchFunction
  PROVE  Sharing' /\ (Moving(sd) => Moving(sd'))
<1>1. PICK stage \in {"query", "switch"} :
        /\ Sd!Running(stage)
        /\ IF ~Sd!Alone(sd) THEN sd' = Sd!Done(sd, Sd!Session(sd, FALSE))
           ELSE \E answer \in Sd!Outcomes("sd"), supported \in BOOLEAN :
             LET s == [sd EXCEPT !.card = IF Sd!CarriedOut(answer) THEN Sd!Effect(@, stage) ELSE @,
                                 !.faults = Sd!Fault(answer # "ok"),
                                 !.host.dma = FALSE, !.host.status = None, !.coming = None]
                 told == answer = "ok" /\ supported /\ sd.host.status = None /\ sd.host.width["sd"] = sd.card.width
             IN  sd' = IF told THEN Sd!Go(s, IF stage = "query" THEN "switch" ELSE "raise")
                       ELSE Sd!Done(s, Sd!Session(s, FALSE))
  BY DEF Sd!SwitchFunction
<1>2. stage \in InitStages \ {"host"} /\ Initializing(sd, {stage}) /\ Initializing(sd, InitStages \ {"host"})
  BY <1>1 DEF InitStages, Sd!Running, Initializing
<1>3. CASE ~Sd!Alone(sd)
  <2>1. sd' = Sd!Done(sd, Sd!Session(sd, FALSE)) /\ Sd!Session(sd, FALSE) \in Sessions
    BY <1>1, <1>3, SessionIs DEF Sharing
  <2>2. Following(sd)
    BY <1>2 DEF Following, Sharing, Clocked, Initializing
  <2> QED BY <1>2, <2>1, <2>2, FollowingEnds
<1>4. CASE Sd!Alone(sd)
  <2>1. PICK answer \in Sd!Outcomes("sd"), supported \in BOOLEAN :
          LET s == [sd EXCEPT !.card = IF Sd!CarriedOut(answer) THEN Sd!Effect(@, stage) ELSE @,
                              !.faults = Sd!Fault(answer # "ok"),
                              !.host.dma = FALSE, !.host.status = None, !.coming = None]
              told == answer = "ok" /\ supported /\ sd.host.status = None /\ sd.host.width["sd"] = sd.card.width
          IN  sd' = IF told THEN Sd!Go(s, IF stage = "query" THEN "switch" ELSE "raise")
                    ELSE Sd!Done(s, Sd!Session(s, FALSE))
    BY <1>1, <1>4
  <2> DEFINE s == [sd EXCEPT !.card = IF Sd!CarriedOut(answer) THEN Sd!Effect(@, stage) ELSE @,
                             !.faults = Sd!Fault(answer # "ok")]
             controller == [s.host EXCEPT !.dma = FALSE, !.status = None]
             t == [s EXCEPT !.host = controller, !.coming = None]
             u == [sd EXCEPT !.card = IF Sd!CarriedOut(answer) THEN Sd!Effect(@, stage) ELSE @,
                             !.faults = Sd!Fault(answer # "ok"),
                             !.host.dma = FALSE, !.host.status = None, !.coming = None]
  <2>2. Following(s) /\ s.host = sd.host /\ (stage = "switch" /\ answer = "ok" => s.card.fast)
    BY <1>2, CommandFollows
  <2>3. u = t
    BY <1>2, <2>2 DEF Sharing, SdShapes, Following
  <2>4. sd' = Sd!Done(u, Sd!Session(u, FALSE))
        \/ (answer = "ok" /\ stage = "query" /\ sd' = Sd!Go(u, "switch"))
        \/ (answer = "ok" /\ stage # "query" /\ sd' = Sd!Go(u, "raise"))
    BY <2>1
  <2> HIDE DEF s, u
  <2>5. Following(t) /\ t.card = s.card /\ t.host.second = sd.host.second
    <3>1. /\ controller \in Hosts /\ controller.div = s.host.div /\ controller.second = s.host.second /\ controller.on = s.host.on
          /\ controller.dma = FALSE
      BY <2>2 DEF Following, SdShapes, Hosts
    <3> HIDE DEF controller
    <3>2. /\ t \in SdShapes /\ t.host = controller /\ t.job = s.job /\ t.card = s.card /\ t.act = s.act
          /\ t.c6 = s.c6 /\ t.session = s.session /\ t.stray = s.stray
      BY <2>2, <3>1 DEF Following, SdShapes
    <3> HIDE DEF t
    <3> QED BY <2>2, <3>1, <3>2 DEF Following
  <2> HIDE DEF t
  <2>6. CASE sd' = Sd!Done(u, Sd!Session(u, FALSE))
    <3>1. Sd!Session(t, FALSE) \in Sessions
      BY <2>5, SessionIs DEF Following
    <3> QED BY <1>2, <2>3, <2>5, <2>6, <3>1, FollowingEnds
  <2>7. CASE sd' = Sd!Go(u, "switch")
    BY <1>2, <2>3, <2>5, <2>7, FollowingGoes DEF InitStages
  <2>8. CASE answer = "ok" /\ stage # "query" /\ sd' = Sd!Go(u, "raise")
    <3>1. t.card.fast /\ ~t.host.second
      BY <1>1, <1>4, <2>2, <2>5, <2>8 DEF Sd!Alone
    <3> QED BY <1>2, <2>3, <2>5, <2>8, <3>1, FollowingGoes DEF InitStages
  <2> QED BY <2>4, <2>6, <2>7, <2>8
<1> QED BY <1>3, <1>4

\* A transfer leaves the clocks and both cards alone.
SharedAlike(t) ==
  /\ t \in SdShapes /\ t.card = sd.card /\ t.act = sd.act /\ t.c6 = sd.c6 /\ t.session = sd.session
  /\ t.host.div = sd.host.div /\ t.host.second = sd.host.second /\ t.host.on = sd.host.on
  /\ t.job = None \/ t.job.kind # "init" \/ (sd.job # None /\ t.job.kind = sd.job.kind /\ t.job.at = sd.job.at)

LEMMA SharedAlikeKeeps ==
  ASSUME Sharing, SharedAlike(sd')
  PROVE  Sharing'
BY DEF Sharing, SharedAlike, Clocked, Activated, Initializing

LEMMA EndedIs ==
  ASSUME CardsAreThere, Sharing, Transferring(sd), NEW faults \in 0 .. MaxFaults, NEW result \in BOOLEAN
  PROVE  LET t == Sd!Ended([sd EXCEPT !.faults = faults], result)
         IN  /\ SharedAlike(t) /\ t.job = None /\ t.result = result /\ t.of = sd.job /\ ~t.host.dma
             /\ t.stray = sd.stray /\ t.busy = sd.busy
<1> DEFINE controller == [sd.host EXCEPT !.dma = FALSE, !.status = None]
           t == Sd!Ended([sd EXCEPT !.faults = faults], result)
<1>1. sd \in SdShapes
  BY DEF Sharing
<1>2. /\ controller \in Hosts /\ controller.div = sd.host.div /\ controller.second = sd.host.second /\ controller.on = sd.host.on
      /\ controller.dma = FALSE
  BY <1>1 DEF SdShapes, Hosts
<1>3. t = [sd EXCEPT !.faults = faults, !.job = None, !.result = result, !.host = controller, !.of = sd.job]
  BY <1>1 DEF Sd!Ended, SdShapes
<1> HIDE DEF controller, t
<1>4. /\ t \in SdShapes /\ t.card = sd.card /\ t.act = sd.act /\ t.c6 = sd.c6 /\ t.session = sd.session
      /\ t.host = controller /\ t.job = None /\ t.result = result /\ t.of = sd.job /\ t.stray = sd.stray /\ t.busy = sd.busy
  BY <1>1, <1>2, <1>3 DEF SdShapes
<1> QED BY <1>2, <1>4 DEF SharedAlike, t

\* A transfer that moves what it says.
Moves == "single" \notin Kinds /\ Moving(sd)

LEMMA StartTransferKeeps ==
  ASSUME CardsAreThere, Sharing, NEW kind \in Kinds, Sd!StartTransfer(kind)
  PROVE  Sharing' /\ (Moves => Moving(sd'))
<1>1. PICK answer \in Sd!Outcomes(Sd!SlotOf(kind)) :
        LET h == [Sd!Cleared(sd.host, kind) EXCEPT !.dma = TRUE]
            s == [sd EXCEPT !.calls = @ + 1, !.faults = Sd!Fault(answer # "ok"), !.job = Sd!Job(kind, "wait"),
                            !.host = h, !.result = None,
                            !.coming = IF Sd!CarriedOut(answer) THEN [id |-> sd.calls + 1, kind |-> kind] ELSE None]
        IN  sd' = IF answer = "ok" THEN s
                  ELSE [s EXCEPT !.job = None, !.result = FALSE, !.host.dma = kind = "single"]
  BY DEF Sd!StartTransfer
<1> DEFINE h == [Sd!Cleared(sd.host, kind) EXCEPT !.dma = TRUE]
           off == [h EXCEPT !.dma = kind = "single"]
           job == Sd!Job(kind, "wait")
           faults == Sd!Fault(answer # "ok")
           calls == sd.calls + 1
           coming == IF Sd!CarriedOut(answer) THEN [id |-> calls, kind |-> kind] ELSE None
           s == [sd EXCEPT !.calls = calls, !.faults = faults, !.job = job, !.host = h, !.result = None,
                           !.coming = coming]
           t == [s EXCEPT !.job = None, !.result = FALSE, !.host = off]
<1>2. sd \in SdShapes /\ sd.host \in Hosts /\ sd.job = None /\ Clocked(sd)
  BY DEF Sharing, SdShapes, Sd!StartTransfer, Sd!Idle
<1>3. calls \in Nat
  BY <1>2 DEF SdShapes
<1>4. Sd!SlotOf(kind) \in Sd!Slots /\ sd.host.on[Sd!SlotOf(kind)]
  BY <1>2 DEF Sd!StartTransfer, Sd!SlotOf, Sd!Slots, Clocked
<1>5. answer \in {"ok", "silent", "garbled"} /\ faults \in 0 .. MaxFaults
  BY <1>4, OutcomesAre
<1>6. /\ h \in Hosts /\ off \in Hosts /\ off.dma = (kind = "single") /\ (kind # "single" => h.status = None)
      /\ h.div = sd.host.div /\ h.second = sd.host.second /\ h.on = sd.host.on
      /\ off.div = sd.host.div /\ off.second = sd.host.second /\ off.on = sd.host.on
  <2> DEFINE g == Sd!Cleared(sd.host, kind)
  <2>1. /\ g \in Hosts /\ (kind # "single" => g.status = None)
        /\ g.div = sd.host.div /\ g.second = sd.host.second /\ g.on = sd.host.on
    BY <1>2 DEF Sd!Cleared, Hosts
  <2>2. h = [g EXCEPT !.dma = TRUE]
    OBVIOUS
  <2> HIDE DEF g, h
  <2>3. /\ h \in Hosts /\ h.status = g.status
        /\ h.div = g.div /\ h.second = g.second /\ h.on = g.on
    BY <2>1, <2>2 DEF Hosts
  <2>4. /\ off \in Hosts /\ off.dma = (kind = "single")
        /\ off.div = h.div /\ off.second = h.second /\ off.on = h.on
    <3> DEFINE dma == kind = "single"
    <3>1. dma \in BOOLEAN
      OBVIOUS
    <3> HIDE DEF dma
    <3>2. LET k == [h EXCEPT !.dma = dma]
          IN  /\ k \in Hosts /\ k.dma = dma
              /\ k.div = h.div /\ k.second = h.second /\ k.on = h.on
      BY <2>3, <3>1 DEF Hosts
    <3> QED BY <3>2 DEF dma
  <2> QED BY <2>1, <2>3, <2>4
<1>7. job \in Jobs /\ job.kind = kind /\ job.kind # "init" /\ job.at = "wait" /\ job.id = calls
  BY <1>3 DEF Sd!Job, Jobs, CardsAreThere
<1>8. coming \in {None} \cup Phases /\ (coming # None => coming.id = calls)
  BY <1>3 DEF Phases
<1>9. sd' = s \/ sd' = [s EXCEPT !.job = None, !.result = FALSE, !.host.dma = kind = "single"]
  BY <1>1
<1> HIDE DEF h, job, faults, calls, coming
<1>10. [s EXCEPT !.job = None, !.result = FALSE, !.host.dma = kind = "single"] = t
  BY <1>2 DEF SdShapes
<1>11. CASE sd' = s
  <2>1. /\ sd' \in SdShapes /\ sd'.card = sd.card /\ sd'.act = sd.act /\ sd'.c6 = sd.c6 /\ sd'.session = sd.session
        /\ sd'.host = h /\ sd'.job = job /\ sd'.coming = coming /\ sd'.stray = sd.stray
    BY <1>2, <1>3, <1>5, <1>6, <1>7, <1>8, <1>11 DEF SdShapes, calls
  <2>2. Sharing'
    BY <1>6, <1>7, <2>1, SharedAlikeKeeps DEF SharedAlike
  <2>3. Moves => Moving(sd')
    BY <1>6, <1>7, <1>8, <2>1 DEF Moves, Moving, Transferring, CardsAreThere
  <2> QED BY <2>2, <2>3
<1>12. CASE sd' = t
  <2> HIDE DEF off
  <2>1. /\ sd' \in SdShapes /\ sd'.card = sd.card /\ sd'.act = sd.act /\ sd'.c6 = sd.c6 /\ sd'.session = sd.session
        /\ sd'.host = off /\ sd'.job = None /\ sd'.result = FALSE /\ sd'.stray = sd.stray
    BY <1>2, <1>3, <1>5, <1>6, <1>7, <1>8, <1>12 DEF SdShapes, calls
  <2>2. Sharing'
    BY <1>6, <2>1, SharedAlikeKeeps DEF SharedAlike
  <2>3. Moves => Moving(sd')
    BY <1>6, <2>1 DEF Moves, Moving, Transferring
  <2> QED BY <2>2, <2>3
<1> QED BY <1>9, <1>10, <1>11, <1>12

\* A phase that comes after its transfer has ended finds the engine off, and moves nothing.
LEMMA DataPhaseKeeps ==
  ASSUME CardsAreThere, Sharing, Sd!DataPhase
  PROVE  Sharing' /\ (Moves => Moving(sd'))
<1> DEFINE slot == Sd!SlotOf(sd.coming.kind)
           agree == sd.host.width[slot] = (IF slot = "sd" THEN sd.card.width ELSE sd.c6.width)
           mine == sd.job # None /\ sd.job.id = sd.coming.id
<1>1. PICK broken \in IF agree /\ sd.host.dma THEN IF Sd!Faulty THEN BOOLEAN ELSE {FALSE} ELSE {TRUE} :
        sd' = [sd EXCEPT !.coming = None, !.faults = Sd!Fault(agree /\ sd.host.dma /\ broken),
                         !.host.status = IF broken THEN "error" ELSE "over",
                         !.job = IF mine /\ ~broken THEN [@ EXCEPT !.buffer = "data"] ELSE @,
                         !.stray = @ \/ (sd.host.dma /\ ~mine),
                         !.busy = sd.coming.kind = "write" /\ ~broken]
  BY DEF Sd!DataPhase
<1> DEFINE faults == Sd!Fault(agree /\ sd.host.dma /\ broken)
           controller == [sd.host EXCEPT !.status = IF broken THEN "error" ELSE "over"]
           job == IF mine /\ ~broken THEN [sd.job EXCEPT !.buffer = "data"] ELSE sd.job
           stray == sd.stray \/ (sd.host.dma /\ ~mine)
           busy == sd.coming.kind = "write" /\ ~broken
<1>2. sd \in SdShapes /\ sd.host \in Hosts /\ sd.coming # None /\ sd.job \in {None} \cup Jobs
  BY DEF Sharing, SdShapes, Sd!DataPhase
<1>3. broken \in BOOLEAN /\ (~broken => sd.host.dma) /\ (agree /\ sd.host.dma /\ broken => Sd!Faulty)
  BY <1>1
<1>4. faults \in 0 .. MaxFaults
  BY <1>3, FaultsAre
<1>5. /\ controller \in Hosts /\ controller.div = sd.host.div /\ controller.second = sd.host.second /\ controller.on = sd.host.on
      /\ controller.dma = sd.host.dma /\ (controller.status = "over" => ~broken)
  BY <1>2 DEF Hosts
<1>6. /\ job \in {None} \cup Jobs /\ (sd.job = None => job = None)
      /\ sd.job # None => job # None /\ job.kind = sd.job.kind /\ job.at = sd.job.at
      /\ mine /\ ~broken => job.buffer = "data"
  <2>1. CASE sd.job = None
    BY <2>1
  <2>2. CASE sd.job \in Jobs
    <3> DEFINE moved == [sd.job EXCEPT !.buffer = "data"]
    <3>1. moved \in Jobs /\ moved.kind = sd.job.kind /\ moved.at = sd.job.at /\ moved.buffer = "data"
      BY <2>2 DEF Jobs
    <3> HIDE DEF moved
    <3>2. job = moved \/ (job = sd.job /\ ~(mine /\ ~broken))
      BY DEF moved
    <3> QED BY <2>2, <3>1, <3>2 DEF CardsAreThere
  <2> QED BY <1>2, <2>1, <2>2
<1>7. sd' = [sd EXCEPT !.coming = None, !.faults = faults, !.host = controller, !.job = job, !.stray = stray, !.busy = busy]
  BY <1>1, <1>2 DEF SdShapes
<1> HIDE DEF faults, controller, job
<1>8. stray \in BOOLEAN /\ busy \in BOOLEAN
  BY <1>2 DEF SdShapes
<1>9. /\ sd' \in SdShapes /\ sd'.card = sd.card /\ sd'.act = sd.act /\ sd'.c6 = sd.c6 /\ sd'.session = sd.session
      /\ sd'.host = controller /\ sd'.job = job /\ sd'.coming = None /\ sd'.stray = stray /\ sd'.busy = busy
      /\ sd'.result = sd.result /\ sd'.of = sd.of
  BY <1>2, <1>4, <1>5, <1>6, <1>7, <1>8 DEF SdShapes
<1>10. Sharing'
  BY <1>5, <1>6, <1>9, SharedAlikeKeeps DEF SharedAlike
<1>11. ASSUME Moves PROVE Moving(sd')
  <2>1. sd.host.dma => mine
    BY <1>2, <1>11 DEF Moves, Moving, Transferring
  <2>2. ~stray /\ (sd.job = None => ~busy)
    BY <1>3, <1>11, <2>1 DEF Moves, Moving
  <2>3. Transferring(sd') => Transferring(sd)
    BY <1>6, <1>9 DEF Transferring
  <2>4. CASE sd.job = None
    BY <1>2, <1>5, <1>6, <1>9, <1>11, <2>2, <2>4 DEF Moves, Moving, Transferring
  <2>5. CASE sd.job # None
    <3>1. Transferring(sd) => mine /\ sd.job.at = "wait"
      BY <1>2, <1>11 DEF Moves, Moving, Transferring
    <3>2. sd'.host.dma => Transferring(sd') /\ sd'.job.at = "wait"
      BY <1>5, <1>6, <1>9, <1>11 DEF Moves, Moving, Transferring
    <3>3. Transferring(sd') /\ ((sd'.host.status = "over" /\ sd'.job.at = "wait") \/ sd'.job.at = "busy")
          => sd'.job.buffer = "data"
      BY <1>5, <1>6, <1>9, <2>3, <2>5, <3>1
    <3> QED BY <1>6, <1>9, <2>2, <2>5, <3>2, <3>3 DEF Moving
  <2> QED BY <2>4, <2>5
<1> QED BY <1>10, <1>11

LEMMA DataNeverComesKeeps ==
  ASSUME CardsAreThere, Sharing, Sd!DataNeverComes
  PROVE  Sharing' /\ (Moves => Moving(sd'))
<1> DEFINE faults == sd.faults + 1
<1>1. sd \in SdShapes /\ faults \in 0 .. MaxFaults /\ sd' = [sd EXCEPT !.coming = None, !.faults = faults]
  BY DEF Sharing, SdShapes, Sd!DataNeverComes, Sd!Faulty, CardsAreThere
<1> HIDE DEF faults
<1>2. /\ sd' \in SdShapes /\ sd'.card = sd.card /\ sd'.act = sd.act /\ sd'.c6 = sd.c6 /\ sd'.session = sd.session
      /\ sd'.host = sd.host /\ sd'.job = sd.job /\ sd'.coming = None /\ sd'.stray = sd.stray /\ sd'.busy = sd.busy
      /\ sd'.result = sd.result /\ sd'.of = sd.of
  BY <1>1 DEF SdShapes
<1>3. Sharing'
  BY <1>2, SharedAlikeKeeps DEF SharedAlike
<1>4. Moves => Moving(sd')
  BY <1>2 DEF Moves, Moving, Transferring
<1> QED BY <1>3, <1>4

\* A call returns: with what is true of its data, when it says it was done.
LEMMA EndingKeeps ==
  ASSUME CardsAreThere, Sharing, Transferring(sd), NEW faults \in 0 .. MaxFaults, NEW result \in BOOLEAN,
         sd' = Sd!Ended([sd EXCEPT !.faults = faults], result),
         Moves /\ result => sd.job.buffer = "data" /\ (sd.job.kind = "write" => ~sd.busy)
  PROVE  Sharing' /\ (Moves => Moving(sd'))
<1>1. /\ SharedAlike(sd') /\ sd'.job = None /\ sd'.result = result /\ sd'.of = sd.job /\ ~sd'.host.dma
      /\ sd'.stray = sd.stray /\ sd'.busy = sd.busy
  BY EndedIs
<1>2. Moves => Moving(sd')
  BY <1>1 DEF Moves, Moving, Transferring
<1> QED BY <1>1, <1>2, SharedAlikeKeeps

LEMMA FaultsStay ==
  ASSUME CardsAreThere, Sharing
  PROVE  sd.faults \in 0 .. MaxFaults /\ sd = [sd EXCEPT !.faults = sd.faults]
BY DEF Sharing, SdShapes

LEMMA TransferOverKeeps ==
  ASSUME CardsAreThere, Sharing, Sd!TransferOver
  PROVE  Sharing' /\ (Moves => Moving(sd'))
<1>1. /\ sd \in SdShapes /\ Transferring(sd) /\ sd.job.at = "wait" /\ sd.host.status \in {"over", "error"}
      /\ sd.host \in Hosts /\ sd.job \in Jobs
  BY DEF Sd!TransferOver, Sd!Waiting, Transferring, Sharing, SdShapes, Hosts
<1>2. \/ sd' = Sd!Ended(sd, FALSE)
      \/ sd' = Sd!Ended(sd, TRUE) /\ sd.job.kind = "single"
      \/ sd' = [sd EXCEPT !.host.dma = FALSE, !.host.status = None, !.job.at = "busy"] /\ sd.host.status = "over"
  BY <1>1 DEF Sd!TransferOver, Sd!Failed
<1>3. CASE sd' = Sd!Ended(sd, FALSE)
  BY <1>1, <1>3, FaultsStay, EndingKeeps
<1>4. CASE sd' = Sd!Ended(sd, TRUE) /\ sd.job.kind = "single"
  <2>1. ~Moves
    BY <1>1, <1>4 DEF Moves, Jobs
  <2> QED BY <1>1, <1>4, <2>1, FaultsStay, EndingKeeps
<1>5. CASE sd' = [sd EXCEPT !.host.dma = FALSE, !.host.status = None, !.job.at = "busy"] /\ sd.host.status = "over"
  <2> DEFINE controller == [sd.host EXCEPT !.dma = FALSE, !.status = None]
             job == [sd.job EXCEPT !.at = "busy"]
  <2>1. /\ controller \in Hosts /\ controller.div = sd.host.div /\ controller.second = sd.host.second /\ controller.on = sd.host.on
        /\ controller.dma = FALSE
    BY <1>1 DEF Hosts
  <2>2. /\ job \in Jobs /\ job.kind = sd.job.kind /\ job.at = "busy" /\ job.buffer = sd.job.buffer
    BY <1>1 DEF Jobs
  <2>3. sd' = [sd EXCEPT !.host = controller, !.job = job]
    BY <1>1, <1>5 DEF SdShapes
  <2> HIDE DEF controller, job
  <2>4. /\ sd' \in SdShapes /\ sd'.card = sd.card /\ sd'.act = sd.act /\ sd'.c6 = sd.c6 /\ sd'.session = sd.session
        /\ sd'.host = controller /\ sd'.job = job /\ sd'.coming = sd.coming /\ sd'.stray = sd.stray
    BY <1>1, <2>1, <2>2, <2>3 DEF SdShapes
  <2>5. Sharing'
    BY <1>1, <2>1, <2>2, <2>4, SharedAlikeKeeps DEF SharedAlike, Transferring
  <2>6. job # None
    BY <2>2 DEF CardsAreThere
  <2>7. ASSUME Moves PROVE Moving(sd')
    <3>1. sd.coming = None /\ job.buffer = "data" /\ ~sd.stray
      BY <1>1, <1>5, <2>2, <2>7 DEF Moves, Moving, CardsAreThere
    <3> QED BY <2>1, <2>4, <2>6, <3>1 DEF Moving
  <2> QED BY <2>5, <2>7
<1> QED BY <1>2, <1>3, <1>4, <1>5

LEMMA TransferTimesOutKeeps ==
  ASSUME CardsAreThere, Sharing, Sd!TransferTimesOut
  PROVE  Sharing' /\ (Moves => Moving(sd'))
<1>1. Transferring(sd) /\ sd.faults + 1 \in 0 .. MaxFaults
  BY DEF Sd!TransferTimesOut, Sd!Waiting, Transferring, Sd!Faulty, Sharing, SdShapes, CardsAreThere
<1>2. sd' = Sd!Ended([sd EXCEPT !.faults = sd.faults + 1], FALSE)
  BY DEF Sd!TransferTimesOut
<1> QED BY <1>1, <1>2, EndingKeeps

LEMMA CardSettlesKeeps ==
  ASSUME CardsAreThere, Sharing, Sd!CardSettles
  PROVE  Sharing' /\ (Moves => Moving(sd'))
<1>1. /\ sd' \in SdShapes /\ sd'.card = sd.card /\ sd'.act = sd.act /\ sd'.c6 = sd.c6 /\ sd'.session = sd.session
      /\ sd'.host = sd.host /\ sd'.job = sd.job /\ sd'.coming = sd.coming /\ sd'.stray = sd.stray /\ sd'.busy = FALSE
      /\ sd'.result = sd.result /\ sd'.of = sd.of
  BY DEF Sd!CardSettles, Sharing, SdShapes
<1>2. Sharing'
  BY <1>1, SharedAlikeKeeps DEF SharedAlike
<1>3. Moves => Moving(sd')
  BY <1>1 DEF Moves, Moving, Transferring
<1> QED BY <1>2, <1>3

LEMMA BusyTransfers ==
  ASSUME Sharing, sd.job # None, sd.job.at = "busy"
  PROVE  Transferring(sd)
BY DEF Sharing, Clocked, Transferring, InitStages

LEMMA BusyKeeps ==
  ASSUME CardsAreThere, Sharing, Sd!NotBusy \/ Sd!StaysBusy
  PROVE  Sharing' /\ (Moves => Moving(sd'))
<1>1. CASE Sd!NotBusy
  <2>1. Transferring(sd) /\ sd.job.at = "busy" /\ ~sd.busy /\ sd' = Sd!Ended(sd, TRUE)
    BY <1>1, BusyTransfers DEF Sd!NotBusy, Sd!Settled
  <2>2. Moves => sd.job.buffer = "data"
    BY <2>1 DEF Moves, Moving
  <2> QED BY <2>1, <2>2, FaultsStay, EndingKeeps
<1>2. CASE Sd!StaysBusy
  <2>1. Transferring(sd) /\ sd.faults + 1 \in 0 .. MaxFaults
    BY <1>2, BusyTransfers DEF Sd!StaysBusy, Sd!Faulty, Sharing, SdShapes, CardsAreThere
  <2>2. sd' = Sd!Ended([sd EXCEPT !.faults = sd.faults + 1], FALSE)
    BY <1>2 DEF Sd!StaysBusy
  <2> QED BY <2>1, <2>2, EndingKeeps
<1> QED BY <1>1, <1>2

---------------------------------------------------------------------------
LEMMA NextStageIs ==
  /\ Sd!NextStage("host") = "idle" /\ Sd!NextStage("idle") = "probe" /\ Sd!NextStage("probe") = "select"
  /\ Sd!NextStage("select") = "width" /\ Sd!NextStage("width") = "block" /\ Sd!NextStage("block") = "enable"
  /\ Sd!NextStage("enable") = "clock" /\ Sd!NextStage("clock") = "active"
<1>1. ASSUME NEW n \in 3 .. 10
      PROVE  Sd!NextStage(Sd!Stages[n]) = Sd!Stages[n + 1]
  <2> DEFINE i == CHOOSE i \in 1 .. Len(Sd!Stages) : Sd!Stages[i] = Sd!Stages[n]
  <2>1. n \in 1 .. Len(Sd!Stages)
    BY DEF Sd!Stages
  <2>2. i \in 1 .. Len(Sd!Stages) /\ Sd!Stages[i] = Sd!Stages[n]
    BY <2>1, Zenon
  <2>3. i = n
    <3> HIDE DEF i
    <3> QED BY <2>2 DEF Sd!Stages
  <2> QED BY <2>3, Zenon DEF Sd!NextStage
<1> QED BY <1>1 DEF Sd!Stages

\* A step of the activation: transfers and the microSD card's own sequence rest.
Activating(t) ==
  /\ t \in SdShapes /\ t.job = sd.job /\ sd.job = None /\ t.card = sd.card /\ t.session = sd.session /\ t.stray = sd.stray
  /\ t.busy = sd.busy /\ t.result = sd.result /\ t.of = sd.of
  /\ t.host.on["sd"] = sd.host.on["sd"] /\ t.host.dma \in {sd.host.dma, FALSE}

LEMMA ActivatingMoves ==
  ASSUME Activating(sd'), Moves
  PROVE  Moving(sd')
BY DEF Activating, Moves, Moving, Transferring

\* One that leaves the clocks alone and comes no further than its card.
LEMMA ActivatingKeeps ==
  ASSUME CardsAreThere, Sharing, Activating(sd'),
         sd'.host.div = sd.host.div, sd'.host.second = sd.host.second, sd'.host.on = sd.host.on,
         Activated(sd'), sd'.act # "active", sd'.act \in C6Stages => sd.act \in C6Stages
  PROVE  Sharing' /\ (Moves => Moving(sd'))
<1>1. Clocked(sd')
  BY DEF Sharing, Clocked, Activating, Initializing
<1> QED BY <1>1, ActivatingMoves DEF Sharing, Activating

LEMMA FreshIs == Sd!Fresh \in Coprocessors
BY DEF Sd!Fresh, Coprocessors

LEMMA ActPowerKeeps ==
  ASSUME CardsAreThere, Sharing, Sd!ActPower \/ Sd!PowerDown
  PROVE  Sharing' /\ (Moves => Moving(sd'))
<1> DEFINE faults == sd.faults + 1
<1>1. sd \in SdShapes /\ sd.job = None /\ (Sd!Faulty => faults \in 0 .. MaxFaults)
  BY DEF Sharing, SdShapes, Sd!ActPower, Sd!PowerDown, Sd!Idle, Sd!Faulty, CardsAreThere
<1>2. \/ sd' = [sd EXCEPT !.act = "power"]
      \/ sd' = [sd EXCEPT !.act = "reset", !.c6 = Sd!Fresh]
      \/ sd' = [sd EXCEPT !.faults = faults, !.act = "off"] /\ Sd!Faulty
      \/ sd' = [sd EXCEPT !.act = "host", !.c6 = Sd!Fresh]
      \/ sd' = [sd EXCEPT !.act = "off", !.c6 = Sd!Fresh]
  BY <1>1 DEF Sd!ActPower, Sd!PowerDown, Sd!Left, SdShapes
<1> HIDE DEF faults
<1>3. /\ sd' \in SdShapes /\ sd'.job = sd.job /\ sd'.card = sd.card /\ sd'.session = sd.session /\ sd'.stray = sd.stray
      /\ sd'.busy = sd.busy /\ sd'.result = sd.result /\ sd'.of = sd.of /\ sd'.host = sd.host
      /\ sd'.act \in {"off", "power", "reset", "host"}
  BY <1>1, <1>2, FreshIs DEF SdShapes, Stages
<1>4. Activating(sd') /\ Activated(sd')
  BY <1>1, <1>3 DEF Activating, Activated
<1> QED BY <1>3, <1>4, ActivatingKeeps DEF C6Stages

\* Setting its clock is also what makes the coprocessor count as the second card.
LEMMA ActClockKeeps ==
  ASSUME CardsAreThere, Sharing, Sd!ActClock
  PROVE  Sharing' /\ (Moves => Moving(sd'))
<1>1. PICK o \in CASE sd.act = "host"  -> Sd!InitHost(sd.host, "c6")
                   [] sd.act = "clock" -> Sd!SetCardClocks(sd.host, "c6", 8, 0)
                   [] OTHER            -> {} :
        /\ o.done \/ Sd!Faulty
        /\ LET s == [sd EXCEPT !.host = o.host, !.faults = Sd!Fault(~o.done)]
           IN  sd' = IF ~o.done THEN Sd!Left(s)
                     ELSE [s EXCEPT !.act = Sd!NextStage(@), !.host.second = @ \/ sd.act = "clock"]
  BY Zenon DEF Sd!ActClock
<1> DEFINE faults == Sd!Fault(~o.done)
           controller == [o.host EXCEPT !.second = @ \/ sd.act = "clock"]
           next == Sd!NextStage(sd.act)
<1>2. /\ sd \in SdShapes /\ sd.host \in Hosts /\ "c6" \in Sd!Slots /\ "sd" \in Sd!Slots \ {"c6"}
      /\ Clocked(sd) /\ Activated(sd) /\ sd.job = None
  BY DEF Sharing, SdShapes, Sd!Slots, Sd!ActClock, Sd!Idle
<1>3. PICK div \in {8, 10} : ClockSet(o, sd.host, "c6", div) /\ sd.act \in {"host", "clock"}
  <2>1. CASE sd.act = "host"
    <3>1. o \in Sd!InitHost(sd.host, "c6")
      BY <1>1, <2>1
    <3> QED BY <1>2, <2>1, <3>1, HostsAre
  <2>2. CASE sd.act = "clock"
    <3>1. o \in Sd!SetCardClocks(sd.host, "c6", 8, 0)
      BY <1>1, <2>2
    <3> QED BY <1>2, <2>2, <3>1, ClocksAre
  <2> QED BY <1>1, <2>1, <2>2
<1>4. o.done \in BOOLEAN /\ o.host \in Hosts /\ o.host.second = sd.host.second /\ o.host.dma \in {sd.host.dma, FALSE}
      /\ o.host.div \in {sd.host.div, div} /\ o.host.on["sd"] = sd.host.on["sd"]
      /\ (o.done => o.host.div = div /\ o.host.on["c6"])
  BY <1>2, <1>3 DEF ClockSet
<1>5. faults \in 0 .. MaxFaults
  BY <1>1, <1>4, FaultsAre
<1>6. /\ controller \in Hosts /\ controller.second = (o.host.second \/ sd.act = "clock") /\ controller.dma = o.host.dma
      /\ controller.div = o.host.div /\ controller.on = o.host.on
  <2> DEFINE second == o.host.second \/ sd.act = "clock"
  <2>1. second \in BOOLEAN /\ controller = [o.host EXCEPT !.second = second]
    BY <1>4 DEF Hosts
  <2> HIDE DEF second, controller
  <2>2. controller \in Hosts /\ controller.second = second /\ controller.dma = o.host.dma /\ controller.div = o.host.div /\ controller.on = o.host.on
    BY <1>4, <2>1 DEF Hosts
  <2> QED BY <2>2 DEF second
<1>7. next = IF sd.act = "host" THEN "idle" ELSE "active"
  BY <1>3, NextStageIs
<1>8. \/ ~o.done /\ sd' = [sd EXCEPT !.host = o.host, !.faults = faults, !.act = "off"]
      \/ o.done /\ sd' = [sd EXCEPT !.host = controller, !.faults = faults, !.act = next]
  BY <1>1, <1>2 DEF Sd!Left, SdShapes
<1> HIDE DEF faults, controller, next
<1>9. CASE ~o.done /\ sd' = [sd EXCEPT !.host = o.host, !.faults = faults, !.act = "off"]
  <2>1. /\ sd' \in SdShapes /\ sd'.job = sd.job /\ sd'.card = sd.card /\ sd'.session = sd.session /\ sd'.stray = sd.stray
        /\ sd'.busy = sd.busy /\ sd'.result = sd.result /\ sd'.of = sd.of /\ sd'.host = o.host /\ sd'.act = "off"
    BY <1>2, <1>4, <1>5, <1>9 DEF SdShapes, Stages
  <2>2. Activating(sd') /\ Activated(sd')
    BY <1>2, <1>4, <2>1 DEF Activating, Activated
  <2>3. Clocked(sd')
    BY <1>2, <1>3, <1>4, <2>1 DEF Clocked, Initializing, C6Stages
  <2> QED BY <2>1, <2>2, <2>3, ActivatingMoves DEF Sharing
<1>10. CASE o.done /\ sd' = [sd EXCEPT !.host = controller, !.faults = faults, !.act = next]
  <2>1. /\ sd' \in SdShapes /\ sd'.job = sd.job /\ sd'.card = sd.card /\ sd'.session = sd.session /\ sd'.stray = sd.stray
        /\ sd'.busy = sd.busy /\ sd'.result = sd.result /\ sd'.of = sd.of /\ sd'.host = controller /\ sd'.act = next
        /\ sd'.c6 = sd.c6
    <3>1. next \in Stages
      BY <1>7 DEF Stages, C6Stages
    <3> QED BY <1>2, <1>5, <1>6, <1>10, <3>1 DEF SdShapes
  <2>2. Activating(sd') /\ Activated(sd')
    BY <1>2, <1>3, <1>4, <1>6, <1>7, <2>1 DEF Activating, Activated
  <2>3. Clocked(sd')
    <3>1. /\ sd'.host.div = div /\ div # 4 /\ sd'.host.on["c6"] /\ sd'.host.on["sd"] = sd.host.on["sd"]
          /\ sd'.act = "active" => sd'.host.second
      <4>1. sd'.host = controller /\ sd'.act = next
        BY <2>1
      <4>2. sd'.host.div = div /\ div # 4 /\ sd'.host.on["c6"] /\ sd'.host.on["sd"] = sd.host.on["sd"]
        BY <1>3, <1>4, <1>6, <1>10, <4>1
      <4>3. next = "active" => sd.act = "clock"
        BY <1>3, <1>7
      <4>4. next = "active" => controller.second
        BY <1>6, <4>3
      <4> QED BY <4>1, <4>2, <4>4
    <3>2. sd.session # None => sd.host.on["sd"]
      BY <1>2 DEF Clocked
    <3> QED BY <1>2, <2>1, <3>1, <3>2 DEF Clocked, Initializing
  <2> QED BY <2>1, <2>2, <2>3, ActivatingMoves DEF Sharing
<1> QED BY <1>8, <1>9, <1>10

LEMMA ActCommandKeeps ==
  ASSUME CardsAreThere, Sharing, Sd!ActCommand
  PROVE  Sharing' /\ (Moves => Moving(sd'))
<1>1. PICK answer \in Sd!Outcomes("c6") :
       LET s == [sd EXCEPT !.c6 = IF Sd!CarriedOut(answer) THEN Sd!EffectC6(@, sd.act) ELSE @,
                           !.faults = Sd!Fault(answer # "ok")]
           on == [s EXCEPT !.act = Sd!NextStage(sd.act)]
       IN  sd' \in CASE answer = "ok" /\ sd.act = "width" -> {[on EXCEPT !.host.width["c6"] = 4]}
                     [] answer = "ok" /\ sd.act # "width" -> {on}
                     [] answer # "ok" /\ sd.act = "width" -> {on}
                     [] answer # "ok" /\ sd.act = "probe" -> {s, Sd!Left(s)}
                     [] OTHER -> {Sd!Left(s)}
  BY DEF Sd!ActCommand
<1> DEFINE c6 == IF Sd!CarriedOut(answer) THEN Sd!EffectC6(sd.c6, sd.act) ELSE sd.c6
           faults == Sd!Fault(answer # "ok")
           next == Sd!NextStage(sd.act)
           controller == [sd.host EXCEPT !.width["c6"] = 4]
<1>2. /\ sd \in SdShapes /\ sd.host \in Hosts /\ sd.c6 \in Coprocessors /\ Clocked(sd) /\ Activated(sd) /\ sd.job = None
      /\ sd.act \in {"idle", "probe", "select", "width", "block", "enable"}
  BY DEF Sharing, SdShapes, Sd!ActCommand, Sd!Idle
<1>3. sd.host.on["c6"] /\ sd.act \in C6Stages
  BY <1>2 DEF Clocked, C6Stages
<1>4. answer \in {"ok", "silent", "garbled"} /\ faults \in 0 .. MaxFaults
  BY <1>3, OutcomesAre DEF Sd!Slots
<1>5. next \in {"probe", "select", "width", "block", "enable", "clock"}
      /\ (next = "probe" <=> sd.act = "idle") /\ (next = "select" <=> sd.act = "probe")
      /\ (next = "width" <=> sd.act = "select") /\ (next = "clock" <=> sd.act = "enable")
  BY <1>2, NextStageIs
<1>6. /\ c6 \in Coprocessors /\ (sd.act # "idle" /\ sd.c6.selected => c6.selected)
      /\ sd.act = "select" /\ answer = "ok" => c6.selected
      /\ sd.act = "enable" /\ answer = "ok" => c6.function
  <2>1. CASE Sd!CarriedOut(answer)
    <3>1. sd.act = "enable" => sd.c6.selected
      BY <1>2 DEF Activated
    <3> QED BY <1>2, <2>1, <3>1, FreshIs DEF Sd!EffectC6, Coprocessors, Activated
  <2>2. CASE ~Sd!CarriedOut(answer)
    BY <1>2, <2>2 DEF Sd!CarriedOut
  <2> QED BY <2>1, <2>2
<1>7. /\ controller \in Hosts /\ controller.div = sd.host.div /\ controller.second = sd.host.second /\ controller.on = sd.host.on
      /\ controller.dma = sd.host.dma
  BY <1>2 DEF Hosts
<1>8. \/ sd' = [sd EXCEPT !.c6 = c6, !.faults = faults, !.act = next, !.host = controller] /\ sd.act = "width"
      \/ sd' = [sd EXCEPT !.c6 = c6, !.faults = faults, !.act = next] /\ (answer = "ok" \/ sd.act = "width")
      \/ sd' = [sd EXCEPT !.c6 = c6, !.faults = faults, !.act = "off"]
      \/ sd' = [sd EXCEPT !.c6 = c6, !.faults = faults] /\ sd.act = "probe"
  <2> DEFINE s == [sd EXCEPT !.c6 = c6, !.faults = faults]
  <2>1. /\ [s EXCEPT !.act = next] = [sd EXCEPT !.c6 = c6, !.faults = faults, !.act = next]
        /\ [[s EXCEPT !.act = next] EXCEPT !.host.width["c6"] = 4]
           = [sd EXCEPT !.c6 = c6, !.faults = faults, !.act = next, !.host = controller]
        /\ Sd!Left(s) = [sd EXCEPT !.c6 = c6, !.faults = faults, !.act = "off"]
    BY <1>2 DEF SdShapes, Sd!Left
  <2>2. \/ sd' = [[s EXCEPT !.act = next] EXCEPT !.host.width["c6"] = 4] /\ sd.act = "width"
        \/ sd' = [s EXCEPT !.act = next] /\ (answer = "ok" \/ sd.act = "width")
        \/ sd' = Sd!Left(s)
        \/ sd' = s /\ sd.act = "probe"
    BY <1>1, <1>4
  <2> QED BY <2>1, <2>2, Zenon
<1> HIDE DEF c6, faults, next, controller
<1>9. /\ sd' \in SdShapes /\ sd'.job = sd.job /\ sd'.card = sd.card /\ sd'.session = sd.session /\ sd'.stray = sd.stray
      /\ sd'.busy = sd.busy /\ sd'.result = sd.result /\ sd'.of = sd.of /\ sd'.host \in {sd.host, controller} /\ sd'.c6 = c6
      /\ \/ sd'.act = next /\ (answer = "ok" \/ sd.act = "width")
         \/ sd'.act = "off"
         \/ sd'.act = "probe" /\ sd.act = "probe"
  <2>1. next \in Stages /\ "off" \in Stages
    BY <1>5 DEF Stages, C6Stages
  <2> DEFINE t(stage, h) == [sd EXCEPT !.c6 = c6, !.faults = faults, !.act = stage, !.host = h]
  <2>2. ASSUME NEW stage \in Stages, NEW h \in Hosts
        PROVE  /\ t(stage, h) \in SdShapes /\ t(stage, h).job = sd.job /\ t(stage, h).card = sd.card
               /\ t(stage, h).session = sd.session /\ t(stage, h).stray = sd.stray /\ t(stage, h).busy = sd.busy
               /\ t(stage, h).result = sd.result /\ t(stage, h).of = sd.of /\ t(stage, h).host = h
               /\ t(stage, h).c6 = c6 /\ t(stage, h).act = stage
    BY <1>2, <1>4, <1>6 DEF SdShapes
  <2>3. \/ sd' = t(next, controller) /\ sd.act = "width"
        \/ sd' = t(next, sd.host) /\ (answer = "ok" \/ sd.act = "width")
        \/ sd' = t("off", sd.host)
        \/ sd' = t(sd.act, sd.host) /\ sd.act = "probe"
    BY <1>2, <1>8 DEF SdShapes
  <2>4. sd.act \in Stages
    BY <1>2 DEF SdShapes
  <2> HIDE DEF t
  <2> QED BY <1>2, <1>7, <2>1, <2>2, <2>3, <2>4
<1>10. Activating(sd')
  BY <1>2, <1>7, <1>9 DEF Activating
<1>11. Activated(sd') /\ sd'.act # "active"
  BY <1>2, <1>5, <1>6, <1>9 DEF Activated
<1> QED BY <1>3, <1>7, <1>9, <1>10, <1>11, ActivatingKeeps

LEMMA SdStep ==
  ASSUME CardsAreThere, Sharing, [Sd!Next]_sd
  PROVE  Sharing' /\ (Moves => Moving(sd'))
<1>1. CASE Sd!Next
  BY <1>1, InitSdKeeps, ClockStepKeeps, IdentifyKeeps, SetBusWidthKeeps, SwitchFunctionKeeps, StartTransferKeeps,
     DataPhaseKeeps, DataNeverComesKeeps, TransferOverKeeps, TransferTimesOutKeeps, CardSettlesKeeps, BusyKeeps,
     ActPowerKeeps, ActClockKeeps, ActCommandKeeps, Zenon DEF Sd!Next, Moves
<1>2. CASE UNCHANGED sd
  BY <1>2 DEF Sharing, Moves
<1> QED BY <1>1, <1>2

\* Sharing, and with no single transfer Moving, is an inductive invariant.
LEMMA SdIsShared ==
  ASSUME CardsAreThere
  PROVE  Sd!Spec => [](Sharing /\ ("single" \notin Kinds => Moving(sd)))
<1>1. Sd!Init => Sharing /\ ("single" \notin Kinds => Moving(sd))
  BY SdBegins
<1>2. ASSUME Sharing, "single" \notin Kinds => Moving(sd), [Sd!Next]_sd
      PROVE  Sharing' /\ ("single" \notin Kinds => Moving(sd'))
  BY <1>2, SdStep DEF Moves
<1>3. (Sharing /\ ("single" \notin Kinds => Moving(sd))) /\ [Sd!Next]_sd
      => (Sharing /\ ("single" \notin Kinds => Moving(sd)))'
  BY <1>2, Zenon
<1> QED BY <1>1, <1>3, PTL DEF Sd!Spec

\* The state of the shared controller: its divider, its status and how far the
\* coprocessor is (`sdmmc.rs`, `sdio.rs`).
THEOREM ControllerIsShared ==
  ASSUME CardsAreThere
  PROVE  Sd!Spec => []Sd!TypeOK
<1>1. Sharing => Sd!TypeOK
  <2> SUFFICES ASSUME Sharing PROVE Sd!TypeOK
    OBVIOUS
  <2>1. sd.host \in Hosts /\ sd.act \in Stages /\ sd.faults <= MaxFaults
    BY DEF Sharing, SdShapes, CardsAreThere
  <2>2. sd.act \in {"off"} \cup {Sd!Stages[i] : i \in 1 .. Len(Sd!Stages)}
    BY <2>1 DEF Stages, C6Stages, Sd!Stages
  <2> QED BY <2>1, <2>2 DEF Sd!TypeOK, Hosts
<1> QED BY <1>1, SdIsShared, PTL

\* Neither card is clocked faster than the timing it was switched to, although each sets
\* the divider both live on: the microSD card takes High Speed only while it is alone.
THEOREM SharedClockSuitsBoth ==
  ASSUME CardsAreThere
  PROVE  Sd!Spec => []Sd!NoCardIsOverclocked
<1>1. Sharing => Sd!NoCardIsOverclocked
  <2> SUFFICES ASSUME Sharing PROVE Sd!NoCardIsOverclocked
    OBVIOUS
  <2>1. sd.host \in Hosts /\ Clocked(sd) /\ "sd" \in Sd!Slots /\ "c6" \in Sd!Slots
    BY DEF Sharing, SdShapes, Sd!Slots
  <2>2. ~sd.card.fast \/ sd.act = "active" => sd.host.div # 4
    BY <2>1 DEF Clocked
  <2> QED BY <2>1, <2>2, ClockIs DEF Sd!NoCardIsOverclocked
<1> QED BY <1>1, SdIsShared, PTL

\* An active coprocessor is selected with its function enabled, whatever commands and
\* answers were lost on the way.
THEOREM ActiveCoprocessorIsReady ==
  ASSUME CardsAreThere
  PROVE  Sd!Spec => []Sd!ActiveIsReady
<1>1. Sharing => Sd!ActiveIsReady
  BY DEF Sharing, Activated, Sd!ActiveIsReady
<1> QED BY <1>1, SdIsShared, PTL

\* Where no block is read with read_block_aligned, a transfer that says it was done moved
\* its own data, a write is done when the card has let go of its line, and the engine
\* is off when its call has returned.
THEOREM TransfersMoveTheirOwn ==
  ASSUME CardsAreThere, "single" \notin Kinds
  PROVE  Sd!Spec => [](Sd!DoneIsDone /\ Sd!DoneIsOnTheMedium /\ Sd!DmaEndsWithItsCall)
<1>1. Moving(sd) => Sd!DoneIsDone /\ Sd!DoneIsOnTheMedium /\ Sd!DmaEndsWithItsCall
  BY DEF Moving, Transferring, Sd!DoneIsDone, Sd!DoneIsOnTheMedium, Sd!DmaEndsWithItsCall, Sd!Idle
<1>2. Sharing /\ ("single" \notin Kinds => Moving(sd)) => Sd!DoneIsDone /\ Sd!DoneIsOnTheMedium /\ Sd!DmaEndsWithItsCall
  BY <1>1
<1> QED BY <1>2, SdIsShared, PTL
=============================================================================
