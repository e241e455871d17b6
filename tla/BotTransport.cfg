CONSTANTS
  Lengths = {1, 2}
  PacketRetries = 2
  TimeoutRetries = 1
  RecoveryLimit = 2
  MaxTag = 5
SPECIFICATION Spec
INVARIANTS TypeOK NothingTakenTwice SuccessMeansDone SynchronizedBetweenCommands WriteBegunAtMostOnce
PROPERTIES CommandReturns
\* The tags run out.
CHECK_DEADLOCK FALSE
