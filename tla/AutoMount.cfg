SPECIFICATION Spec
CONSTANTS
  Slots = {left1, right1}
  IdLimit = 2
  Partitions = {1}
  Budget = 2
  MaxFound = 2
INVARIANTS TypeOK NothingLeftBehind  
PROPERTIES BudgetRunsOut
