SPECIFICATION Spec
CONSTANTS
  Cap = 1
  Target = "target"
  Loads <- MCLoads
INVARIANTS HopsInOrder Delivered LeavesNothing ChargedAsStated
CHECK_DEADLOCK FALSE
 
