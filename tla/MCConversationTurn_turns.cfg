CONSTANTS
  Message <- MCMessage
  Silence = "silence"
  Says <- MCSays
  Gives <- MCGives
  Fills <- MCFills
  Triggers <- MCTriggers
  Discovery <- MCDiscovery
  Worker = {w1, w2}
  UsesAI = TRUE
  MaxTurns = 3
SPECIFICATION TurnsSpec
SYMMETRY Symmetry
INVARIANTS ToldForCause ReadyIsTold RefusalStands RequestStands
CHECK_DEADLOCK FALSE
