SPECIFICATION Spec
CONSTANTS
  Functions <- MCFunctions
  MaxDecisions = 4
CHECK_DEADLOCK FALSE
INVARIANTS NoUninitialisedRead RunsAsWritten AcceptedBodiesLower RefusalsHaveARun
