\* One replacement of the first branch and one error, when every goroutine
\* goes on.
SPECIFICATION FairSpec
CONSTANTS
  MaxGeneration = 2
  MaxFaults = 1
CHECK_DEADLOCK FALSE
INVARIANTS SamplesClosedLast ReplacementSettles FailureIsReported
PROPERTIES SwitchIsClean WaitsEnd
