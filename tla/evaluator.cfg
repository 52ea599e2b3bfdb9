CONSTANTS
  Says <- MCSays
  Shows <- MCShows
  Takes <- MCTakes
  Source <- MCSource
  Target = 30
SPECIFICATION Spec
INVARIANTS SecondCutCountsOnce MultiplierReach
PROPERTIES SignalsNeverCost
CHECK_DEADLOCK FALSE
