SPECIFICATION AppSpec
CONSTANTS
  Picks = {30, 80}
CHECK_DEADLOCK FALSE
INVARIANTS NoLostStop FanFollowsHeat
PROPERTIES IsService
