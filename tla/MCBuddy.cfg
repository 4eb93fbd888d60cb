CONSTANTS
  Level = 3
  Pow <- MCPow
SPECIFICATION Spec
INVARIANTS OwnedDisjoint TagsTrue
PROPERTIES CallsEnd ImplementsBuddyAbs
CHECK_DEADLOCK FALSE
