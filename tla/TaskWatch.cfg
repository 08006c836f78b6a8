SPECIFICATION LiveWatchSpec
CONSTANTS
  Jobs = 3
  MaxHit = 1
INVARIANTS
  WatchTypeOK
  StopsOnce
  EndIsTrue
  CallbackTellsEnd
PROPERTIES
  FollowsLife
  StreamEnds
  EndReaches
\* The broadcast of a refused task only beats, and nothing is left to do
\* for a task that is over.
CHECK_DEADLOCK FALSE
