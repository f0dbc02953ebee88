CONSTANTS
  Pushes = {TRUE, FALSE}
  QueueCap = 3
  MaxPress = 3
SPECIFICATION MCFairSpec
INVARIANTS  NoPhantom 
 
