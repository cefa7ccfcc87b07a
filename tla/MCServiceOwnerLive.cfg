SPECIFICATION FairSpec
CONSTANTS
  Calls = {c1, c2}
  NoCall = NoCall
  Ids = {i1, i2}
  Bodies = {retry}
  Drops = {}
  NoBody = NoBody
  MaxStarts = 1
PROPERTIES
  CommandTaken
  EveryCallAnswered
  ServiceStops
CHECK_DEADLOCK FALSE
