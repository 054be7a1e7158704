SPECIFICATION Spec
CONSTANTS
  Sessions = {s1, s2}
  FirstOne = s1
  Contents = {"hi", "again"}
  MaxMessages = 2
  MaxClicks = 3
  MaxPolls = 1
INVARIANTS
  TypeOK
  BubbleIsOnItsWay
