SPECIFICATION Spec
CONSTANTS
  Sessions = {s1, s2}
  FirstOne = s1
  Contents = {"hi"}
  MaxMessages = 2
  MaxClicks = 2
  MaxPolls = 2
INVARIANT
  TranscriptFaithful
PROPERTY
  PageCatchesUp
