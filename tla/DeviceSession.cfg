CONSTANTS
  Profile = {a}
  First = a
  NoDevice = NoDevice
  MaxAsked = 3
SPECIFICATION Spec
PROPERTIES SessionNoticed RevokedEnds UnlockingEnds
CHECK_DEADLOCK FALSE
