\* Two operators get, apply and recover plans while a third one edits.
SPECIFICATION FairChannelSpec
CONSTANTS
  o1 = o1
  o2 = o2
  old = old
  new = new
  broadcast = broadcast
  Operators = {o1, o2}
  Plans = {old, new}
  None = None
  Channels = {"env", "_"}
  Chan <- MCChan
  Seq <- MCSeq
  Requires <- MCRequires
  MaxEdits = 1
  MaxFaults = 1
CHECK_DEADLOCK FALSE

  
PROPERTIES
  AppliedInOrder
  ApplyingSettles
