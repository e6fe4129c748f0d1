SPECIFICATION Spec
CONSTANTS
  Junk = Junk
  Empty = Empty
  Garbled = Garbled
  None = None
  Remote = r
  Hook = h
  Api = {a1}
  PutLists <- MCTwoOnly
  RemoteLists <- MCLists
  Names = {"", "UHF", "DECT", "VHF"}
  Gains = {40}
  FirstList <- MCFirst
  DefaultList <- MCDefault
  FirstGain = 30
  MHz = 10
  MaxRequests = 2
  MaxFaults = 1
INVARIANTS
  FileCurrent
  CopiesCurrent
  EditsSurvive
  SomeoneGoesOn
CHECK_DEADLOCK FALSE
