SPECIFICATION Spec
CONSTANTS
  Accounts = {2, 4}
  Others = {1}
  Groups = {7}
  Dialogs = {2}
  MaxPeers = 4
  MaxKeys = 1
  MaxEvents = 6
INVARIANT FaultsExplained
INVARIANT OneRowInUse
INVARIANT RosterStored
INVARIANT OwnIdIsOwn
INVARIANT KeyFiled
INVARIANT StaysInChat
PROPERTY OwnIdStays
CHECK_DEADLOCK FALSE
