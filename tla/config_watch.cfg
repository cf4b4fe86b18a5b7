SPECIFICATION FairSpec
CONSTANTS
  MaxVersions = 4
  QueueLimit = 2
  MaxRestarts = 1
  EditKinds = {"write", "rename", "publish"}
INVARIANTS NothingForgotten
PROPERTIES ImplementsRegister
CHECK_DEADLOCK FALSE
