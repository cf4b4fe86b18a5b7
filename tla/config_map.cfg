SPECIFICATION FairSpec
CONSTANTS
  MaxVersions = 4
  QueueLimit = 2
  MaxRestarts = 0
  EditKinds = {"publish"}
PROPERTIES PublishedIsReloaded
CHECK_DEADLOCK FALSE
