SPECIFICATION FairSpec
CONSTANTS
  Key = {k1, k2}
  Db = {empty, d1}
  EmptyDb = empty
  Hint = {ours, theirs}
  OwnHint = ours
  NoFile = NoFile
  Torn = Torn
  NoItem = NoItem
  Alien = Alien
  Stray = Stray
  MaxFaults = 2
  View <- MCView
INVARIANTS
  TypeOK
  UsableSurvives
  ErrorRestores
  HonestInstall
  DoctorTellsTruth
PROPERTIES
  ConfigIsLast
  NoPasswordStranded
  RetryInstalls
