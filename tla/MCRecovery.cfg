\* Four small logs, each with crashes at any point, also in the middle of a recovery.
SPECIFICATION Spec
INVARIANTS
  RecoversOneMoment
  RecoveryIsSound
PROPERTIES
  StableIsRecovered
CHECK_DEADLOCK FALSE
