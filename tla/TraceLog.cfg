SPECIFICATION processData
CONSTANT
  Logs <- MCLogs
INVARIANTS
  PhasesTile
  VerdictRight
  CallsTrue
  TimesTrue
  CallsNest
