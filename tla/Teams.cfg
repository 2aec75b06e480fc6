SPECIFICATION FairSpec
CONSTANTS
  Agent = {t1, t2, w1}
  Teammate = {t1, t2}
  PathIsText = TRUE
  Window = 2
  MaxSends = 1
INVARIANTS
  MailConserved
  DeletedTeamIsSilent
PROPERTIES
  ReportsTrueOutcome
  EveryTaskReported
CHECK_DEADLOCK FALSE
