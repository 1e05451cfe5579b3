SPECIFICATION Spec
CONSTANTS
  Name = {n1}
  Value = {v}
  NoValue = NoValue
  Absent = Absent
  Replica = {r1, r2}
  MaxRequests = 3
  MaxRv = 1
  MaxRestarts = 1
SYMMETRY Interchangeable
INVARIANTS
  StoresFollowTheLog
  AnswersAreTrue
  NoMissedOutcome
  MailboxesMatchRequests
CHECK_DEADLOCK FALSE
