SPECIFICATION Spec
CONSTANTS
  syslog = syslog
  auth = auth
  Logs = {syslog, auth}
  None = None
  MaxLines = 3
  MaxReads = 2
  Dates <- MCDates
INVARIANTS   NoLineLost DaysPointAtTheirLines ViewIsCache
PROPERTY FollowsLog
