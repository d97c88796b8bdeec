\* A finished session before a free slot.
SPECIFICATION Spec
CONSTANTS
  s1 = s1
  s2 = s2
  s3 = s3
  Session <- ThreeSessions
  NoSession = NoSession
  MaxSessions = 2
  QuietShutdown = TRUE
INVARIANT NoUseAfterFree
