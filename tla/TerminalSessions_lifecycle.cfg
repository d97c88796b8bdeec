\* Requests, errors and a shutdown at any moment, during which no request is
\* served; termination of sessions and of the agent.
SPECIFICATION FairSpec
CONSTANTS
  s1 = s1
  s2 = s2
  s3 = s3
  Session <- ThreeSessions
  NoSession = NoSession
  MaxSessions = 2
  QuietShutdown = TRUE
INVARIANTS TypeOK RegistrySound JoinedBeforeFreed
PROPERTIES ImplementsPool ShutdownCompletes ClosedIsReleased
