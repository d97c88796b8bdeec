\* One setting at a time contested by the four sources, over several starts.
SPECIFICATION Spec
CONSTANTS
  Absent = Absent
  Empty = Empty
  Key = Key
  OwnToken = OwnToken
  None = None
  Torn = Torn
  Offerings <- MCOfferings
  Revisions <- MCRevisions
  ClientMax = 2
INVARIANTS TypeOK Precedence SameIdentity
PROPERTY IdentityKept
