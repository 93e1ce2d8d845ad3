\* Parallel uploads against a limit of one active task, or keys that are replaced and revoked.
CONSTANTS
  u1 = u1
  u2 = u2
  u3 = u3
  Uploads <- Three
  Quota = 2
  MaxActive = 1
  MaxParallel = 2
  MaxKeys = 2
  Bounds <- Either
SPECIFICATION Spec
INVARIANTS TypeOK QuotaConserved ActiveWithinLimit AllOrNothing PreflightAsked VerifiedIsAccepted
\* Uploads are finite in number: when the last one is settled nothing may be left to do.
CHECK_DEADLOCK FALSE
