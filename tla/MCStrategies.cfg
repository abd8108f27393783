SPECIFICATION SafeSpec
CONSTANTS
  s1 = s1
  s2 = s2
  s3 = s3
  Unsaid = Unsaid
  Rules <- MCRules
  Stored <- MCStored
  Conditions <- MCConditions
  Wishes <- MCWishes
  MaxActions = 1
  Requests = {r1, r2}
  Events = {e1}
CHECK_DEADLOCK FALSE
INVARIANT TypeOK
INVARIANT EditsKept
INVARIANT NoRuleSkipped
