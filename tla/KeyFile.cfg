\* One robot, two keys to pass and three to generate.
SPECIFICATION Spec
CONSTANTS
  GivenKey = {given1, given2}
  NewKey = {new1, new2, new3}
  NoKey = NoKey
INVARIANT TypeOK
INVARIANT IdentityKept
\* The keys to generate are used up.
CHECK_DEADLOCK FALSE
