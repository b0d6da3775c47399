\* Every chain of up to three steps with references in braces, of two in any form.
CONSTANTS
  a = a
  b = b
  field = field
  absent = absent
  None = None
  Names <- TwoNames
  Fields <- TwoFields
  Given <- OneField
  Chains <- AllChains
SPECIFICATION FairSpec
INVARIANTS Barrier NoStragglers LikeSequential
PROPERTIES Returns
CHECK_DEADLOCK FALSE
