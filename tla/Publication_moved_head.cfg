CONSTANTS
  Original = original
  Validated = validated
  Contents = {original, validated, edited}
  Absent = Absent
  MaxForeign = 2
SPECIFICATION Spec
INVARIANTS VerifiedIsAlwaysExact
CHECK_DEADLOCK FALSE
