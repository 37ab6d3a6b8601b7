CONSTANTS
  Original = original
  Validated = validated
  Contents = {original, validated, edited}
  Absent = Absent
  MaxForeign = 4
SPECIFICATION FairSpec
INVARIANTS TypeOK ResultIsHonest RemoteEvidenceIsTrue VerifiedIsExact
PROPERTIES PublicationEnds ImplementsPublish
CHECK_DEADLOCK FALSE
