SPECIFICATION FairSpec
CONSTANTS
  QLength <- MCLength
  QStatic <- MCStatic
  ENTRY_SIZE = 1
  L = 12
  H3_NS = 2
  H3_UNI = 4
  UNI_CREDIT = 3
  H3_SET_MAX = 2
  H3_IDLE_MAX = 3
  H3_1XX_MAX = 2
  NREQ = 2
  NUNI = 4
  ROOM = 3
  Plans <- MCPlans
INVARIANTS VerdictIsRight RequestsConcluded RequestDecodes
PROPERTIES CallsReturn
