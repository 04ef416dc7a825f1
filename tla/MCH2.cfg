SPECIFICATION FairSpec
CONSTANTS
  Length <- MCLength
  Static <- MCStatic
  TABLE = 8
  ENTRY_HDR = 1
  ENTRY_SIZE = 2
  TABLE0 = 8
  MAX_LIST = 12
  N = 2
  W = 4
  WIN0 = 6
  MAXWIN = 12
  TX = 12
  RESERVE = 4
  IDLE_MAX = 4
  CONT_MAX = 2
  N1XX_MAX = 2
  MAX_ID = 5
  Plans <- MCPlans
INVARIANTS CreditConserved NeverStarved EndIsWhole RequestsConcluded WireLegal TableInSync
PROPERTIES CallsReturn
