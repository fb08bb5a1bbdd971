\* The constants of pb_7100_ur.c:96-99, 162 and 203, with HB_DATA_TIMEOUT and
\* TCP_RETRY_INTVL 3 instead of 5.
CONSTANTS
  Primary = Primary
  Secondary = Secondary
  HB_SEND_INTVL = 1
  HB_TIMEOUT = 5
  HB_STABLE_COUNT = 3
  HB_DATA_TIMEOUT = 3
  TCP_RETRY_INTVL = 3
  ConnectLimit = 2
  MaxFaults = 1
SPECIFICATION Spec
INVARIANT OutageBounded
PROPERTIES LivePrimaryBeats SplitBrainEnds
