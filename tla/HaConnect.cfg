\* The constants of the code (pb_7100_ur.c:96-99, 162, 203).
CONSTANTS
  Primary = Primary
  Secondary = Secondary
  HB_SEND_INTVL = 1
  HB_TIMEOUT = 5
  HB_STABLE_COUNT = 3
  HB_DATA_TIMEOUT = 5
  TCP_RETRY_INTVL = 5
  ConnectLimit = 2
  MaxFaults = 0
SPECIFICATION Spec
PROPERTY SilentPeerIsSurvived
