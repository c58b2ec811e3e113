CONSTANTS
  DHCP_RETRY_COUNT = 2
  MaxTokens = 3
SPECIFICATION Spec
INVARIANTS TypeOK NoLostStart GivesUpLate
PROPERTIES LinkGetsDhcp ServerFollowsFlag LeaseIsServed
