CONSTANTS
  MetadataRefreshInterval = 7
  OnDemandMetadataRefreshInterval = 1
  MaxDuration = 7
  MaxFetch = 3
SPECIFICATION RFairSpec
PROPERTIES
  OnDemandPaced
  OwedIsServed
  CloseTerminates
CHECK_DEADLOCK FALSE
