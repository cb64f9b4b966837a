\* A behaviour is one call, after which nothing is left to do.
CONSTANTS
  Scratchpads <- MCScratchpads
  Calibrations <- MCCalibrations
  MaxText = 6
  MaxDigits = 4
  HTTP_MAX_RESPONSE_LEN = 1024
  LAN8742_MAX_DEV_ADDR = 3
SPECIFICATION Spec
INVARIANT ConversionsExact
CHECK_DEADLOCK FALSE
