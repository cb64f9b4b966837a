\* Everything that can go wrong may go wrong. Error_Handler stops the program.
CONSTANTS
  NUMBER_OF_DS18B20_SENSORS = 1
  HalFaults = TRUE
SPECIFICATION FairSpec
INVARIANTS TypeOK FreshOrInvalid NothingLeftBehind
PROPERTIES ServiceSpec MeasurementEnds Recovery
CHECK_DEADLOCK FALSE
