\* A driver that found no sensor, or whose search was not answered, does nothing more.
CONSTANTS
  NUMBER_OF_DS18B20_SENSORS = 3
  MAX_DEVICE_ID_BITS = 4
  MaxSensors = 4
  MaxNoise = 1
SPECIFICATION FairSpec
INVARIANTS TypeOK SearchExact CodesReal OwnReading
PROPERTY SearchEnds
CHECK_DEADLOCK FALSE
