SPECIFICATION HeartbeatSpec
CONSTANTS
  MinCount = 5
  MaxOpen = 3
  MaxCount = 10
PROPERTY AlarmHasCause HeardAgain
