CONSTANTS
  AttemptTimes <- AllTimes
  Outcomes <- Windows
SPECIFICATION ScheduleFairSpec
INVARIANT ScheduleTypeOK
PROPERTIES
  MTUNeverGrows
  GivesUpUnlessTooLong
