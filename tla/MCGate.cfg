SPECIFICATION Spec
CONSTANTS
  p1 = p1
  p2 = p2
  phone = phone
  laptop = laptop
  school = school
  asha = asha
  Press = {p1, p2}
  Device = {phone, laptop}
  Address = {school}
  DeviceOf <- PressDevice
  AddressOf <- PressAddress
  Owner = {asha, phone, laptop}
  OwnerOf <- DeviceOwner
  Student = {asha}
  RunsPerMinute = 2
  IPRunsPerMinute = 2
  RunsPerDayAnon = 1
  RunsPerDaySignedIn = 3
  Second = 2
  Window = 3
  DayLength = 4
  MaxBuckets = 1
  MaxRetries = 2
  Backoff <- BackoffTicks
  MaxTime = 5
INVARIANTS
  TypeOK
  WindowLimit
  NoStaleBuckets
  DailyLimit
  DayRefusalEarned
  ToldEnough
