SPECIFICATION Spec
CONSTANTS
  d1 = d1
  d2 = d2
  k1 = k1
  g1 = g1
  b1 = b1
  submit1 = submit1
  submit2 = submit2
  sign1 = sign1
  sign2 = sign2
  again = again
  run1 = run1
  out1 = out1
  Backend = {"postgres"}
  Request <- RetryRequest
  KindOf <- RetryKindOf
  Device = {d1}
  DeviceOf <- RetryDeviceOf
  Browser = {b1}
  BrowserOf <- OneBrowser
  KeyOf <- RetryKeyOf
  NoKey = NoKey
  Account = {g1}
  AccountOf <- RetryAccountOf
  StudentId = {st1}
  NoStudent = NoStudent
  NoRequest = NoRequest
  Time = {1}
  Never = Never
INVARIANTS
  ToldPassIsRecorded
