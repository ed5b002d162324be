SPECIFICATION Spec
CONSTANTS
  d1 = d1
  d2 = d2
  k1 = k1
  g1 = g1
  b1 = b1
  submit1 = submit1
  submit2 = submit2
  sign1 = sign1
  sign2 = sign2
  again = again
  run1 = run1
  out1 = out1
  Backend = {"memory", "postgres"}
  Request <- MergeRequest
  KindOf <- MergeKindOf
  Device = {d1, d2}
  DeviceOf <- MergeDeviceOf
  Browser = {b1}
  BrowserOf <- OneBrowser
  KeyOf <- MergeKeyOf
  NoKey = NoKey
  Account = {g1}
  AccountOf <- MergeAccountOf
  StudentId = {st1, st2}
  NoStudent = NoStudent
  NoRequest = NoRequest
  Time = {1, 2}
  Never = Never
SYMMETRY MergeSymmetry
INVARIANTS
  StandingMatchesHistory
  OnlyLinkedDevicesCount
PROPERTIES
  PassNeverRegresses
  LinkKeepsBetter
