SPECIFICATION StartSpec
CONSTANTS
  Senders = {s1, s2}
  AlertIDs = {a1, a2}
  ExternalIDs = {x1}
  NoExternalID = NoExternalID
  EmptyExternalID = EmptyExternalID
  t1 = t1
  t2 = t2
  v1 = v1
  v2 = v2
  Contents = {t1, t2}
  InvalidContent = d0
  NoAlert = NoAlert
  NoRequest = NoRequest
  Versions = {v1, v2}
  TypeOf <- VersionTypes
  Calls = {k1}
  NoCall = NoCall
  NoData = NoData
  MaxFailures = 1
SYMMETRY Interchangeable
INVARIANTS
  OneAlertPerExternalID
  ReplyIsStored
  OfferedNeverRefused
  DuplicatesOnlyAfterFailure
