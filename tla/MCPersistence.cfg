SPECIFICATION Spec
CONSTANTS
  s1 = s1  s2 = s2  s3 = s3  s4 = s4
  t1 = t1  t3 = t3  t4 = t4
  Session = {s1, s2, s3, s4}
  Token = {t1, t3, t4}
  Ttl = {1, 3}
  MaxTtl = 3
  Nobody = Nobody
  TokenOf <- Tokens
  p1 = p1  p2 = p2  p3 = p3  p4 = p4
  a = a  b = b
  Proc = {p1, p2, p3, p4}
  Count = 3
  Sum = {a, b}
  NoSum = NoSum
  Last <- OldAndNew
  SumOf <- Edited
  Reader = {r1, r2}
  Legacy = {l1, l2}
  Instance = {i1, i2}
  None = None
INVARIANTS
  TypeOK
  UnexpiredLeaseIsHonoured
  OneBodyPerMigration
  AppliedHasBody
  DoneMeansApplied
  LeftoversAreRetried
  CanonicalIsTrue
  RecordsHaveMappings
PROPERTIES
  OnlyOwnerEndsLease
  ImplementsExclusiveLease
  WaiterGetsLease
  ImplementsSchemaLog
  ImplementsIdentityMap
CHECK_DEADLOCK FALSE
