SPECIFICATION FairSpec
CONSTANTS
  NumCerts = 2
  MaxAuths = 2
  RetryLimits = {0, 1}
  Servers = {"orderly", "any"}
INVARIANTS OneOperation FreshNonce EveryDueCertTried
PROPERTIES CertificateEarned RenewedEventually
CHECK_DEADLOCK FALSE
