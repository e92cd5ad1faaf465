CONSTANTS
  Validity = 3
  RenewBefore = 2
  LoadMin = 1
  MaxRecords = 2
  Configs <- MCConfigs
SPECIFICATION FairSpec
INVARIANTS TypeOK ChallengeStands MarginKept HttpsServed DiskBacksMemory
PROPERTY RenewalRecovers
