SPECIFICATION FairSpec
CONSTANTS
  Nil = Nil
  Unused = Unused
  Gone = Gone
  d1 = d1
  d2 = d2
  rsaUser = rsaUser
  rsaAcm = rsaAcm
  optOn = optOn
  optOff = optOff
  v1 = v1
  v2 = v2
  CertIds <- Arns1
  DomainNames = {d1, d2}
  KeyAlgorithms = {rsaUser, rsaAcm}
  Underscored <- MCUnderscored
  OptionValues = {optOn, optOff}
  TagKeys <- NoTagKeys
  TagValues = {v1, v2}
  AwsTagKeys <- NoAwsTagKeys
  DefaultTags <- NoDefaultTags
  InitSpecs <- ExportSpecs
  InitAcm <- EmptyAcm
  Edits <- NoEdits
  SecretCreated = {TRUE}
  DefaultKeyAlgorithm = rsaAcm
  DefaultOptions = optOn
  ImportedOptions = optOff
  ImportedName = d1
  TagLimit = 2
  AcmSpelling <- MCAcmSpelling
  Failures <- NoFailures
  LostReplies = {}
  Limits <- Nothing
PROPERTIES
  IssuedIsExported
