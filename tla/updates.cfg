SPECIFICATION FairSpec
CONSTANTS
  Nil = Nil
  Unused = Unused
  Gone = Gone
  d1 = d1
  d2 = d2
  rsaUser = rsaUser
  rsaAcm = rsaAcm
  optOn = optOn
  optOff = optOff
  v1 = v1
  v2 = v2
  CertIds <- Arns3
  DomainNames = {d1, d2}
  KeyAlgorithms = {rsaUser, rsaAcm}
  Underscored <- MCUnderscored
  OptionValues = {optOn, optOff}
  TagKeys <- MCTagKeys
  TagValues = {v1, v2}
  AwsTagKeys <- MCAwsTagKeys
  DefaultTags <- MCDefaultTags
  InitSpecs <- UpdateSpecs
  InitAcm <- EmptyAcm
  Edits <- UpdateEdits
  SecretCreated = {TRUE}
  DefaultKeyAlgorithm = rsaAcm
  DefaultOptions = optOn
  ImportedOptions = optOff
  ImportedName = d1
  TagLimit = 2
  AcmSpelling <- MCAcmSpelling
  Failures <- AnyFailure
  LostReplies = {}
  Limits <- UpdateLimits
PROPERTIES
  AwsTagsLeftAlone
  SyncedTagsAreDesired
  ProvidedFieldsKept
  TagsConverge
  OptionsConverge
