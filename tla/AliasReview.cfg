SPECIFICATION Spec
CONSTANTS
  Symbols = {1, 2, 3}
  Files = {1, 2, 3}
  Versions = {1, 2}
  Headers <- MCHeaders
  Local = {3}
  Name <- MCName
  FileOf <- MCFileOf
  Declares <- MCDeclares
  Mentions <- MCMentions
  Confidence <- MCConfidence
  Queues <- MCQueues
  Legacy <- MCLegacy
  Keep = 2
  MaxEdits = 1
  MaxReviews = 1
  MaxBulks = 1
  MaxPasses = 1
  MaxFaults = 1
INVARIANTS AliasesAreInjective StaleAliasesAreSettled MirrorShowsTheStore DecisionsAreInForce
PROPERTIES GroupsKeepOneAlias VerdictsStand
