SPECIFICATION MCSpec
CONSTANTS
  c1 = c1
  c2 = c2
  c3 = c3
  stray = stray
  source = source
  invented = invented
  allowed = allowed
  banned = banned
  title1 = title1
  title2 = title2
  NotList = NotList
  Unparsed = Unparsed
  Size = 4
  Titles = {title1, title2}
  MaxTruths = 2
  MaxMatches = 2
  num_candidates = 3
  positive_candidates = 1
  hard_negatives = 3
  Id <- MCId
  Candidates <- MCCandidates
  Positives <- MCPositives
  Evidence <- MCEvidence
  Sources <- MCEvidence
  Claims <- MCClaims
  Parsed <- MCParsed
  Discount <- MCDiscount
  K = 2
  MaxItems = 3
  BaselineCorrect = 150
  BaselineUnfaithful = 150
  HybridWeight = 30
INVARIANTS
  OutcomesAgree
  FaithfulMeans
  PaidInOrder
  RightlyLabelled
CHECK_DEADLOCK FALSE
