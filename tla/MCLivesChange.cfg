SPECIFICATION LivesSpec
CONSTANTS
  Half = 4
  ModCount = 3
  Amount = {0, 1, 3}
  Proposal <- ProposalSample
  NoAnswer = NoAnswer
INVARIANTS
  DecisionFollowsAnswers
  StoredAsDecided
