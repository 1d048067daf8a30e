SPECIFICATION DialogueSpec
CONSTANTS
  Drafts <- MCDrafts
  Rewrites <- MCRewrites
  MaxSceneTurns = 2
  MaxSceneCharacters = 5
  MaxFragmentCharacters = 3
INVARIANTS
  RequestsSayTheText
  RequestsAreWithinLimits
  OnlyVerifiedTextIsPlanned
CHECK_DEADLOCK FALSE
