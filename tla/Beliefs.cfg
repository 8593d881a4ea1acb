SPECIFICATION Spec
CONSTANTS
  Modes = {2}
  SpeechStep = 30
  MaxEvidence = 1
  MaxRepeats = 1
  MaxFaults = 1
  Ratings <- MCRatings
  Scores <- MCScores
  Rulings <- MCRulings
INVARIANT DeliberationSound
CHECK_DEADLOCK FALSE
