SPECIFICATION Spec
CONSTANTS
  Evidence = {e1}
  Invented = fake
  Stances = {"pro_a", "pro_b"}
  MaxIterations = 2
  StanceRetries = 1
  NoveltyRetries = 1
  RebuttalRetries = 1
  StartBeliefs = {50}
  MaxSpeeches = 2
INVARIANTS TypeOK RebuttalHonoured StanceHonoured StreamedNeverLost CallsBounded
PROPERTY SpeechEnds
CHECK_DEADLOCK FALSE
