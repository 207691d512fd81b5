SPECIFICATION AssessmentSpec
CONSTANTS
  ImgSize = 8
  Conf = 2
  Iou = 5
  Classes = 2
  CaseSamples <- Cases
  BenchSamples <- Benches
CHECK_DEADLOCK FALSE
INVARIANTS DetectionsAreSound RiskIsSound SpeechIsWhole ExplanationIsGrounded EvaluationIsHonest
