SPECIFICATION MCSpec
CONSTANTS
  Scripts <- MixedScripts
  ImageSets <- OneOrTwo
  MaxCompiled = 2
  MaxEvaluations = 2
  MaxCalls = 4
  Vocabulary = {"convert_to_gray", "mean", "diff", "resize_to"}
  PairVocabulary = {"mean", "diff"}
INVARIANTS TypeOK CompiledIsOwnScript ArgumentsReady
PROPERTIES ImplementsEvaluations EvaluationsEnd
CHECK_DEADLOCK FALSE
