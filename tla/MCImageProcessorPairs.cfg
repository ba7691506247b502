SPECIFICATION MCSpec
CONSTANTS
  Scripts <- PairScripts
  ImageSets <- Two
  MaxCompiled = 1
  MaxEvaluations = 1
  MaxCalls = 4
  Vocabulary = {"mean"}
  PairVocabulary = {"mean", "diff"}
INVARIANT PairIsProcessed
CHECK_DEADLOCK FALSE
