SPECIFICATION Spec
CONSTANTS
  None = None
  Unknown = Unknown
  Rigs <- MCRigs
  PoolModels <- MCPoolModels
  Runs <- MCRuns
  Gpus <- MCGpus
  Models <- MCModels
  Quants <- MCQuants
  Runtimes <- MCRuntimes
  Entries <- MCEntries
  Questions <- MCFailing
  TextEngines = {"llama_cpp", "vllm"}
  TextIntents = {"chat", "vision"}
  MaxMatches = 5
  MaxGpuCount = 2
INVARIANT AnswersNeverFail
