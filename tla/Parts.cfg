\* Each component that runs on its own, one behaviour each.
SPECIFICATION PartsSpec
CONSTANTS
  None = None
  Run <- TwoRuns
  PublicStages <- TwoStages
  MaxCallbacks = 6
INVARIANTS EndingIsLast NumbersWithoutGap StagesInTurn VerdictIsEarned StaysLoggedIn QuestionsFitAnswers
  LawsAreReady RulesBindTheModel NothingGoesMissing RecordsAreTrue
PROPERTIES ContractSpec UnchallengedFindingsStay EveryPipelineEnds 
\* A run ends.
CHECK_DEADLOCK FALSE
