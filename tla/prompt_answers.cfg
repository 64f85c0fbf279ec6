SPECIFICATION FairSpec
CONSTANTS
  alpha = alpha
  beta = beta
  Yes = Yes
  No = No
  Commands <- AllCommands
  Words <- AllWords
  Lines <- WordsAndPhrases
  Terminals = {TRUE, FALSE}
CHECK_DEADLOCK FALSE
INVARIANTS TypeOK PasswordsAsTyped AnsweredRuns
PROPERTY EveryCommandDecides
