CONSTANTS
  MaxJobs = 3
  MaxSignals = 4
SPECIFICATION JobFairSpec
INVARIANTS OneInForeground BooksAreRight
PROPERTY PromptComesBack
