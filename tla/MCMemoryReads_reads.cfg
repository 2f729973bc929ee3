\* Three memories of two sources, two of them stored before, two writes, one call of a reader.
SPECIFICATION ReadsSpec
CONSTANTS
  Null = Null
  Memories <- MCMemories
  Messages <- MCMessages
  SourceOf <- MCSourceOf
  Levels <- MCLevels
  Tokens <- MCTokens
  Similarity <- MCSimilarity
  Lexical <- MCLexical
  CreatedAt <- MCCreatedAt
  Tags <- MCTags
  Given <- MCGiven
  Relations <- MCRelations
  Ends <- MCEnds
  MaxLinked = 2
  Hints <- MCHints
  Inferred <- MCInferred
  QueryEntities <- MCQueryEntities
  Policies <- MCPolicies
  PolicyLevel <- MCPolicyLevel
  Summary <- MCSummary
  MaxBudget = 5
  MaxTopK = 2
  MaxHops = 2
  AllowedLevels = {"private", "shared"}
  Settled <- MCSettled
  Patches <- MCPatches
  Requests <- MCRequests
  Queries <- MCQueries
  StoresFail = TRUE
  MaxWrites = 2
INVARIANTS AnswersTrue BudgetShared WalkConsistent EdgesMatchContributions
CHECK_DEADLOCK FALSE
