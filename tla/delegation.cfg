SPECIFICATION Spec
CONSTANTS
  First = "alice"
  StopWords = {"the"}
  None = None
  MaxEdits = 2
  MaxRequests = 2
  MaxSelects = 1
  MaxSwitches = 1
  MaxSends = 1
  MaxChanges = 1
  Principals <- MCPrincipals
  Agents <- MCAgents
  OwnerOf <- MCOwnerOf
  Resources <- MCResources
  Tags <- MCTags
  NameTerms <- MCNameTerms
  DescriptionTerms <- MCDescriptionTerms
  Texts <- MCTexts
  Seeded <- MCSeeded
INVARIANTS AdviceIsCurrent LoadingIsAwaited ChoiceIsExplicit NothingForeignIsOffered
CHECK_DEADLOCK FALSE
