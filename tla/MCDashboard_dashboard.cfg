CONSTANTS
  Callers = {"ticker", "client"}
  Ticker = "ticker"
  NoCaller = NoCaller
  NoSnapshot = NoSnapshot
  Asker = "client"
  Questions <- FewQuestions
  PageLimit = 1
  Passes = {"client"}
  NoRequest = NoRequest
  NoData = NoData
  MaxMore = 3
  MaxLimit = 2
  MaxRows = 1
  MaxFaults = 1
SPECIFICATION Spec
CHECK_DEADLOCK FALSE
INVARIANTS ShownAnswersQuestion EmptyIsKnown OneTimer LinksLeadSomewhere
PROPERTIES RowIsPublished RowReachesPage
