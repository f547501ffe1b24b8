SPECIFICATION Spec
CONSTANTS
  Texts = {"rust"}
  Tags = {"x", "y"}
  Links <- PlainAndShared
  PagesOf <- PagesOfScope
  MaxHistory = 3
  MaxFailures = 1
  Null = Null
INVARIANTS
  UrlIsState
  ResultsOfSearch
  ListOfFilter
  PageOfScope
