SPECIFICATION BrowserSpec
CONSTANTS
  Catalogs <- MCCatalogs
  Queries <- MCQueries
  PageSize = 3
  MaxPage = 3
  MaxSnapshots = 2
INVARIANTS
  PagesCompose
  LinksAreAccepted
