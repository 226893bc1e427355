CONSTANTS
  a=a b=b u1=u1 u2=u2 r1=r1 r2=r2
  Requests = {r1,r2}
  Keys = {a,b}
  Urls = {u1,u2}
  ReadmeUrls = {u1}
  Registries <- Published
  CacheAge = 2
  FetchAge = 1
  List = List Absent = Absent NoReadme = NoReadme NoCopy = NoCopy NoRequest = NoRequest NoKey = NoKey
SPECIFICATION PageSpec
INVARIANTS PageTypeOK ServedRecent ReadmeOfItsUrl ReadmeOfTheAddon LoadingAwaitsAnAnswer
SYMMETRY SymRequests
