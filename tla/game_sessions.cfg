CONSTANTS
  gm=gm ann=ann bob=bob a1=a1 g1=g1 p1=p1 p2=p2 q1=q1 q2=q2
  Users = {gm,ann}
  Admins = {gm}
  Addresses = {a1}
  Sessions = {g1}
  Passwords = {p1,p2}
  Requests = {q1,q2}
  PerUser = 1
  PerAddress = 2
  MaxHits = 3
  NoGame=NoGame NoPassword=NoPassword NoRequest=NoRequest
SPECIFICATION Spec
INVARIANTS RowsConsistent GuessesLimited
PROPERTIES RefusalsEarned PasswordsKept
SYMMETRY SymGames
