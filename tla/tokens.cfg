CONSTANTS
  c1=c1 c2=c2 t1=t1 t2=t2 t3=t3 t4=t4 ann=ann bob=bob
  Users = {ann}
  Clients = {c1}
  TokenIds = {t1,t2,t3}
  MaxLogouts = 1
  MaxAsking = 2
  NoToken=NoToken NoUser=NoUser NoRow=NoRow
SPECIFICATION Spec
INVARIANTS OneLivePerLogin LogoutEndsLogins ResetEndsOldLogins
PROPERTIES CookieStaysLive
SYMMETRY SymTokens
