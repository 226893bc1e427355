CONSTANTS
  root=root u1=u1 c1=c1 c2=c2
  Accounts = {root,u1}
  Root = root
  Keys = {}
  Limits = {}
  Unlimited = Unlimited
  InvitationRequired = TRUE
  NoInvite = NoInvite
  Visitors = {root}
  Calls = {c1,c2}
  NoCall = NoCall NoClaim = NoClaim
SPECIFICATION PageSpec
INVARIANTS PageTypeOK OwnChangesRead TogglesAsNamed LoggedOutForGood
SYMMETRY SymCalls
