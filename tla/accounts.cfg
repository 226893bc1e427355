CONSTANTS
  root=root u1=u1 u2=u2 u3=u3 i1=i1 i2=i2
  Accounts = {root,u1,u2,u3}
  Root = root
  Keys = {i1}
  Unlimited = Unlimited
  Limits = {2}
  InvitationRequired = TRUE
  NoInvite = NoInvite
SPECIFICATION Spec
INVARIANTS LimitKept InviteHasCreator UsedAsShown
PROPERTIES LastAdminLostOnlyToStaleClaim
SYMMETRY SymAccounts
