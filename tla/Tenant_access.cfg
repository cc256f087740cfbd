SPECIFICATION Spec
CONSTANTS
  alice = alice
  bob = bob
  staff = staff
  letter = letter
  r1 = r1
  r2 = r2
  NoOne = NoOne
  Principals = {alice, bob}
  Founder = alice
  Groups = {staff}
  Invitations = {letter}
  Invitee <- ToBob
  Operations = {"assign", "update", "accept", "recover", "group", "link", "role", "issue", "revoke", "newgroup", "transition"}
  Requests = {r1, r2}
  MaxRequests = 2
  Lags = {0, 3}
INVARIANTS TypeOK EpochGuards ChainVerifies LastAdminGuarded
PROPERTY InvitationSingleUse
CHECK_DEADLOCK FALSE
