SPECIFICATION Spec
CONSTANTS
  alice = alice
  bob = bob
  staff = staff
  letter = letter
  r1 = r1
  r2 = r2
  NoOne = NoOne
  Principals = {alice, bob}
  Founder = alice
  Groups = {staff}
  Invitations = {letter}
  Invitee <- ToBob
  Operations = {"update"}
  Requests = {r1, r2}
  MaxRequests = 2
  Lags = {0}
INVARIANT AdminRemains
CHECK_DEADLOCK FALSE
