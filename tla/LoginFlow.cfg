CONSTANTS
  t1 = t1
  t2 = t2
  alice = alice
  bob = bob
  crowd = crowd
  Tabs <- MCTabs
  Pages = {"/", "/?p=docs"}
  Foreign = {"elsewhere"}
  Root = "/"
  Identities = {alice, crowd}
  Oversized = {crowd}
  NoOne = NoOne
  NoCookie = NoCookie
  Redeemed = Redeemed
  SessionMaxAge = 2
  LoginMaxAge = 1
  MaxLogins = 2
  MaxTime = 2
  MaxRestarts = 1
SPECIFICATION Spec
INVARIANTS TypeOK SessionsAreLogged
PROPERTIES KeepsPromise RefusedForAReason SpentWithItsCookie RestartKeepsSessions LogoutEnds
SYMMETRY MCSymmetry
CHECK_DEADLOCK FALSE
