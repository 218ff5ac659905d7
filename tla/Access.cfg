\* Small instances of the components that decide who may do what.
SPECIFICATION AccessSpec
CONSTANTS
  OrgUsers = {u1, u2}
  Founder = u1
  Guest = u2
  Admin = Admin
  Member = Member
  CustomRoles = {r}
  NoRole = NoRole
  Perms = {x}
  OrgRequests = {p1, p2}
  NoRequest = NoRequest
  MaxInvites = 2
  MaxWrites = 5
  AuthRequests = {p1, p2}
  NoAuthRequest = NoAuthRequest
  MaxMutations = 1
  Actions = {"read", "update"}
  Subjects = {"User"}
  MaxPerms = 2
  MaxScopes = 2
  AcctRequests = {p1, p2}
  MailTokens = {"t1", "t2"}
  SessionIds = {"s1", "s2"}
  MaxPasswords = 3
  Browsers = {b1, b2}
  Flows = {f1, f2}
  OaRequests = {p1, p2}
  Identities = {i}
  OaEmails = {"e", "f"}
  NoFlow = NoFlow
  MaxUsers = 2
  MaxOaSessions = 2
  People = {u1, u2}
  FirstAdmin = u1
  SrRequests = {p1, p2}
  NoRequestSr = NoRequestSr
  MaxChanges = 3
  NrRequests = {p1, p2}
  NrNames = {"a", "b"}
  OrgRows = {1, 2, 3}
  HomeOrg = 1
  RoleRows = {1, 2}
  MaxFaults = 2
SYMMETRY RequestSymmetry
VIEW MovingState
INVARIANTS AccessTypesOK AuthorizationIsSound KeyIsOwnerWithinScopes ResetTokenOnce AdminsAndAudit RacesAreSettled
PROPERTIES OrganizationIsSound
CHECK_DEADLOCK FALSE
