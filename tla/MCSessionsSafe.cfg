\* Two browsers, two sign-ins, one callback after the other, everything failing.
SPECIFICATION Spec
CONSTANTS
  admin = admin
  student = student
  successor = successor
  outsider = outsider
  Accounts = {admin, student, outsider}
  EmailOf <- MCEmailOf
  Hosted = {admin, student}
  CollegeEmails = {admin, student, outsider}
  Seeded = {admin}
  Browsers = {b1, b2}
  Logins = {l1, l2}
  Calls = {c1}
  Nobody = nobody
  TTL = 2
  Slack = 1
  Faults = {"db", "google", "net"}
SYMMETRY SlotSymmetry
INVARIANT SessionInv
INVARIANT SessionsAreConsented
INVARIANT SessionsAreUsers
INVARIANT BanStopsLogin
INVARIANT AdminTokensAge
INVARIANT BannedOutInTime
PROPERTY ImplementsAdmission
