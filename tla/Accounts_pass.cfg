\* Two servers' lives, two requests in flight, one e-mail that rotates.
SPECIFICATION Spec
CONSTANTS
  Emails = {"ann", "bob", "dev"}
  Subjects = {"s1", "s2"}
  Principals <- MCPrincipals
  Requests = {r1, r2}
  DevEmail = "dev"
  None = None
  MaxStarts = 2
  MaxLogins = 3
INVARIANTS
  SubjectOneRow
  StarterNotEmpty
PROPERTY
  LinkStable
CHECK_DEADLOCK FALSE
