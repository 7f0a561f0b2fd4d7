\* The first page of a new member sends two requests at once.
SPECIFICATION Spec
CONSTANTS
  Emails = {"ann", "bob", "dev"}
  Subjects = {"s1", "s2"}
  Principals <- MCPrincipals
  Requests = {r1, r2}
  DevEmail = "dev"
  None = None
  MaxStarts = 1
  MaxLogins = 2
INVARIANT
  RefusedOnlyWhenForeign
CHECK_DEADLOCK FALSE
