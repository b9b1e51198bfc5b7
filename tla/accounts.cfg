CONSTANTS
  Slots = {s1, s2}
  Emails = {"ann", "bob", "cyd"}
  Tenants <- OneTenant
  None = None
  MaxAttempts = 2
  Window = 1
  Life <- Lives
  Rows <- Established
  Tokens <- Circulating
  Fails = 1
  MaxTime = 4
  MaxRequests = 3
  MaxFaults = 1
SYMMETRY SlotSymmetry
SPECIFICATION Spec
INVARIANTS TokensSound LockoutSound 
PROPERTIES LastAdmin
