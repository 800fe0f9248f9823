SPECIFICATION NavSpec
CONSTANTS
  home = home
  list = list
  item = item
  secret = secret
  vault = vault
  None = None
  Routes = {home, list, item, secret, vault}
  Start = home
  Redirect <- MCRedirect
  Root <- MCRoot
  MaxOps = 6
INVARIANT NavSettles
CHECK_DEADLOCK FALSE
