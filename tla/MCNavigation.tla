---------------------------- MODULE MCNavigation ----------------------------
(* Navigation for TLC: five routes, of which item's destination begins as     *)
(* list's; the guard of secret leads to list, that of vault to secret.        *)
EXTENDS Navigation

CONSTANTS home, list, item, secret, vault

MCRedirect ==
  [route \in Routes |-> CASE route = secret -> list [] route = vault -> secret [] OTHER -> None]
MCRoot == [route \in Routes |-> IF route = item THEN list ELSE route]
=============================================================================
