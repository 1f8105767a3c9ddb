--------------------------- MODULE ConsoleAccounts ---------------------------
(***************************************************************************)
(* The accounts that the console's modules speak of.                       *)
(***************************************************************************)
CONSTANTS
  Wallets,  \* the accounts of the wallet extension
  None      \* no account; also nothing chosen, or an unused slot

ASSUME AccountsAssumption == None \notin Wallets
=============================================================================
