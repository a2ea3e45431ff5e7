----------------------------- MODULE MCAccounts -----------------------------
(* The symmetry of the small instances of Accounts.                          *)
EXTENDS Accounts, TLC

\* Addresses, passwords, sessions and tokens are interchangeable.
MCSymmetry ==
  Permutations(Emails) \cup Permutations(Passwords)
    \cup Permutations(Sessions) \cup Permutations(TokenIds)

=============================================================================
