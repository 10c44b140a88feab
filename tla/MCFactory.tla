----------------------------- MODULE MCFactory -----------------------------
(***************************************************************************)
(* Small instances of Factory for TLC.  No action or property tells one    *)
(* account, token or salt from another.                                    *)
(***************************************************************************)
EXTENDS Factory, TLC

CONSTANTS a1, a2, xlm, usdc, s1, s2

Accounts == {a1, a2}
Tokens == {xlm, usdc}
Salts == {s1, s2}

FeeArguments == {-1, 1, 2}

Symmetry ==
    Permutations(Accounts) \cup Permutations(Tokens) \cup Permutations(Salts)

=============================================================================
