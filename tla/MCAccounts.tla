----------------------------- MODULE MCAccounts -----------------------------
(* One user with two sessions and four requests at once; the appearances    *)
(* are the default and another one.                                          *)
EXTENDS Accounts, TLC
CONSTANTS u1, t1, t2, h1, h2, h3, h4, plain, fancy

MCSymmetry == Permutations({h1, h2, h3, h4}) \cup Permutations({t1, t2})
==============================================================================
