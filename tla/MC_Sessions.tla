---------------------------- MODULE MC_Sessions -----------------------------
(***************************************************************************)
(* Small instances of Sessions.                                            *)
(***************************************************************************)
EXTENDS Sessions, TLC

CONSTANTS c1, c2, u1, u2, la, lA, lb, blank, pw1, pw2

\* la and lA are two spellings of one login, blank is spaces.
SpellingOf == (la :> la) @@ (lA :> la) @@ (lb :> lb) @@ (blank :> Blank)

\* The second client that registers the login la gives another password.
SomeCredentials == {<<la, pw1>>, <<lA, pw2>>, <<lb, pw1>>, <<blank, pw1>>}

\* The first client may also send a token for either account that it did not get by logging
\* in, dated so late that the account is never looked up for it.
LateTokens == {[user |-> u, createdAt |-> MaxClock, validTill |-> MaxClock] : u \in Users}
TokensFromElsewhere == (c1 :> LateTokens) @@ (c2 :> {})

Symmetry == Permutations({u1, u2})
=============================================================================
