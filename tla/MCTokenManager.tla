---------------------------- MODULE MCTokenManager ----------------------------
(* The instances of TokenManager that TLC checks.                              *)
EXTENDS TokenManager, TLC

CONSTANTS r1, r2

TwoRenewals == {r1, r2}
\* Responses with and without a refresh token (offline_access), and of scopes
\* without openid.
LoginAnswers == {{"idToken", "accessToken", "refreshToken"},
                 {"idToken", "accessToken"}, {"accessToken"}}
Symmetry == Permutations(Renewals)
===============================================================================
