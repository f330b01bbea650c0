-------------------------------- MODULE DPoPKeys --------------------------------
(* The key pairs of DPoP: they are made and found by the requests for tokens    *)
(* (lib/oidc/exchangeCodeForTokens.ts, renewTokensWithRefresh.ts,               *)
(* endpoints/token.ts), kept in IndexedDB (dpop.ts), and deleted when tokens    *)
(* are revoked, by signOut() and by clearDPoPStorage() (lib/oidc/mixin).        *)
(*                                                                              *)
(* A token is the number of the key pair it is bound to, 0 is none.             *)
EXTENDS Naturals

CONSTANTS Calls,
          MaxPairs \* bound: key pairs made

VARIABLES access,  \* the access token in the storage
          refresh, \* the refresh token
          pairs,   \* the pairs in IndexedDB
          made,    \* pairs made so far
          call,    \* per call for tokens, its state
          deleting, \* pairs that IndexedDB is asked to delete after a revocation
          leaving, \* the state of signOut()
          excused  \* history: pairs deleted under a call that uses them, or with
                   \* tokens that stay, by signOut() and clearDPoPStorage()

tokens == <<access, refresh>>
keyVars == <<tokens, pairs, made, call, deleting, leaving, excused>>

Pairs == 0 .. MaxPairs
NoCall == [stage |-> "none", renews |-> FALSE, pair |-> 0, nonce |-> FALSE]
Here == [stage |-> "none", pair |-> 0]

TypeOK == /\ {access, refresh, made} \subseteq Pairs
          /\ pairs \subseteq 1 .. made
          /\ call \in [Calls -> [stage : {"none", "finding", "asking"},
                                 renews : BOOLEAN, pair : Pairs,
                                 nonce : BOOLEAN]] \* the proof has a nonce
          /\ leaving \in [stage : {"none", "revoking", "closing"}, pair : Pairs]
          /\ deleting \subseteq 1 .. made
          /\ excused \subseteq 1 .. made

Init == /\ access = 0
        /\ refresh = 0
        /\ pairs = {}
        /\ made = 0
        /\ call = [c \in Calls |-> NoCall]
        /\ deleting = {}
        /\ leaving = Here
        /\ excused = {}

\* dpopPairId of the tokens.
BoundTo == IF access # 0 THEN access ELSE refresh

\* clearDPoPKeyPair() of pair p, if any, is asked for; it is gone later (DeletePair).
Delete(p) == /\ deleting' = deleting \cup ({p} \cap pairs)
             /\ excused' = IF p \in pairs /\ \E c \in Calls : call[c].pair = p
                           THEN excused \cup {p} ELSE excused
\* clearDPoPKeyPair() while tokens that are bound to the pair may stay.
DeleteUnder(p) == pairs' = pairs \ {p} /\ excused' = excused \cup ({p} \cap pairs)

-------------------------------------------------------------------------------
\* exchangeCodeForTokens() after a login, or renewing an ID token alone: a new pair.
ExchangeCode(c) ==
    /\ call[c] = NoCall /\ made < MaxPairs
    /\ made' = made + 1
    /\ pairs' = pairs \cup {made'}
    /\ call' = [call EXCEPT ![c] = [stage |-> "asking", renews |-> FALSE,
                                    pair |-> made', nonce |-> FALSE]]
    /\ UNCHANGED <<tokens, deleting, leaving, excused>>

\* TokenManager.renew(): one at a time, with the pair of the refresh token, or of
\* the access token if there is none.
Renew(c) ==
    /\ call[c] = NoCall
    /\ \A d \in Calls : ~call[d].renews
    /\ tokens # <<0, 0>>
    /\ call' = [call EXCEPT ![c] =
           [stage |-> "finding", renews |-> TRUE,
            pair |-> IF refresh # 0 THEN refresh ELSE access, nonce |-> FALSE]]
    /\ UNCHANGED <<tokens, pairs, made, deleting, leaving, excused>>

\* A call for tokens rejects.  renew() removes the access token, unless it renewed
\* the ID token; an invalid refresh token is removed too.
Rejects(c) ==
    /\ call' = [call EXCEPT ![c] = NoCall]
    /\ IF call[c].renews
       THEN access' \in {0, access} /\ refresh' \in {0, refresh}
       ELSE UNCHANGED tokens
    /\ UNCHANGED <<pairs, made, deleting, leaving, excused>>

\* findKeyPair() rejects if the pair is not there.
FindsPair(c) ==
    /\ call[c].stage = "finding"
    /\ IF call[c].pair \in pairs
       THEN /\ call' = [call EXCEPT ![c].stage = "asking"]
            /\ UNCHANGED <<tokens, pairs, made, deleting, leaving, excused>>
       ELSE Rejects(c)

\* The server demands a nonce: once, and with the nonce in the header.
NonceDemanded(c) ==
    /\ call[c].stage = "asking" /\ ~call[c].nonce
    /\ call' = [call EXCEPT ![c].nonce = TRUE]
    /\ UNCHANGED <<tokens, pairs, made, deleting, leaving, excused>>

Fails(c) == call[c].stage # "none" /\ Rejects(c)

\* The tokens are bound to the pair of the request; the application or renew()
\* stores them in place of those that are there.
Answered(c) ==
    /\ call[c].stage = "asking"
    /\ access' = call[c].pair
    /\ refresh' \in {0, call[c].pair}
    /\ call' = [call EXCEPT ![c] = NoCall]
    /\ UNCHANGED <<pairs, made, deleting, leaving, excused>>

-------------------------------------------------------------------------------
\* Mutant of RevokeAccessToken: the refresh token is not looked at.
RevokeAccessAndPair ==
    /\ access' = 0
    /\ Delete(access)
    /\ UNCHANGED <<refresh, pairs, made, call, leaving>>

\* revokeAccessToken() and revokeRefreshToken() of the stored tokens, up to the wait
\* for IndexedDB: the pair is to go with the last of the two.
RevokeAccessToken ==
    /\ access' = 0
    /\ IF refresh = 0 THEN Delete(access) ELSE UNCHANGED <<deleting, excused>>
    /\ UNCHANGED <<refresh, pairs, made, call, leaving>>

RevokeRefreshToken ==
    /\ refresh' = 0
    /\ IF access = 0 THEN Delete(refresh) ELSE UNCHANGED <<deleting, excused>>
    /\ UNCHANGED <<access, pairs, made, call, leaving>>

\* IndexedDB deletes the pair of a token that was revoked.
DeletePair(p) ==
    /\ p \in deleting
    /\ pairs' = pairs \ {p}
    /\ deleting' = deleting \ {p}
    /\ UNCHANGED <<tokens, made, call, leaving, excused>>

\* The application removes tokens; the pairs stay.
Remove == /\ access' \in {0, access} /\ refresh' \in {0, refresh}
          /\ UNCHANGED <<pairs, made, call, deleting, leaving, excused>>

\* clearDPoPStorage(): the pair of the tokens, or all.
ClearDPoPStorage ==
    /\ \/ DeleteUnder(BoundTo)
       \/ pairs' = {} /\ excused' = excused \cup pairs
    /\ UNCHANGED <<tokens, made, call, deleting, leaving>>

\* signOut() reads the tokens, those that it is not told to leave, and revokes them.
SignOut == /\ leaving = Here
           /\ \E p \in {BoundTo, refresh, 0} :
                 leaving' = [stage |-> "revoking", pair |-> p]
           /\ UNCHANGED <<tokens, pairs, made, call, deleting, excused>>

\* A revocation fails, or the session cannot be closed: the tokens stay.
SignOutFails == /\ leaving # Here
                /\ leaving' = Here
                /\ UNCHANGED <<tokens, pairs, made, call, deleting, excused>>

\* The tokens are revoked and the pair is deleted.  Without an ID token the session
\* is closed next; else the tokens are cleared, or flagged for the next start, and
\* the page is left.
Revoked == /\ leaving.stage = "revoking"
           /\ DeleteUnder(leaving.pair)
           /\ \/ /\ leaving' = [leaving EXCEPT !.stage = "closing"]
                 /\ UNCHANGED <<tokens, call>>
              \/ /\ leaving' = Here
                 /\ access' = 0 /\ refresh' = 0
                 /\ call' = [c \in Calls |-> NoCall]
           /\ UNCHANGED <<made, deleting>>

\* The session is closed: the tokens are cleared, and the page is left.
SessionClosed == /\ leaving.stage = "closing"
                 /\ leaving' = Here
                 /\ access' = 0 /\ refresh' = 0
                 /\ call' = [c \in Calls |-> NoCall]
                 /\ UNCHANGED <<pairs, made, deleting, excused>>

Next == \/ \E c \in Calls : \/ ExchangeCode(c) \/ Renew(c) \/ FindsPair(c)
                            \/ NonceDemanded(c) \/ Fails(c) \/ Answered(c)
        \/ RevokeAccessToken \/ RevokeRefreshToken \/ (\E p \in Pairs : DeletePair(p))
        \/ Remove \/ ClearDPoPStorage
        \/ SignOut \/ SignOutFails \/ Revoked \/ SessionClosed

Spec == Init /\ [][Next]_keyVars

-------------------------------------------------------------------------------
\* A stored token has its key pair, without which it can be neither used nor
\* renewed: revoking one of two tokens that share a pair leaves the other usable,
\* and so do failed requests.  Not if the pair was deleted while a call that will
\* store tokens for it was under way, by clearDPoPStorage(), or by signOut().
BoundTokensUsable == {access, refresh} \subseteq pairs \cup excused \cup {0}
===============================================================================
