--------------------------- MODULE TokenVerification ---------------------------
(* What is checked of an answer before its tokens are returned: the parameters  *)
(* of a request from the options of the client through prepareTokenParams(),    *)
(* the saved meta, exchangeCodeForTokens() and handleOAuthResponse() to         *)
(* verifyToken(), and the keys of the server, which the HTTP cache keeps for a  *)
(* day and getKey() asks for again when they lack one.                          *)
(*                                                                              *)
(* Of a parameter only matters whether it is set or true, and of an answer what *)
(* is wrong with it, one thing at a time.  How requests run is in TokenFlows    *)
(* and Transactions, key pairs are in DPoPKeys.                                 *)
EXTENDS Naturals

CONSTANTS Requests,
          Arguments, \* of the constructor, that are tried: option -> its value
          Tried,     \* per request, what is tried: its path, on and off, see TypeOK
          Troubled,  \* the requests whose answers can have something wrong
          MaxKeys    \* bound: signing keys the server has had

VARIABLES options,   \* the options of the client that are true or set
          request,   \* per request, all of its state
          published, \* the keys the server publishes; it signs with the newest
          newest,
          cached     \* the keys in the HTTP cache, which the tabs share

verifyVars == <<options, request, published, newest, cached>>

Flags == {"pkce", "dpop", "allowBearerTokens", "ignoreSignature", "ignoreLifetime"}
OfIdToken == {"iss", "aud", "times", "nonce", "acr", "kid", "signature", "hash"}
Faults == OfIdToken \cup {"none", "error", "state", "access", "id", "bearer"}
Over == {"tokens", "refused", "failed", "ignored", "unread"}

TypeOK ==
    /\ options \subseteq Flags \cup {"acrValues", "fragment"} \* responseMode
    /\ request \in [Requests ->
         [path : {"redirect", "page", "refresh", "enroll"}, \* page: a frame or a popup
          on : SUBSET {"acrValues", "ignoreSignature"},     \* what the caller sets
          off : SUBSET {"pkce", "ignoreSignature", "openid"}, \* and unsets
          params : SUBSET (Flags \cup {"acrValues", "fragment", "nonce", "state",
                                       "openid", "access", "id", "code"}),
          direct : BOOLEAN, \* asks the token endpoint
          stage : {"new", "sent", "landed", "answered", "claims", "key", "asking",
                   "served"} \cup Over,
          fault : Faults,
          kid : 0 .. MaxKeys,
          keys : SUBSET (1 .. MaxKeys)]]
    /\ newest \in 1 .. MaxKeys
    /\ published \subseteq 1 .. newest
    /\ cached \subseteq 1 .. newest

\* The constructor: pkce unless it is false, the others only when they are true.
SdkOptions(args) == {n \in DOMAIN args : args[n] = "true"}
                    \cup (IF args["pkce"] # "false" THEN {"pkce"} ELSE {})

Init == /\ options \in {SdkOptions(args) : args \in Arguments}
        /\ request = [v \in Requests |->
               [path |-> "page", on |-> {}, off |-> {}, params |-> {}, direct |-> FALSE,
                stage |-> "new", fault |-> "none", kid |-> 0, keys |-> {}]]
        /\ published = {1}
        /\ newest = 1
        /\ cached = {}

-------------------------------------------------------------------------------
\* getDefaultTokenParams(): state and nonce are made up; access and id stand for
\* the response types token and id_token.
Defaults == (options \ {"ignoreLifetime", "allowBearerTokens"})
            \cup {"state", "nonce", "openid", "access", "id"}

\* prepareTokenParams(): what the caller gives prevails, and PKCE forces the code.
Prepared(on, off) ==
    LET params == (Defaults \ off) \cup on
    IN IF "pkce" \in params THEN (params \ {"access", "id"}) \cup {"code"} ELSE params

\* createOAuthMeta() saves the others of them for after a redirect.
Meta(params) == params \ {"pkce", "dpop"}

\* getDefaultEnrollAuthenticatorParams(), and prepareEnrollAuthenticatorParams():
\* state, acr_values and where the answer goes, but no scopes and no nonce.
EnrollDefaults == {"state"} \cup (options \cap {"fragment"})
Enrolling(on) == EnrollDefaults \cup (on \cap {"acrValues"})

\* renewTokensWithRefresh() passes no parameters on: the options decide.
Refreshing == options \cap {"dpop", "ignoreSignature"}

\* Mutant of Exchanged: the parameters of the request go on with the answer.
ExchangedAsAsked(params) == params \ {"code"}

\* exchangeCodeForTokens(): neither state nor nonce go on to the answer of the
\* token endpoint, dpop comes from the options, and the scopes say which tokens.
Exchanged(params) ==
    LET all == params \cup (options \cap {"dpop"})
    IN (all \cap {"acrValues", "ignoreSignature", "dpop"}) \cup {"access"}
       \cup (IF "openid" \in all THEN {"openid", "id"} ELSE {})

Set(v, r) == request' = [request EXCEPT ![v] = r]

\* A request is made as `ask`, and its answer handled with params.
Send(v, ask, params) ==
    /\ request[v].stage = "new"
    /\ Set(v, [request[v] EXCEPT !.path = ask.path, !.on = ask.on, !.off = ask.off,
                                 !.params = params, !.stage = "sent",
                                 !.direct = ask.path = "refresh"])
    /\ UNCHANGED <<options, published, newest, cached>>

\* getWithRedirect(), and getToken() of a frame or a popup, ask /authorize.  An ID
\* token cannot be asked for without the scope openid.
Authorize(v) == \E ask \in Tried[v] :
    LET params == Prepared(ask.on, ask.off)
    IN /\ ask.path \in {"page", "redirect"}
       /\ "id" \in params => "openid" \in params
       /\ Send(v, ask, IF ask.path = "page" THEN params ELSE Meta(params))

\* enrollAuthenticator(): acr_values must be specified.
EnrollAuthenticator(v) == \E ask \in Tried[v] :
    /\ ask.path = "enroll" /\ "acrValues" \in Enrolling(ask.on)
    /\ Send(v, ask, Enrolling(ask.on))

RenewTokensWithRefresh(v) == \E ask \in Tried[v] :
    ask.path = "refresh" /\ Send(v, ask, Refreshing)

\* What can be wrong with the answer to r.
AnswersWithTokens(r) == r.path # "enroll" /\ "code" \notin r.params
AnswersWithId(r) == AnswersWithTokens(r) /\ ("id" \in r.params \/ r.path = "refresh")
FaultsOf(r) == {"none", "error"}
               \cup (IF r.direct THEN {} ELSE {"state"})
               \cup (IF AnswersWithTokens(r) THEN {"access", "bearer"} ELSE {})
               \cup (IF AnswersWithId(r) THEN OfIdToken \cup {"id"} ELSE {})

\* The server answers, with tokens that its newest key signs or with a code, to
\* the caller or in the URL of the page that is loaded next.
Lands(r) == r.path \in {"redirect", "enroll"} /\ ~r.direct
Answer(v) ==
    LET r == request[v] IN
    /\ r.stage = "sent"
    /\ \E fault \in IF v \in Troubled THEN FaultsOf(r) ELSE {"none"} :
          Set(v, [r EXCEPT !.stage = IF Lands(r) THEN "landed" ELSE "answered",
                           !.fault = fault,
                           !.kid = IF fault = "kid" THEN 0 ELSE newest])
    /\ UNCHANGED <<options, published, newest, cached>>

\* Where the server puts an answer, tokens never in the search part, and where
\* the client reads it: getHashOrSearch() and getResponseMode() agree.
PlaceOf(r) == IF "fragment" \in r.params \/ AnswersWithTokens(r) THEN "hash" ELSE "search"
HashOrSearch == IF "pkce" \in options /\ "fragment" \notin options THEN "search" ELSE "hash"

\* isLoginRedirect(): an error, or by the options a code or tokens.
IsLoginRedirect(r) ==
    /\ PlaceOf(r) = HashOrSearch
    /\ \/ r.fault = "error"
       \/ IF "pkce" \in options THEN "code" \in r.params
          ELSE AnswersWithTokens(r) /\ (r.params \cap {"access", "id"}) \ {r.fault} # {}

\* handleRedirect() has nothing to do for any other page.
HandleRedirect(v) ==
    LET r == request[v] IN
    /\ r.stage = "landed"
    /\ Set(v, [r EXCEPT !.stage = IF IsLoginRedirect(r) THEN "answered" ELSE "ignored"])
    /\ UNCHANGED <<options, published, newest, cached>>

\* parseFromUrl(), which an application may call itself, does not ask first, and
\* throws when there is nothing where it reads.
ParseFromUrl(v) ==
    LET r == request[v] IN
    /\ r.stage = "landed"
    /\ Set(v, [r EXCEPT !.stage = IF PlaceOf(r) = HashOrSearch THEN "answered" ELSE "unread"])
    /\ UNCHANGED <<options, published, newest, cached>>

-------------------------------------------------------------------------------
\* validateResponse(): an answer of the token endpoint has no state.
ResponseValid(r) == /\ r.fault \notin {"error", "state"}
                    /\ ("state" \in r.params) <=> ~r.direct

\* The token_type of an answer to a request with DPoP.
TokenTypeValid(r) == \/ "dpop" \notin r.params \/ ~AnswersWithTokens(r)
                     \/ "allowBearerTokens" \in options
                     \/ r.fault # "bearer"

\* The last check: the tokens that were asked for are there.
Complete(r) == r.fault \notin r.params \cap {"access", "id"}
Verdict(r, good) == [r EXCEPT !.stage = IF good /\ Complete(r) THEN "tokens" ELSE "refused",
                              !.params = {}, !.keys = {}]

\* handleOAuthResponse(), up to the wait in verifyToken().  A code goes to the
\* token endpoint instead, whose answer comes here in its turn.
HandleOAuthResponse(v) ==
    LET r == request[v] IN
    /\ r.stage = "answered"
    /\ \/ ~(ResponseValid(r) /\ TokenTypeValid(r)) /\ Set(v, Verdict(r, FALSE))
       \/ /\ ResponseValid(r) /\ TokenTypeValid(r)
          /\ \/ /\ "code" \in r.params
                /\ Set(v, [r EXCEPT !.params = Exchanged(r.params), !.direct = TRUE,
                                    !.stage = "sent"])
             \/ /\ "code" \notin r.params
                /\ IF AnswersWithId(r) /\ r.fault # "id"
                   THEN Set(v, [r EXCEPT !.stage = "claims"])
                   ELSE Set(v, Verdict(r, TRUE))
    /\ UNCHANGED <<options, published, newest, cached>>

\* validateClaims(): nonce and acr count when the parameters have them.
ClaimsValid(r) == r.fault \notin {"iss", "aud"} \cup (r.params \cap {"nonce"})
                              \cup (IF "acrValues" \in r.params THEN {"acr"} ELSE {})
                              \cup (IF "ignoreLifetime" \in options THEN {} ELSE {"times"})

\* verifyToken() goes on with the configuration of the server, cached or not.
ValidateClaims(v) ==
    LET r == request[v] IN
    /\ r.stage = "claims"
    /\ Set(v, IF ~ClaimsValid(r) \/ "ignoreSignature" \in r.params
              THEN Verdict(r, ClaimsValid(r))
              ELSE [r EXCEPT !.stage = "key"])
    /\ UNCHANGED <<options, published, newest, cached>>

\* The signature and, if there is an access token, its hash, by the key found.
SignatureValid(r) == r.fault \notin {"signature", "hash"}

\* getKey(): a cached key will do, else the cache is cleared and they are asked for.
GetKey(v) ==
    LET r == request[v] IN
    /\ r.stage = "key"
    /\ \/ /\ r.kid \in cached
          /\ Set(v, Verdict(r, SignatureValid(r)))
          /\ UNCHANGED cached
       \/ /\ r.kid \notin cached
          /\ Set(v, [r EXCEPT !.stage = "asking"])
          /\ cached' = {}
    /\ UNCHANGED <<options, published, newest>>

ServeKeys(v) == /\ request[v].stage = "asking"
                /\ Set(v, [request[v] EXCEPT !.stage = "served", !.keys = published])
                /\ UNCHANGED <<options, published, newest, cached>>

\* The keys arrive, are cached, and the one of the token is among them or not.
KeysArrive(v) ==
    LET r == request[v] IN
    /\ r.stage = "served"
    /\ cached' = r.keys
    /\ Set(v, Verdict(r, r.kid \in r.keys /\ SignatureValid(r)))
    /\ UNCHANGED <<options, published, newest>>

\* A request of it fails.
Fails(v) == /\ request[v].stage \in {"sent", "claims", "key", "asking"}
            /\ Set(v, [request[v] EXCEPT !.stage = "failed"])
            /\ UNCHANGED <<options, published, newest, cached>>

\* The server takes a new key, and may stop to publish an old one; a day passes.
Rotates == /\ newest < MaxKeys
           /\ newest' = newest + 1
           /\ published' = published \cup {newest'}
           /\ UNCHANGED <<options, request, cached>>
Retires(k) == /\ k \in published \ {newest}
              /\ published' = published \ {k}
              /\ UNCHANGED <<options, request, newest, cached>>
CacheExpires == /\ cached' = {}
                /\ UNCHANGED <<options, request, published, newest>>

Next == \/ \E v \in Requests :
              \/ Authorize(v) \/ EnrollAuthenticator(v) \/ RenewTokensWithRefresh(v)
              \/ Answer(v) \/ HandleRedirect(v) \/ ParseFromUrl(v)
              \/ HandleOAuthResponse(v) \/ ValidateClaims(v)
              \/ GetKey(v) \/ ServeKeys(v) \/ KeysArrive(v) \/ Fails(v)
        \/ Rotates \/ (\E k \in 1 .. MaxKeys : Retires(k)) \/ CacheExpires

Spec == Init /\ [][Next]_verifyVars

-------------------------------------------------------------------------------
\* What the application asks to be checked, by its options and its request: of the
\* answer to a renewal what its options say, and a request sends a nonce that an ID
\* token must have, whether it comes with the answer or for its code (README.md:1525).
Ignores(r, name) == name \in r.on \/ (name \in options /\ name \notin r.off)
Implicit(r) == "pkce" \notin options \ r.off
Demanded(r) ==
    {"error", "state", "iss", "aud"}
    \cup {f \in {"times"} : "ignoreLifetime" \notin options}
    \cup {f \in {"nonce"} : r.path \in {"page", "redirect"}}
    \cup {f \in {"acr"} : "acrValues" \in r.on \cup options /\ r.path # "refresh"}
    \cup {f \in {"access", "id"} : r.path # "refresh"}
    \cup {f \in {"bearer"} : /\ "dpop" \in options /\ "allowBearerTokens" \notin options
                             /\ ~(Implicit(r) /\ r.path = "redirect")}
    \cup {f \in {"kid", "signature", "hash"} :
             ~Ignores(IF r.path = "refresh" THEN [r EXCEPT !.on = {}, !.off = {}] ELSE r,
                      "ignoreSignature")}

\* Tokens are returned when nothing that was to be checked is wrong with the
\* answer, and only then, whichever way they came (verifyToken.ts:23), but for one
\* flaw that NonceIsValidated is about: the nonce of an ID token that came for a
\* code.  A good token is not refused because the keys were changed, cached or
\* asked for by two at a time, unless its own was withdrawn; and what lands on a
\* page is looked at, unless the request was one for the implicit flow by a client
\* that has PKCE, or for no tokens at all.
VerdictIsRight == \A v \in Requests :
    LET r == request[v] IN
    /\ r.stage = "tokens" => \/ r.fault \notin Demanded(r)
                             \/ r.fault = "nonce" /\ r.direct
    /\ r.stage = "refused" => r.fault \in Demanded(r) \/ r.kid \notin published
    /\ r.stage \in {"ignored", "unread"} => r.path = "enroll" \/ "pkce" \in r.off

\* The nonce of a request is validated in the ID token (README.md:1525: one "that
\* will be exchanged" for a code).  It is not: exchangeCodeForTokens() leaves it out.
NonceIsValidated == \A v \in Requests :
    request[v].path \in {"page", "redirect"} /\ request[v].fault = "nonce"
        => request[v].stage # "tokens"

\* handleRedirect() handles the redirect of a successful enrollment (README.md:1542).
\* It does not: an answer without code or tokens is no login redirect, though
\* storeTokensFromRedirect() (oidc/mixin/index.ts:216) is written for it.
EnrollmentIsHandled == \A v \in Requests :
    request[v].path = "enroll" /\ request[v].fault = "none" => request[v].stage # "ignored"
===============================================================================
