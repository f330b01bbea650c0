------------------------------- MODULE MCSignIn -------------------------------
(* The instance that TLC checks of the modules about the ways to sign in and    *)
(* what is kept of it: Remediation, IdxTransactions, AuthnTransactions,         *)
(* TokenVerification, DPoPKeys and Storage.  They share no state, so a          *)
(* behaviour is one of any of them; `part` says of which.                       *)
EXTENDS Remediation, TLC

CONSTANTS Tabs, Calls, MaxInteractions, MaxRuns,
          MaxPairs,
          MaxTransactions,
          One, Other, \* the requests for tokens
          MaxKeys,
          MaxWrites

\* What the proofs take for granted of the bounds.
ASSUME BoundsAssumption ==
    /\ Tabs # {}
    /\ {MaxInteractions, MaxRuns, MaxPairs, MaxTransactions, MaxWrites} \subseteq Nat
    /\ MaxKeys \in Nat \ {0}

VARIABLES part,
          session, response, shared, begun, run, runs, gone,
          access, refresh, pairs, made, call, deleting, leaving, excused,
          cookie, alive, issued, known, last, ask, loose, dropped,
          client, request, published, newest, cached,
          used, platform, given, full, items, kept, saved, writes

IT == INSTANCE IdxTransactions
DK == INSTANCE DPoPKeys
AT == INSTANCE AuthnTransactions WITH call <- ask

-------------------------------------------------------------------------------
\* The forms and responses of the server that are tried: every kind of form, some
\* together, one with actions, the end and the code.
Plain(name) == [name |-> name, key |-> "email", options |-> {}, credentials |-> FALSE]
For(name, key) == [Plain(name) EXCEPT !.key = key]
Choice(name) == [Plain(name) EXCEPT !.options = {"email", "password"}]
WithCredentials(name) == [Plain(name) EXCEPT !.credentials = TRUE]
SomeForms == {Plain(n) : n \in FormNames \ (Selects \cup Reenrolls)}
             \cup {Choice(n) : n \in Selects}
             \cup {For(n, "password") : n \in Reenrolls \cup Verifies}
             \cup {For("enroll-authenticator", "question")}
             \cup {WithCredentials(n) : n \in {"identify", "enroll-profile"}}

Forms(forms) == [forms |-> forms, actions |-> {}, current |-> "none", code |-> FALSE]
SomeAnswers ==
    {Forms(<<form>>) : form \in SomeForms}
    \cup {Forms(<<Plain("select-enroll-profile"), Plain("identify")>>),
          Forms(<<Choice("select-authenticator-enroll"), Plain("skip")>>),
          [Forms(<<Plain("challenge-poll"), Choice("select-authenticator-authenticate")>>)
              EXCEPT !.current = "email"],
          [Forms(<<Plain("challenge-authenticator")>>)
              EXCEPT !.actions = {"resend", "recover", "cancel"}],
          Forms(<<>>),
          [Forms(<<>>) EXCEPT !.code = TRUE]}

\* What callers give: in legacy mode any of some values for a flow, and what the
\* flow adds; else a step, actions or neither.
Given(name) == CASE name = "authenticate" -> {"username", "password", "answer", "resend"}
                 [] name = "recoverPassword" -> {"username", "otp", "newPassword"}
                 [] name = "register" -> {"profile", "password", "channel"}
                 [] name = "unlockAccount" -> {"username", "methodType", "startPolling"}
FlowActions(name) == CASE name = "recoverPassword" -> <<"recover">>
                       [] name = "unlockAccount" -> <<"unlock-account">>
                       [] OTHER -> <<>>
SomeInputs ==
    UNION {[options : {[flow |-> name, step |-> "none", legacy |-> TRUE,
                        actions |-> FlowActions(name)]},
            values : SUBSET Given(name),
            picks : {<<>>, <<"password", "email">>},
            methods : {{"email"}}] :
              name \in {"authenticate", "recoverPassword", "register", "unlockAccount"}}
    \cup {[options |-> [flow |-> "default", step |-> step, legacy |-> FALSE,
                        actions |-> actions],
           values |-> {"username"}, picks |-> <<>>, methods |-> {}] :
              step \in {"none", "identify", "skip", "unlock-account"},
              actions \in {<<>>, <<"resend">>, <<"cancel">>}}

-------------------------------------------------------------------------------
\* The options of the constructor and the requests for tokens that are tried.
ArgumentsFor(names, pkce) ==
    [n \in {"pkce", "dpop", "allowBearerTokens", "ignoreSignature", "ignoreLifetime",
            "acrValues", "fragment"} |->
        IF n = "pkce" THEN pkce ELSE IF n \in names THEN "true" ELSE "none"]
SomeArguments == {ArgumentsFor({}, "none"), ArgumentsFor({}, "false"),
                  ArgumentsFor({"ignoreSignature", "acrValues"}, "false"),
                  ArgumentsFor({"dpop", "acrValues", "fragment"}, "true"),
                  ArgumentsFor({"dpop", "allowBearerTokens", "ignoreLifetime"}, "none")}
AsksFor(paths, on, off) == [path : paths, on : {on}, off : {off}]
SomeAsks == [v \in {One, Other} |->
    IF v = Other THEN AsksFor({"page"}, {}, {})
    ELSE UNION {AsksFor({"redirect", "page", "refresh"}, {}, {}),
                AsksFor({"redirect", "page"}, {"acrValues"}, {"ignoreSignature"}),
                AsksFor({"redirect", "page"}, {"ignoreSignature"}, {"openid"}),
                AsksFor({"redirect", "page"}, {}, {"pkce"}),
                AsksFor({"enroll"}, {"acrValues"}, {})}]

TV == INSTANCE TokenVerification
          WITH options <- client, Requests <- {One, Other}, Arguments <- SomeArguments,
               Tried <- SomeAsks, Troubled <- {One}

\* The sections that are used together and the objects that are written.
SomeSections == {{"token"}, {"cache"}, {"shared"}, {"transaction", "idx"}}
Object(a, b) == [f \in {"a", "b"} |-> IF f = "a" THEN a ELSE b]
SomeObjects == {Object(1, 0), Object(2, 1), Object(0, 2), Object(3, 1)}

ST == INSTANCE Storage WITH Used <- SomeSections, Written <- SomeObjects

-------------------------------------------------------------------------------
idxVars == <<session, response, shared, begun, run, runs, gone>>
keyVars == <<access, refresh, pairs, made, call, deleting, leaving, excused>>
authnVars == <<cookie, alive, issued, known, last, ask, loose, dropped>>
verifyVars == <<client, request, published, newest, cached>>
storageVars == <<used, platform, given, full, items, kept, saved, writes>>
all == <<part, remediationVars, idxVars, keyVars, authnVars, verifyVars, storageVars>>

\* One part starts anywhere its module does, the others at one initial state.
MCInit ==
    /\ part \in {"remediation", "idx", "keys", "authn", "verification", "storage"}
    /\ Init /\ (part # "remediation" =>
                   /\ values = {"stateHandle"} /\ picks = <<>>
                   /\ options = [flow |-> "register", step |-> "none", legacy |-> TRUE,
                                 actions |-> <<>>]
                   /\ answer = Forms(<<>>))
    /\ IT!Init
    /\ DK!Init
    /\ AT!Init
    /\ TV!Init /\ (part # "verification" => client = {"pkce"})
    /\ ST!Init /\ (part # "storage" => platform = "server" /\ used = {"token"})

MCNext ==
    /\ UNCHANGED part
    /\ \/ /\ part = "remediation" /\ Next
          /\ UNCHANGED <<idxVars, keyVars, authnVars, verifyVars, storageVars>>
       \/ /\ part = "idx" /\ IT!Next
          /\ UNCHANGED <<remediationVars, keyVars, authnVars, verifyVars, storageVars>>
       \/ /\ part = "keys" /\ DK!Next
          /\ UNCHANGED <<remediationVars, idxVars, authnVars, verifyVars, storageVars>>
       \/ /\ part = "authn" /\ AT!Next
          /\ UNCHANGED <<remediationVars, idxVars, keyVars, verifyVars, storageVars>>
       \/ /\ part = "verification" /\ TV!Next
          /\ UNCHANGED <<remediationVars, idxVars, keyVars, authnVars, storageVars>>
       \/ /\ part = "storage" /\ ST!Next
          /\ UNCHANGED <<remediationVars, idxVars, keyVars, authnVars, verifyVars>>

MCSpec == MCInit /\ [][MCNext]_all

\* The modules have values of the types they declare.
Types == /\ TypeOK /\ IT!TypeOK /\ DK!TypeOK
         /\ AT!TypeOK /\ TV!TypeOK /\ ST!TypeOK

\* The properties of the modules, see there.
CodeWithItsVerifier == IT!CodeWithItsVerifier
FinishedLeavesNothing == IT!FinishedLeavesNothing
BoundTokensUsable == DK!BoundTokensUsable
ResumesInProgress == AT!ResumesInProgress
VerdictIsRight == TV!VerdictIsRight
ReadsBack == ST!ReadsBack
NonceIsValidated == TV!NonceIsValidated
EnrollmentIsHandled == TV!EnrollmentIsHandled
===============================================================================
