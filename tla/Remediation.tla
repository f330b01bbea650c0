------------------------------ MODULE Remediation ------------------------------
(* One call of remediate() (lib/idx/remediate.ts): it answers the forms of the  *)
(* server from what the caller gave, and goes on with the next response until   *)
(* the caller is needed.  What each remediator needs, submits and leaves for    *)
(* the next is from lib/idx/remediators, lib/idx/authenticator and the flows.   *)
(*                                                                              *)
(* A value is its name.  An authenticator is its key; "email" stands for all    *)
(* that take a verification code.  The attributes of a profile are one value.   *)
(* Authenticators and methods are given as `picks`; one given by its id is not  *)
(* modelled, nor is the generic remediator.  A list keeps its length: what is    *)
(* filtered from it leaves "none".                                              *)
EXTENDS Naturals, Sequences, SequencesExt

CONSTANTS Inputs,     \* what callers give: see CallerInput
          Answers,    \* the responses of the server: see Response
          MaxRequests \* bound: requests of the call

VARIABLES options,  \* flow, step, legacy (enableLegacyMode) and actions
          values,   \* names of the values that are left
          picks,    \* the `authenticators` that are left, in their order
          data,     \* authenticators in `authenticatorsData`
          methods,  \* authenticators the caller gave with a methodType
          answer,   \* idxResponse
          phase,    \* "last" is asked, and the answer ends the call
          submitted,\* what the last request submitted
          spent,    \* history: what earlier requests submitted and should be gone
          requests  \* requests made

bagVars == <<values, picks, data>>
remediationVars == <<options, bagVars, methods, answer, phase, submitted, spent, requests>>

Keys == {"password", "email", "question"}
Names == {"username", "password", "passcode", "newPassword", "verificationCode", "otp",
          "answer", "credentials", "profile", "methodType", "phoneNumber", "email",
          "channel", "skip", "startPolling", "resend", "stateHandle"}
Actions == {"cancel", "recover", "unlock-account", "resend"}

Identifies == {"identify", "identify-recovery"}
Verifies == {"challenge-authenticator", "enroll-authenticator", "reset-authenticator"}
Reenrolls == {"reenroll-authenticator", "reenroll-authenticator-warning"}
Selects == {"select-authenticator-authenticate", "select-authenticator-enroll",
            "select-authenticator-unlock-account"}
NeedsData == {"authenticator-verification-data", "authenticator-enrollment-data"}
PollForms == {"enroll-poll", "challenge-poll"}
Channels == {"select-enrollment-channel", "enrollment-channel-data"}
FormNames == Identifies \cup Verifies \cup Reenrolls \cup Selects \cup NeedsData
             \cup PollForms \cup Channels
             \cup {"enroll-profile", "select-enroll-profile", "skip", "redirect-idp",
                   "unlock-account"}

\* Only forms that identify or enroll the user ask for credentials too, and none
\* asks for the method of a password, which has no two.
Form == {f \in [name : FormNames,
                key : Keys,            \* the authenticator it relates to
                options : SUBSET Keys, \* those it lets the caller select
                credentials : BOOLEAN] :
            /\ f.credentials => f.name \in Identifies \cup {"enroll-profile"}
            /\ f.name \in NeedsData => f.key # "password"}
Response == [forms : Seq(Form), actions : SUBSET Actions,
             current : Keys \cup {"none"}, code : BOOLEAN]
Options == [flow : {"default", "authenticate", "register", "recoverPassword",
                    "unlockAccount"},
            step : FormNames \cup {"none"}, legacy : BOOLEAN,
            actions : Seq(Actions \cup {"none"})]
CallerInput == [options : Options, values : SUBSET Names, picks : Seq(Keys),
                methods : SUBSET Keys]
Nothing == [values |-> {}, picks |-> {}, data |-> {}]
Submission == [values : SUBSET Names, picks : SUBSET Keys, data : SUBSET Keys]

ASSUME InputsAssumption == /\ Inputs \subseteq CallerInput
                           /\ Answers \subseteq Response
                           /\ MaxRequests \in Nat

TypeOK == /\ options \in Options
          /\ values \subseteq Names
          /\ picks \in Seq(Keys \cup {"none"})
          /\ {methods, data} \subseteq SUBSET Keys
          /\ answer \in Response
          /\ phase \in {"deciding", "asked", "last", "over"}
          /\ {submitted, spent} \subseteq Submission
          /\ requests \in 0 .. MaxRequests

Init == /\ \E input \in Inputs : /\ options = input.options
                                 /\ values = input.values \cup {"stateHandle"}
                                 /\ picks = input.picks
                                 /\ methods = input.methods
        /\ data = {}
        /\ answer \in Answers
        /\ phase = "deciding"
        /\ submitted = Nothing
        /\ spent = Nothing
        /\ requests = 0

-------------------------------------------------------------------------------
\* The forms the remediators of a flow are for (lib/idx/flow).
FlowForms(flow) ==
    LET shared == {"select-authenticator-enroll", "authenticator-enrollment-data",
                   "enroll-poll"}
        verifying == {"identify", "select-authenticator-authenticate",
                      "challenge-authenticator", "authenticator-verification-data",
                      "reenroll-authenticator-warning"}
        enrolling == Channels \cup {"enroll-authenticator", "skip"}
    IN CASE flow = "register" ->
                shared \cup enrolling \cup {"select-enroll-profile", "enroll-profile"}
         [] flow = "recoverPassword" ->
                shared \cup verifying \cup {"identify-recovery", "reset-authenticator",
                                            "reenroll-authenticator"}
         [] flow = "unlockAccount" ->
                verifying \cup {"select-authenticator-unlock-account", "challenge-poll"}
         [] OTHER -> shared \cup verifying \cup enrolling
                     \cup {"challenge-poll", "reenroll-authenticator", "redirect-idp"}

\* The first of a list that is in a set, if any is, and the list without a set.
FirstIn(list, set) == {list[i] : i \in {i \in DOMAIN list :
                          list[i] \in set /\ \A j \in 1 .. i - 1 : list[j] \notin set}}
Without(list, set) == [i \in DOMAIN list |-> IF list[i] \in set THEN "none" ELSE list[i]]

\* The first of the names in a list that the caller gave, if any.
FirstGiven(list) == FirstIn(list, values)

\* The credentials a form takes, the preferred first.
Credentials(f) ==
    CASE f.name \in Identifies -> <<"credentials", "password">>
      [] f.name \in Reenrolls -> <<"newPassword", "credentials">>
      [] f.name = "enroll-profile" -> <<"credentials", "passcode", "password">>
      [] OTHER -> IF f.key = "password" THEN <<"credentials", "passcode", "password">>
                  ELSE IF f.key = "question" THEN <<"answer", "credentials">>
                  ELSE <<"credentials", "verificationCode", "otp">>

\* authenticators of the remediator: a given password, or the recovery of one,
\* presets the password authenticator.
PresetsPassword == "password" \in values \/ options.flow = "recoverPassword"
Picks(f) == IF /\ f.name = "select-authenticator-authenticate"
               /\ "password" \in f.options
               /\ PresetsPassword
            THEN Append(picks, "password") ELSE picks

\* The authenticator that is selected, if any: the first given that is an option.
Selected(f) == FirstIn(Picks(f), f.options)

\* formatAuthenticators(): the authenticators with a methodType are data as well.
Data == data \cup (ToSet(picks) \cap methods)

(* The remediators, by their classes: whether one can go on with what the      *)
(* caller gave (canRemediate), the values besides credentials that it submits   *)
(* if they were given (getData), and the names it removes from the values after *)
(* that (getValuesAfterProceed: the inputs of the form, and their aliases).     *)
Identify(f) ==
    [can |-> "username" \in values,
     takes |-> {"username"},
     trims |-> {"stateHandle", "username"} \cup
                   (IF f.credentials THEN {"credentials", "password"} ELSE {})]

VerifyAuthenticator(f) ==
    [can |-> FirstGiven(Credentials(f)) # {},
     takes |-> {},
     trims |-> {"stateHandle", "credentials",
                IF f.key = "password" THEN "password"
                ELSE IF f.key = "question" THEN "answer" ELSE "verificationCode"}]

ReEnrollAuthenticator(f) ==
    [can |-> "stateHandle" \in values /\ FirstGiven(Credentials(f)) # {},
     takes |-> {},
     trims |-> {"stateHandle", "credentials", "newPassword"}]

SelectAuthenticator(f) == [can |-> Selected(f) # {},
                           takes |-> {}, trims |-> {"stateHandle"}]

SelectAuthenticatorUnlockAccount(f) ==
    [can |-> "username" \in values /\ Selected(f) # {},
     takes |-> {"username", "methodType"}, trims |-> {"stateHandle", "username"}]

AuthenticatorVerificationData(f) ==
    [can |-> f.key \in Data \/ "methodType" \in values,
     takes |-> {"methodType"}, trims |-> {"stateHandle", "methodType"}]

AuthenticatorEnrollmentData(f) ==
    [can |-> f.key \in Data \/ "methodType" \in values,
     takes |-> {"methodType", "phoneNumber"},
     trims |-> {"stateHandle", "methodType", "phoneNumber"}]

EnrollPoll(f) == [can |-> "startPolling" \in values \/ options.step = f.name,
                  takes |-> {}, trims |-> {"startPolling"}]

SelectEnrollmentChannel == [can |-> "channel" \in values,
                            takes |-> {"channel"}, trims |-> {"stateHandle", "channel"}]

EnrollmentChannelData == [can |-> values \cap {"email", "phoneNumber"} # {},
                          takes |-> {"email", "phoneNumber"},
                          trims |-> {"email", "phoneNumber"}]

EnrollProfile(f) ==
    [can |-> "profile" \in values /\ (f.credentials => FirstGiven(Credentials(f)) # {}),
     takes |-> {"profile"},
     trims |-> {"stateHandle", "profile"} \cup
                   (IF f.credentials THEN {"credentials", "passcode"} ELSE {})]

Skip == [can |-> "skip" \in values \/ options.step = "skip",
         takes |-> {}, trims |-> {"stateHandle"}]

Remediator(f) ==
    CASE f.name \in Identifies -> Identify(f)
      [] f.name \in Verifies -> VerifyAuthenticator(f)
      [] f.name \in Reenrolls -> ReEnrollAuthenticator(f)
      [] f.name = "select-authenticator-unlock-account" -> SelectAuthenticatorUnlockAccount(f)
      [] f.name \in Selects \ {"select-authenticator-unlock-account"} -> SelectAuthenticator(f)
      [] f.name = "authenticator-verification-data" -> AuthenticatorVerificationData(f)
      [] f.name = "authenticator-enrollment-data" -> AuthenticatorEnrollmentData(f)
      [] f.name \in PollForms -> EnrollPoll(f)
      [] f.name = "select-enrollment-channel" -> SelectEnrollmentChannel
      [] f.name = "enrollment-channel-data" -> EnrollmentChannelData
      [] f.name = "enroll-profile" -> EnrollProfile(f)
      [] f.name = "skip" -> Skip
      [] OTHER -> [can |-> f.name = "select-enroll-profile", takes |-> {},
                   trims |-> {"stateHandle"}]

CanRemediate(f) == Remediator(f).can

\* The authenticator that would be selected is the current one.  Only getRemediator()
\* hands canRemediate() the context that tells: remediate() submits such a form if
\* it is the first of the flow.
SelectsCurrent(f) == /\ f.name \in Selects \ {"select-authenticator-unlock-account"}
                     /\ Selected(f) = {answer.current}

\* getData(): what the caller gave that is submitted with the form.
Submitted(f) ==
    [values |-> (values \cap Remediator(f).takes) \cup
                    (IF f.credentials \/ f.name \in Verifies \cup Reenrolls
                     THEN FirstGiven(Credentials(f)) ELSE {}),
     picks |-> IF f.name \in Selects THEN Selected(f) ELSE {},
     data |-> IF f.name \in NeedsData /\ "methodType" \notin values THEN {f.key} ELSE {}]

\* Mutant of Trimmed: the aliases of the inputs are not removed.
TrimmedRaw(f) == {"stateHandle"} \cup (IF f.credentials THEN {"credentials"} ELSE {})

\* getValuesAfterProceed(): the names removed from the values.
Trimmed(f) == Remediator(f).trims

\* ... and the authenticators that are left.
PicksLeft(f) == CASE f.name \in Selects -> Without(Picks(f), Selected(f))
                  [] f.name = "select-enrollment-channel" -> <<>>
                  [] OTHER -> picks
DataLeft(f) == IF f.name \in NeedsData THEN Data \ {f.key} ELSE Data

\* What is submitted but kept for the next form, all the same.
Keeps(f) == CASE f.name = "enroll-profile" -> {"password"}
              [] f.name = "select-authenticator-unlock-account" -> {"methodType"}
              [] OTHER -> {"passcode", "otp"}

-------------------------------------------------------------------------------
IsTerminal(r) == r.forms = <<>> /\ ~r.code

\* options.actions, and the action that a value asks for.
Wanted == options.actions \o
              (IF "resend" \in values /\ "resend" \in answer.actions
               THEN <<"resend">> ELSE <<>>)
FormsNamed(name) == {i \in DOMAIN answer.forms : answer.forms[i].name = name}

\* The first wanted that the response has, as an action or as a form, if any.
Matching == FirstIn(Wanted, answer.actions \cup
                                {answer.forms[i].name : i \in DOMAIN answer.forms})
Undecided == phase = "deciding" /\ ~answer.code /\ ~IsTerminal(answer)
NeedsStep == ~options.legacy /\ options.step = "none"

\* getRemediator(): the form to answer or to return to the caller, if any.
FirstForm(at) == {answer.forms[i] : i \in {i \in at : \A j \in at : i <= j}}
Remediable ==
    LET inFlow == {i \in DOMAIN answer.forms : answer.forms[i].name \in FlowForms(options.flow)}
        able == {i \in inFlow : /\ CanRemediate(answer.forms[i])
                                /\ ~SelectsCurrent(answer.forms[i])}
    IN IF options.step # "none"
       THEN {f \in FirstForm(FormsNamed(options.step)) : f.name \in FlowForms(options.flow)}
       ELSE FirstForm(IF able # {} THEN able ELSE inFlow)

Asks(what, goesOn) == /\ requests < MaxRequests
                      /\ requests' = requests + 1
                      /\ phase' = IF goesOn /\ options.legacy THEN "asked" ELSE "last"
                      /\ submitted' = what
Ends == phase' = "over" /\ submitted' = Nothing
        /\ UNCHANGED <<options, bagVars, methods, answer, spent, requests>>

\* A code, or nothing to do: the response is returned.
Returns == /\ phase = "deciding" /\ (answer.code \/ IsTerminal(answer))
           /\ Ends

\* The action is run, or the form submitted.  Only the former drops the value that
\* asks for a resend, whatever ran.
RunsAction ==
    /\ Undecided
    /\ \E action \in Matching :
          /\ Asks(Nothing, action # "cancel")
          /\ options' = [options EXCEPT !.actions = Without(@, {action})]
          /\ values' = IF action \in answer.actions THEN values \ {"resend"} ELSE values
    /\ UNCHANGED <<picks, data, methods, answer, spent>>

\* No action given that matches, and no step: an error is thrown.
Throws == Undecided /\ Matching = {} /\ NeedsStep /\ Ends

\* No remediator: a step is submitted as it is, with the values of its inputs; the
\* default flow returns the response, the others throw.  An unknown step throws.
ProceedsAnyway ==
    /\ Undecided /\ Matching = {} /\ ~NeedsStep /\ Remediable = {}
    /\ IF FormsNamed(options.step) # {}
       THEN /\ Asks(Nothing, FALSE)
            /\ UNCHANGED <<options, bagVars, methods, answer, spent>>
       ELSE Ends

\* The remediator lacks a value: the next step is returned to the caller.
NeedsCaller == /\ Undecided /\ Matching = {} /\ ~NeedsStep
               /\ \E f \in Remediable : ~CanRemediate(f)
               /\ Ends

\* The form is submitted.  What it used is removed when the answer comes, before
\* anything reads it.
Submits(f) ==
    /\ LET what == Submitted(f)
       IN /\ Asks(what, TRUE)
          /\ spent' = [values |-> spent.values \cup (what.values \ Keeps(f)),
                       picks |-> spent.picks \cup
                           (IF PresetsPassword THEN what.picks \ {"password"}
                            ELSE what.picks),
                       data |-> spent.data \cup (what.data \ ToSet(picks))]
    /\ values' = values \ Trimmed(f)
    /\ picks' = PicksLeft(f)
    /\ data' = DataLeft(f)
    /\ options' = [options EXCEPT !.step = "none"]
    /\ UNCHANGED <<methods, answer>>
Submit == /\ Undecided /\ Matching = {} /\ ~NeedsStep
          /\ \E f \in Remediable : CanRemediate(f) /\ Submits(f)

\* The answer of the server, and the recursive call with it.
Answered == /\ phase = "asked"
            /\ answer' \in Answers
            /\ phase' = "deciding"
            /\ submitted' = Nothing
            /\ UNCHANGED <<options, bagVars, methods, spent, requests>>

\* The answer ends the call: the request failed or was cancel, or without legacy
\* mode the caller decides what is next.
LastAnswered == phase \in {"asked", "last"} /\ Ends

Next == \/ Returns \/ RunsAction \/ Throws \/ ProceedsAnyway \/ NeedsCaller
        \/ Submit \/ Answered \/ LastAnswered

Spec == Init /\ [][Next]_remediationVars

-------------------------------------------------------------------------------
\* No value or authenticator of the caller is submitted twice by one call, so that
\* a server that asks the same again ends the call rather than the call looping
\* (the notes in Remediator.ts:82, :221 and SelectEnrollmentChannel.ts:65); but for
\* what Keeps names, a password authenticator while it is preset, and the method
\* of an authenticator that was not selected.
NoValueTwice ==
    [][phase' \in {"asked", "last"} =>
        /\ submitted'.values \cap spent.values = {}
        /\ submitted'.picks \cap spent.picks = {}
        /\ submitted'.data \cap spent.data = {}]_remediationVars
===============================================================================
