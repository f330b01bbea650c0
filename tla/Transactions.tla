----------------------------- MODULE Transactions -----------------------------
(* Redirect login over page loads and tabs: signInWithRedirect() saves what    *)
(* the callback will need and leaves the page; handleLoginRedirect() finds the *)
(* answer in the URL of some page, loads what was saved, exchanges the code    *)
(* and returns to the original URI (lib/oidc/TransactionManager.ts,            *)
(* util/sharedStorage.ts, getWithRedirect.ts, parseFromUrl.ts,                 *)
(* exchangeCodeForTokens.ts, mixin/index.ts, mixin/browser.ts,                 *)
(* lib/core/mixin.ts).                                                         *)
(*                                                                             *)
(* A flow stands for one authorization request: its state parameter, its code  *)
(* verifier and its original URI are all named by it.  Every tab has a session *)
(* storage; the local storage is shared.  The token methods of a page run one  *)
(* after the other (PromiseQueue).  The flow uses PKCE, and the options leave  *)
(* the storages and the shared storage as they are by default.                 *)
EXTENDS Naturals, Sequences, FiniteSets

CONSTANTS Flows,       \* authorization requests
          Tabs,        \* browser tabs, all of one app
          Calls,       \* calls of handleLoginRedirect() a page may have
          None,        \* no flow
          StateFlows,  \* flows whose state the app chose: options.state is set
          Lifetime,    \* MAX_ENTRY_LIFETIME in ticks
          MaxAnswers,  \* bound on the answers the server gives to a flow
          MaxJobs      \* bound on the token methods queued in all pages

ASSUME TransactionsAssumption == /\ None \notin Flows /\ "never" \notin Flows
                                 /\ StateFlows \subseteq Flows
                                 /\ Lifetime \in Nat
                                 /\ MaxAnswers \in Nat
                                 /\ MaxJobs \in Nat

VARIABLES where,      \* where each tab is
          goal,       \* the flow a tab is leaving for, or is at the server with
          answer,     \* the OAuth response in a page's URL
          queue,      \* token methods of a page, the running one first
          run,        \* how far the running one has come
          pending,    \* _pending.handleLogin of a page
          login,      \* the calls of handleLoginRedirect() of a page
          session,    \* transaction in a tab's session storage
          uri,        \* original URI in a tab's session storage
          shared,     \* flows with an entry in the shared transaction storage
          sharedUri,  \* flows with an entry in the shared original-URI storage
          age,        \* ticks since a flow was saved, while its entry is there
          stage,      \* how far each flow has come
          answered,   \* the answers the server gave
          exchanged,  \* history: answers whose code was sent to /token
          restored    \* history: the first URI restored for a flow

page == <<queue, run, pending, login>>
stores == <<session, uri, shared, sharedUri>>
flows == <<age, stage, answered>>
history == <<exchanged, restored>>
vars == <<where, goal, answer, page, stores, flows, history>>

Kinds == {"code", "error", "interaction_required"}
Answers == [flow : Flows, id : 1..MaxAnswers, kind : Kinds]
NoAnswer == [flow |-> None, id |-> 0, kind |-> "none"]

Jobs == [kind : {"signIn"}, flow : Flows] \cup [kind : {"parse"}, call : Calls]
        \cup [kind : {"renew"}]

Idle == [pc |-> "idle", answer |-> NoAnswer, meta |-> None]
NoLogin == [pc |-> "none", state |-> None, uri |-> None]

TypeOK == /\ where \in [Tabs -> {"app", "leaving", "away", "closed"}]
          /\ goal \in [Tabs -> Flows \cup {None}]
          /\ answer \in [Tabs -> Answers \cup {NoAnswer}]
          /\ queue \in [Tabs -> Seq(Jobs)]
          /\ run \in [Tabs -> [pc : {"idle", "exchanging", "resolved",
                                     "rejected"},
                               answer : Answers \cup {NoAnswer},
                               meta : Flows \cup {None}]]
          /\ pending \in [Tabs -> BOOLEAN]
          /\ login \in [Tabs -> [Calls -> [pc : {"none", "parsing", "updating"},
                                           state : Flows \cup {None},
                                           uri : Flows \cup {None}]]]
          /\ session \in [Tabs -> Flows \cup {None}]
          /\ uri \in [Tabs -> Flows \cup {None}]
          /\ shared \subseteq Flows
          /\ sharedUri \subseteq Flows
          /\ age \in [Flows -> 0..Lifetime + 1]
          /\ stage \in [Flows -> {"unused", "asked", "saved", "visited",
                                  "ended"}]
          /\ answered \in [Flows -> 0..MaxAnswers]
          /\ exchanged \subseteq Answers
          /\ restored \in [Flows -> Flows \cup {None, "never"}]

Init == /\ where = [t \in Tabs |-> "app"]
        /\ goal = [t \in Tabs |-> None]
        /\ answer = [t \in Tabs |-> NoAnswer]
        /\ queue = [t \in Tabs |-> <<>>]
        /\ run = [t \in Tabs |-> Idle]
        /\ pending = [t \in Tabs |-> FALSE]
        /\ login = [t \in Tabs |-> [c \in Calls |-> NoLogin]]
        /\ session = [t \in Tabs |-> None]
        /\ uri = [t \in Tabs |-> None]
        /\ shared = {}
        /\ sharedUri = {}
        /\ age = [f \in Flows |-> 0]
        /\ stage = [f \in Flows |-> "unused"]
        /\ answered = [f \in Flows |-> 0]
        /\ exchanged = {}
        /\ restored = [f \in Flows |-> "never"]

-------------------------------------------------------------------------------
(* TransactionManager and the original URI.                                    *)

\* Mutant of Expired: entries go a tick too early.
ExpiredEarly == {f \in Flows : age[f] >= Lifetime}

\* What pruneSharedStorage() deletes.
Expired == {f \in Flows : age[f] > Lifetime}

\* Mutant of Load: without an entry it returns no proper value.
LoadNothing(t, f) == IF f \in shared \ Expired THEN f ELSE "undefined"

\* load({ state }) after the pruning: the shared entry, else the tab's own.
Load(t, f) == IF f \in shared \ Expired THEN f ELSE session[t]

\* save(): in the session and, the flow having a state, in the shared storage.
Save(t, f) == /\ session' = [session EXCEPT ![t] = f]
              /\ shared' = shared \cup {f}
              /\ age' = [age EXCEPT ![f] = 0]

\* Mutant of Clear: the given state is ignored.
ClearOwn(t, f) == /\ session' = [session EXCEPT ![t] = None]
                  /\ shared' = shared \ {session[t]}

\* clear({ state }), or clear() when f is None: the shared entry is the one of
\* the given state, else of the transaction in the session.
Clear(t, f) ==
    /\ session' = [session EXCEPT ![t] = None]
    /\ shared' = shared \ {IF f # None THEN f ELSE session[t]}

\* setOriginalUri(): this.options.state decides whether others can find it.
SetOriginalUri(t, f) ==
    /\ uri' = [uri EXCEPT ![t] = f]
    /\ sharedUri' = IF f \in StateFlows THEN sharedUri \cup {f} ELSE sharedUri

\* Mutant of GetOriginalUri: the tab's own URI is preferred.
GetSessionUri(t, f) == IF uri[t] # None THEN uri[t]
                       ELSE IF f \in sharedUri THEN f ELSE None

GetOriginalUri(t, f) == IF f \in sharedUri THEN f ELSE uri[t]

RemoveOriginalUri(t, f) == /\ uri' = [uri EXCEPT ![t] = None]
                           /\ sharedUri' = sharedUri \ {f}

-------------------------------------------------------------------------------
(* The page and its queue of token methods.                                    *)

Alive(t) == where[t] \in {"app", "leaving"}

Queued == UNION {{u} \X DOMAIN queue[u] : u \in Tabs}

Push(t, job) == /\ Cardinality(Queued) < MaxJobs
                /\ queue' = [queue EXCEPT ![t] = Append(@, job)]

\* The running method has settled.
Shift(t) == /\ queue' = [queue EXCEPT ![t] = Tail(@)]
            /\ run' = [run EXCEPT ![t] = Idle]

Running(t, kind) == /\ Alive(t) /\ queue[t] # <<>>
                    /\ Head(queue[t]).kind = kind

\* A document is unloaded: everything that runs in it ends.
Unloaded(t) == /\ queue' = [queue EXCEPT ![t] = <<>>]
               /\ run' = [run EXCEPT ![t] = Idle]
               /\ pending' = [pending EXCEPT ![t] = FALSE]
               /\ login' = [login EXCEPT ![t] = [c \in Calls |-> NoLogin]]

-------------------------------------------------------------------------------
(* signInWithRedirect() and getWithRedirect().                                 *)

MaySignIn(t) == Alive(t) /\ ~pending[t]

\* The URI is saved at once, the request waits in the queue.
SignInWithRedirect(t, f) ==
    /\ MaySignIn(t) /\ stage[f] = "unused"
    /\ pending' = [pending EXCEPT ![t] = TRUE]
    /\ SetOriginalUri(t, f)
    /\ Push(t, [kind |-> "signIn", flow |-> f])
    /\ stage' = [stage EXCEPT ![f] = "asked"]
    /\ UNCHANGED <<where, goal, answer, run, login, session, shared, age,
                   answered, history>>

\* getWithRedirect() asks for the metadata and fails; the original URI stays.
PrepareFails(t) ==
    /\ Running(t, "signIn")
    /\ Shift(t)
    /\ pending' = [pending EXCEPT ![t] = FALSE]
    /\ UNCHANGED <<where, goal, answer, login, stores, flows, history>>

\* It has them: the transaction is saved and the browser told to leave.
Redirect(t) ==
    /\ Running(t, "signIn")
    /\ LET f == Head(queue[t]).flow IN
       /\ Save(t, f)
       /\ where' = [where EXCEPT ![t] = "leaving"]
       /\ goal' = [goal EXCEPT ![t] = f]
       /\ stage' = [stage EXCEPT ![f] = "saved"]
    /\ Shift(t)
    /\ pending' = [pending EXCEPT ![t] = FALSE]
    /\ UNCHANGED <<answer, login, uri, sharedUri, answered, history>>

-------------------------------------------------------------------------------
(* handleLoginRedirect() and parseFromUrl().                                   *)

\* The page has an answer in its URL: take its state and original URI, then ask
\* for the tokens.
HandleLoginRedirect(t, c) ==
    /\ Alive(t) /\ answer[t] # NoAnswer /\ login[t][c].pc = "none"
    /\ LET f == answer[t].flow IN
       login' = [login EXCEPT ![t][c] = [pc |-> "parsing", state |-> f,
                                         uri |-> GetOriginalUri(t, f)]]
    /\ Push(t, [kind |-> "parse", call |-> c])
    /\ UNCHANGED <<where, goal, answer, run, pending, stores, flows, history>>

\* Mutant of StateMatches: an answer to another request is accepted.
AnyState(a, f) == TRUE

\* validateResponse(): the loaded transaction is the one of the answer.
StateMatches(a, f) == a.flow = f

\* Mutant of CleanUrl: the answer stays in the URL.
LeaveUrl(t) == UNCHANGED answer

CleanUrl(t) == answer' = [answer EXCEPT ![t] = NoAnswer]

\* parseFromUrl() finds no answer (an earlier call took it) or no transaction:
\* it throws before anything is cleaned.
ParseFails(t) ==
    /\ Running(t, "parse") /\ run[t] = Idle
    /\ \/ answer[t] = NoAnswer /\ UNCHANGED shared
       \/ /\ answer[t] # NoAnswer /\ Load(t, answer[t].flow) = None
          /\ shared' = shared \ Expired
    /\ login' = [login EXCEPT ![t][Head(queue[t]).call] = NoLogin]
    /\ Shift(t)
    /\ UNCHANGED <<where, goal, answer, pending, session, uri, sharedUri, flows,
                   history>>

\* It takes the answer: the URL is cleaned, the response judged and, when it is
\* good, its code sent to /token with the saved verifier.
Parse(t) ==
    /\ Running(t, "parse") /\ run[t] = Idle
    /\ LET a == answer[t]
           meta == Load(t, a.flow)
           good == a.kind = "code" /\ StateMatches(a, meta)
       IN /\ a # NoAnswer /\ meta # None
          /\ run' = [run EXCEPT ![t] =
                       [pc |-> IF good THEN "exchanging" ELSE "rejected",
                        answer |-> a, meta |-> meta]]
          /\ exchanged' = IF good THEN exchanged \cup {a} ELSE exchanged
    /\ shared' = shared \ Expired
    /\ CleanUrl(t)
    /\ UNCHANGED <<where, goal, queue, pending, login, session, uri, sharedUri,
                   flows, restored>>

\* exchangeCodeForTokens() ends, well or badly: its finally clears whatever
\* transaction the session holds.
ExchangeEnds(t, pc) ==
    /\ Running(t, "parse") /\ run[t].pc = "exchanging"
    /\ Clear(t, None)
    /\ run' = [run EXCEPT ![t].pc = pc]
    /\ UNCHANGED <<where, goal, answer, queue, pending, login, uri, sharedUri,
                   flows, history>>

\* A flow has ended unless the server asks for more interaction.
EndsFlow(r) == r.pc = "resolved" \/ r.answer.kind # "interaction_required"

\* parseFromUrl() settles: it clears the transaction of the answer's state.
SettleParse(t) ==
    /\ Running(t, "parse") /\ run[t].pc \in {"resolved", "rejected"}
    /\ LET r == run[t]
           f == r.answer.flow
       IN /\ IF EndsFlow(r)
             THEN /\ Clear(t, f)
                  /\ stage' = [stage EXCEPT ![f] = "ended"]
             ELSE UNCHANGED <<session, shared, stage>>
          /\ login' = [login EXCEPT ![t][Head(queue[t]).call] =
                         IF r.pc = "resolved" THEN [@ EXCEPT !.pc = "updating"]
                         ELSE NoLogin]
    /\ Shift(t)
    /\ UNCHANGED <<where, goal, answer, pending, uri, sharedUri, age, answered,
                   history>>

\* The auth state is up to date: forget the original URI and go back to it.
FinishLogin(t, c) ==
    /\ Alive(t) /\ login[t][c].pc = "updating"
    /\ RemoveOriginalUri(t, login[t][c].state)
    /\ restored' = [restored EXCEPT ![login[t][c].state] =
                      IF @ = "never" THEN login[t][c].uri ELSE @]
    /\ login' = [login EXCEPT ![t][c] = NoLogin]
    /\ UNCHANGED <<where, goal, answer, queue, run, pending, session, shared,
                   flows, exchanged>>

-------------------------------------------------------------------------------
(* A renewal by the session cookie, which also exchanges a code.               *)

RenewTokens(t) ==
    /\ Alive(t)
    /\ Push(t, [kind |-> "renew"])
    /\ UNCHANGED <<where, goal, answer, run, pending, login, stores, flows,
                   history>>

\* The authorize request in its frame fails or times out.
RenewFails(t) ==
    /\ Running(t, "renew") /\ Shift(t)
    /\ UNCHANGED <<where, goal, answer, pending, login, stores, flows, history>>

\* exchangeCodeForTokens() ends.
RenewEnds(t) ==
    /\ Running(t, "renew")
    /\ Clear(t, None)
    /\ Shift(t)
    /\ UNCHANGED <<where, goal, answer, pending, login, uri, sharedUri, flows,
                   history>>

-------------------------------------------------------------------------------
(* The browser, the user, the server and the clock: external.                  *)

\* The navigation that Redirect() asked for takes place.
Leave(t) == /\ where[t] = "leaving"
            /\ where' = [where EXCEPT ![t] = "away"]
            /\ answer' = [answer EXCEPT ![t] = NoAnswer]
            /\ stage' = [stage EXCEPT ![goal[t]] =
                           IF @ = "saved" THEN "visited" ELSE @]
            /\ Unloaded(t)
            /\ UNCHANGED <<goal, stores, age, answered, history>>

\* The user goes back to the app without an answer.
Back(t) == /\ where[t] = "away"
           /\ where' = [where EXCEPT ![t] = "app"]
           /\ goal' = [goal EXCEPT ![t] = None]
           /\ UNCHANGED <<answer, page, stores, flows, history>>

\* The page is loaded again.
Reload(t) == /\ Alive(t)
             /\ where' = [where EXCEPT ![t] = "app"]
             /\ goal' = [goal EXCEPT ![t] = None]
             /\ Unloaded(t)
             /\ UNCHANGED <<answer, stores, flows, history>>

\* A closed tab loses its session storage.
Close(t) == /\ where[t] # "closed"
            /\ where' = [where EXCEPT ![t] = "closed"]
            /\ goal' = [goal EXCEPT ![t] = None]
            /\ answer' = [answer EXCEPT ![t] = NoAnswer]
            /\ session' = [session EXCEPT ![t] = None]
            /\ uri' = [uri EXCEPT ![t] = None]
            /\ Unloaded(t)
            /\ UNCHANGED <<shared, sharedUri, flows, history>>

\* The server redirects to the app: in the tab that asked or in a new one, as
\* when the user follows a link in an e-mail.
Answer(t, f, kind) ==
    /\ stage[f] \in {"visited", "ended"} /\ answered[f] < MaxAnswers
    /\ \/ where[t] = "away" /\ goal[t] = f
       \/ where[t] = "closed"
    /\ where' = [where EXCEPT ![t] = "app"]
    /\ goal' = [goal EXCEPT ![t] = None]
    /\ answered' = [answered EXCEPT ![f] = @ + 1]
    /\ answer' = [answer EXCEPT ![t] = [flow |-> f, id |-> answered[f] + 1,
                                        kind |-> kind]]
    /\ UNCHANGED <<page, stores, age, stage, history>>

Tick == /\ age' = [f \in Flows |-> IF f \in shared /\ age[f] <= Lifetime
                                   THEN age[f] + 1 ELSE age[f]]
        /\ UNCHANGED <<where, goal, answer, page, stores, stage, answered,
                       history>>

-------------------------------------------------------------------------------
TabNext(t) ==
    \/ \E f \in Flows : SignInWithRedirect(t, f)
    \/ PrepareFails(t) \/ Redirect(t)
    \/ \E c \in Calls : HandleLoginRedirect(t, c) \/ FinishLogin(t, c)
    \/ ParseFails(t) \/ Parse(t) \/ SettleParse(t)
    \/ \E pc \in {"resolved", "rejected"} : ExchangeEnds(t, pc)
    \/ RenewTokens(t) \/ RenewFails(t) \/ RenewEnds(t)
    \/ Leave(t) \/ Back(t) \/ Reload(t) \/ Close(t)
    \/ \E f \in Flows, kind \in Kinds : Answer(t, f, kind)

Next == Tick \/ \E t \in Tabs : TabNext(t)

Spec == Init /\ [][Next]_vars

-------------------------------------------------------------------------------
(* Properties.                                                                 *)

\* A code is only ever exchanged with the verifier of its own flow, whichever
\* tab the answer reaches and whatever transaction that tab's session holds
\* (load() falls back to the session, validateResponse() compares the states).
VerifierIsOwn ==
    \A t \in Tabs : run[t].pc = "exchanging" => run[t].meta = run[t].answer.flow

\* No code is sent to /token twice, however often the page is reloaded or
\* handleLoginRedirect() called for it: the URL is cleaned before the first
\* request (parseFromUrl.ts:110).
ExchangedOnce ==
    [][\A t \in Tabs : run[t].pc = "idle" /\ run'[t].pc = "exchanging"
                       => run'[t].answer \notin exchanged]_vars

\* A flow that has ended, well or badly and in any tab, leaves no entry with its
\* verifier in the storage the tabs share (parseFromUrl.ts:117-128).
EndedLeavesNothing == \A f \in Flows : stage[f] = "ended" => f \notin shared

\* An entry that has not expired leaves the shared storage only when the answer
\* to its flow is being handled, or in a tab whose session holds that flow: no
\* tab destroys what another one waits for.
OwnFlowsOnly ==
    [][\A f \in shared \ shared' :
          \/ age[f] > Lifetime
          \/ \E t \in Tabs : run[t].answer.flow = f /\ run'[t] # run[t]
          \/ \E t \in Tabs : session[t] = f /\ session'[t] = None]_vars

\* When the app chose the state of a flow, the first login it leads to returns
\* to its own URI, in whichever tab it ends and although other flows of that
\* tab overwrite or remove the URI in the session (mixin/browser.ts:36-50).
RestoresOwnUri == \A f \in StateFlows : restored[f] \in {f, "never"}

\* "Shared storage allows continuation of transaction in another tab"
\* (TransactionManager.ts:91): a flow the server is busy with, that has not
\* expired and no code of which was used, can be loaded by its state.
StaysLoadable ==
    \A f \in Flows : /\ stage[f] = "visited" /\ age[f] <= Lifetime
                     /\ \A a \in exchanged : a.flow # f
                     => f \in shared
===============================================================================
