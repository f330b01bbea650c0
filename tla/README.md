# okta-auth-js in TLA+

This directory holds a TLA+ model of the parts of okta-auth-js in which order
matters: the queue that serialises asynchronous calls, the token manager with
its timers and its renewals, the evaluation of the auth state, the services and
the tabs that follow each other, the ways to sign in (redirect, popup and frame,
IDX, Authn), the verification of tokens, DPoP keys, and storage. TLC checks them
on small instances; TLAPS proves what is checked of them for every instance, but
for what must eventually happen. Paths below are relative to
`src/lib`.

## 1. The system

okta-auth-js is a client library. One `OktaAuth` object lives in one page (or
Node process). JavaScript runs one piece of code at a time, so all concurrency
comes from *when* a promise callback, a timer, a message of another tab, an
answer of the server or a call of the application runs.

| Component | State | Operations | Hard behaviour |
|---|---|---|---|
| `PromiseQueue` (util/PromiseQueue.ts) | `queue`, `running` | `push`, `run` | reentrant pushes, promises that settle late, methods that throw |
| `TokenManager` (oidc/TokenManager.ts) | the token storage, `expireTimeouts`, `renewPromise`, `started` | `setTokens`, `add`, `remove`, `clear`, `renew`, `start`, `stop`, `updateRefreshToken`, pending-remove flags | timers against storage, one renewal shared by several callers, reloads |
| Renewal (oidc/renewTokens.ts, renewTokensWithRefresh.ts; queued in oidc/factory/api.ts) | none of its own | `renewTokens` | refresh token rotation, `invalid_grant`, lost answers |
| `AutoRenewService` (services/) | `renewTimeQueue`, `started` | handler of `expired` | throttling |
| `AuthStateManager` (core/) | `_authState`, `_pending`, `_transformQueue` | `updateAuthState` | cancellation and its limit, subscribers that update again |
| OIDC mixin (oidc/mixin/) | `_pending.handleLogin` | `isAuthenticated`, `signInWithRedirect`, `storeTokensFromRedirect`, `revoke*`, `signOut` | awaits between reading and removing tokens |
| Core mixin, `ServiceManager`, `LeaderElectionService` | `started` of each | `start`, `stop`, `onLeader` | start, stop and leadership in any order over awaits |
| `SyncStorageService` | `enablePostMessage` | replay of events of other tabs | late messages, loops |
| `RenewOnTabActivationService` | `lastHidden` | visibility handler | two expired tokens, one renewal |
| `TransactionManager`, shared storage | session and local storage | `save`, `load`, `clear` | several flows and several tabs over one storage |
| Redirect login (getWithRedirect, parseFromUrl, exchangeCodeForTokens, handleOAuthResponse) | the saved transaction, the URL | a flow over two page loads | reload, flows that end each other |
| Popup and iframe login (getToken, getWithPopup, getWithoutPrompt) | listeners, timers | one promise per flow | answer, timeout and closed window racing |
| Token validation, DPoP | none; key pairs in IndexedDB | `verify`, token requests | nonce retry |
| Storage (storage/, browser/browserStorage.ts) | cookies, local, session, memory | get, set, clear | an object over several cookies |
| HTTP (http/, fetch/) | response cache, visibility time | `httpRequest` | cache, polling retry |
| Authn (authn/) | `isPolling` | poll, transactions | stop and retry of a poll |
| IDX (idx/) | saved meta and last response | `run`, `remediate`, `poll` | long protocol with a saved state |
| Session, MyAccount, crypto, features, errors | none | one request or a pure function | none of this kind |

How they interact. The application calls the token manager and the methods of
`token`; those of `token` that talk to the server go through one
`PromiseQueue`. The token manager emits `added`, `removed`, `renewed`,
`expired` and `error`; these are synchronous calls of the subscribers.
`AutoRenewService` answers `expired` with `renew()` or `remove()`.
`AuthStateManager` answers `added` and `removed` with `updateAuthState()`, which
calls `isAuthenticated()`, which may itself renew or remove tokens.
`SyncStorageService` posts the events to the other tabs, which replay them over
the storage they share.

What makes each part correct: the queue never overlaps two methods and never
strands one; timers, events and the renewal promise agree with the storage
after any interleaving; a replaced refresh token is not presented again; the
published auth state ends up being that of the stored tokens, never goes back,
and every caller of `updateAuthState()` is answered; only the leading tab renews
and some tab does; a code is exchanged once, with the verifier of its own flow;
after a sign-out that cleared the tokens, or revoked what it left, no tab has them
again; what is saved is found again, and what ended is
not; a token is returned exactly when what was to be checked of it is right.
`PROJECT.json` lists the hazards line by line, with the property that covers each or the reason why
none does yet.

## 2. The modules

### PromiseQueue, SerialExecutor

`SerialExecutor` is what the queue promises: calls begin one at a time, in the
order of submission, and every one of them ends. `PromiseQueue` is the code.
Its `control` variable is the call stack, which the hazards here depend on:
`"loop"` is the event loop, `"run"` is `run()` before its first test,
`"method"` the method that `run()` just called. `starter` is the call whose
`push()` is on the stack: when a method throws inside its own `push()` the
`Promise` constructor turns the throw into a rejection; inside another `run()`
nobody settles it. `phase` follows each call from `push()` to its `finally`.
Each call of `push()` is a constant of `Calls`, made at most once.

The refinement mapping takes `queue` as the pending calls, those executing or
awaited as active, and those answered or thrown as ended.

### TokenManager

One tab. A token is a version number that grows with each response of the
server, 0 is none; the storage maps the three types to versions. Macrotasks
(calls of the application, timers, answers of the server, a reload) start only
when no microtask is left; the promise callbacks of a renewal are the
microtasks, in `jobs`, in the order in which `renew()` and the queue chain
them: `applyTokens` (then), `forward`/`forwardError` (a callback the outcome
passes by), `removeToken` (catch), `forget` (finally), `release` (the queue's
own finally). That order is what decides which storage the next queued renewal
reads.

`setTokens` is one step: storage, timers, events and the renewal promise, with
the loop over the types folded into functions. Event handlers other than the
service's are not run inside it; `AuthStateManager` models the one that
matters. `view` is the belief of a subscriber that follows `added` and
`removed`. `issued`, `spent` and `lost` are the server's side: the newest
version, the refresh tokens it replaced, and those whose replacement never
reached the client. The server may rotate or keep a refresh token, may drop the
answer, and refuses a spent one; it is modelled from what the client must
survive. When a timer fires is left open: it may fire at any moment after it is
set.

Kept out: custom storage keys (`getStorageKeyByType` finds the type itself),
the IE11 `set_storage` event, `resetExpireEventTimeoutAll`, handlers that
throw. The service runs here whenever the manager is started: when it does, and
in which tab, is in `ServiceManager` and `TokenSync`.

### AuthStateManager

The content of the storage is a version number. An evaluation goes from
`checking` (awaiting `isAuthenticated()`), to the `line` of transforms, to
`settled`. What `updateAuthState()` does before it returns is a function on a
record (`Update`), because it can be nested: `setTokens` causes several updates
in one step, a subscriber may update while a state is emitted
(`PublishesToReacting`), and `isAuthenticated()` may remove an expired token
before it returns (`UpdateRemoving`), in which case storing the outer promise
wipes the inner one from `_pending`. With no `transformAuthState` the promise is
resolved at once, which is a transform that takes no time. `refused` and
`orphaned` are history variables: the last update hit the limit; an evaluation
ran on that `_pending` did not name.

`CancelablePromise` appears as the set `canceled`. `isSameAuthState` only
decides whether an event is emitted, so a state that is the same is published
without an event to react to. A subscriber that throws (`PublishesToThrowing`)
skips the rest of `emitAndResolve()`, whose caller catches it and emits the
error as a new state (`catching`); when one throws at that state as well, nothing
catches it, the evaluation never settles (`stuck`) and its callers wait for good.
An `isAuthenticated()` that rejects and renewals inside `isAuthenticated()` are not modelled: the answer
may come at any later moment and the tokens may change before it.

### Transactions

Several tabs, each with its session storage, over one local storage. A flow is
one authorization request and names its `state`, its code verifier and its
original URI at once, so a mix-up is an inequality of two flows. `queue` is the
page's token queue (`PromiseQueue`, here only its order), `run` how far the
running method has come, `login` the calls of `handleLoginRedirect()`, `pending`
is `_pending.handleLogin`. A sign-in saves its URI, waits in the queue, saves the
transaction and leaves; the server answers in the same tab or in a new one, with
a code, an error or `interaction_required`; `Parse` is the synchronous part of
`parseFromUrl` (load, clean the URL, judge), `ExchangeEnds` the `finally` of
`exchangeCodeForTokens`, `SettleParse` the `catch` or `then` with its `clear`.
Unloading a page, by leaving, reloading or closing it, ends everything that runs
in it and keeps the storages. `StateFlows` are the flows for which the
application chose the state, so that `setOriginalUri` also uses the shared
storage.

A renewal by session cookie is in the module because it ends in the same
`exchangeCodeForTokens`; one by refresh token does not touch the transaction.
Reads and writes of one call on a storage are one step, as they are within one
browser process. `Tick` ages an entry while it is there. A method at the head
of the queue may begin any time after it was pushed, where the code begins the
first one at once. Kept out: the implicit flow, `enrollAuthenticator`,
`enableSharedStorage: false`, the tokens themselves (`TokenManager`), the
transactions that the IDX flows save (`IdxTransactions`).

### ServiceManager

`start()` and `stop()` of several tabs, with `onLeader`. Each call of the
application, and each gain of leadership, is an entry of `calls[t]` with the
place where it goes on: the service of that place in `knownServices`, or one of
the awaits after the loop. An await of a settled promise goes on in a microtask,
and `jobs[t]` keeps their order; closing a channel and announcing the death of
an elector take longer (`Closed`). `running` is what is `started` of the
services, `elector` the state of the elector, `ears` the sync channels with a
message handler: `stop()` overlapped by `start()` can leave one open that no
field names, which is `lost`. An elector that a later `start()` replaces is not
followed any further.

`overlap` marks the tabs whose properties are not claimed. In the code too,
`start()` awaits each service and sets `started` at the end, so that a `stop()`
or a `start()` in between leaves a mix of both, and leadership that arrives
during a `stop()` starts `AutoRenewService` behind it.

### TokenSync

The tokens of several started tabs over one local storage, at a coarser grain
than `TokenManager`: one key stands for the timed tokens, a token is a version,
`setTokens` and `remove` are `Store`. `wire[s][r]` are the messages that `r` has
not received yet; a closed tab loses its own, not what it posted. `BecomesLeader`
is `AutoRenewService.start()`, which looks for tokens that expired before;
`ReturnsToTab` is `RenewOnTabActivationService`; and `Open` is the next
`start()`, which removes what is flagged with `pendingRemove`. The `removed`
that a replay causes is not posted again (`enablePostMessage`). `Renew` merges
renewals queued behind each other.

`SignOut` and what follows are `signOut()` over its requests. It revokes what
is stored when it begins, or nothing when it is told not to or nothing is stored
(`SignOut`); it may revoke the access token only, after which the refresh token
still renews (`SignOutRevoked`). With an ID token it clears the storage or flags
the tokens stored by then (`RedirectToLogout`); without one it closes the
session first (`CloseSession`), and clears the storage if that is done
(`SessionClosed`) but not if there was no session (`NoSession`). A request that
fails ends it with the tokens still stored (`SignOutFails`).

Not all of these sign the user out of the library, though README.md:1138 says
that `signOut()` "clears all tokens stored locally in the `TokenManager`".
`SignedOutStaysOut` is about those that do (`Lasts`): the storage was cleared, or
what was flagged is revoked, and no other tab was renewing. Excluded by name are

* `NoSession`: `closeSession()` swallows `E0000007` and returns false
  (session/mixin.ts:36), and the page is left with the tokens as they were, not
  even flagged;
* tokens that are flagged and not revoked (`revokeRefreshToken: false`, or tokens
  stored while the revocations were under way): another tab that is open renews
  them, and what it stores has no flag;
* a renewal of another tab that is answered after `signOut()` or `clear()`: it puts
  tokens back.

Nor does any property deny that a message which crosses a write clears or sets the
timer of a newer token: `TabsFollow` and `LeaderAttends` hold until then (`crossed`).

### TokenFlows

`getWithoutPrompt`, `getWithPopup` and `getWithIDPPopup`: per flow its stage, what
the caller was told, and what it has in the page (frame, popup, listener with
its timer, poller, broadcast channel). Messages wait in `inbox`; the answers of
the server, messages of others and the closing of the popup come in any order.
The first two kinds wait in the token queue, `line`, so a popup is opened only
when its turn comes. Left as the code has them: when the parameters cannot be
prepared a popup and a channel stay open (`PrepareFails`); the popup of an
identity provider is closed by its own page; a blocked one leaves its listener
until the timeout.

### IdxTransactions

The calls of `authClient.idx` over the saved transaction: `run()` with its
requests as stages (`interact`, `introspect`, `remediate`, `exchange`), `start`,
`authenticate` and the other flows, `proceed`, `cancel`, over the session
storage, the response in memory and the shared storage. Any calls of a tab may
overlap. Not modelled: the `stateHandle` option and a state that the application
chooses at `start`. The code lets a call that overlaps save a transaction that
another has cleared, and lets a second tab finish one whose shared entry then
stays until it is pruned: `gone` holds the interactions that no other call or
tab had (`Only`), whatever stage those calls are at. Continuing by state in a tab that has another transaction
clears that tab's own one. `idx/poll.ts:43` drops `withCredentials` and
`exchangeCodeForTokens` in its recursion, and the default step mode of
`handleEmailVerifyCallback` and `poll` proceeds without a step.

### Remediation

One call of `remediate()`: the forms of a response, the values, authenticators
and actions the caller gave, and what each remediator needs (`can`), submits
(`takes`) and removes from the values afterwards (`trims`). A value is its
name. A list that is filtered keeps its length (`Without`). `Keeps` names what is submitted and yet kept: `otp` and `passcode`, the
password of `enroll-profile`, `methodType` when an account is unlocked. `skip`
is never removed, and a password is preset again (`PresetsPassword`). A resend
is dropped whenever an action ran (`RunsAction`). `ReEnrollAuthenticator` needs
`stateHandle`, which the base class has removed after any other form. A phone
number alone never answers `enrollment-data`. `SelectsCurrent` is a divergence
of `remediate()` from `getRemediator()` (remediate.ts:202), modelled and claimed
by no property.

### AuthnPoll, AuthnTransactions

`AuthnPoll` has the polls of one Authn transaction: they share `isPolling`,
which another link resets. A poll asks, waits, backs off after status 0 or 429,
and with `pollDelay` waits for a visible document; a request held for the
document is still sent after the poll was stopped. `AuthnTransactions` has the
requests of all transactions and the cookie with the state token, which every
request may write (http/request.ts): answers arrive in any order or never. The
module keeps what the code does: `post()` saves the state by default, so
`refreshSession`, `revokeToken` and token introspection delete the cookie;
`E0000011` deletes it whichever transaction it is about; the last answer of a
poll leaves the cookie of a transaction that is over. `dropped` and `loose`
name these cases.

### TokenVerification

What is checked of an answer. `options` are those of the constructor, `Prepared`,
`Meta`, `Enrolling`, `Refreshing` and `Exchanged` carry the parameters over the
steps at which the code rebuilds them, and `HandleOAuthResponse`,
`ValidateClaims`, `GetKey` and `KeysArrive` judge the answer, with at most one
thing wrong with it. The answer of a redirect lands on a page (`PlaceOf`), where
`HandleRedirect` looks at it if `IsLoginRedirect`, which goes by the options of
the client, and `ParseFromUrl` without asking: the answer to an enrollment, or
to a request that unset `pkce`, can be ignored. Keys rotate and are withdrawn at any time; the cache, which
the tabs share, may expire at any time. `Demanded` says, from the options and the
request alone, what has to be checked. A nonce has to be whenever the request had
one, as README.md:1525 says; but it is not handed on with a code, so with PKCE it
never is. `VerdictIsRight` holds but for that flaw, which it names, and
`NonceIsValidated` is refuted by a run of its own. Not demanded, because no text
says so, is what the code leaves out besides: `acr_values` is not checked on
refresh, `dpop` is lost after an implicit redirect, and a refresh accepts missing
tokens. Not
modelled: `dpop`, `responseMode` or `responseType` set per request, browsers that cannot verify signatures, and a
well-known configuration that changes.

### DPoPKeys

The key pairs in IndexedDB, and the tokens as numbers of the pair they are bound
to: the code exchange makes a pair, a renewal finds it, a nonce is demanded at
most once per request, and revocation, `signOut()` and `clearDPoPStorage()`
delete it. A revocation removes its token at once and waits for IndexedDB to delete
the pair (`deleting`, `DeletePair`); calls go on in between. `signOut()` and
`clearDPoPStorage()` delete pairs under tokens that may stay, so theirs are excused
and go in one step. A pair whose request failed, or whose tokens were replaced, stays in
IndexedDB, as in the code. `excused` are the pairs deleted under a call that
stores tokens for them later.

### Storage

Objects saved under a name, in local and session storage, cookies or memory of a
browser, or the memory of a server. A storage is chosen at each use (`Chosen`),
the first of its list that takes a test item; the `TokenManager` keeps the one
it found. Tokens in cookies lie in a cookie each (`Separate`), and a cookie that
is too large is ignored. `saved` is a history variable: the objects a place may
hold. On a server the IDX response lies in the transaction, so saving one
drops the other. A transaction that is read there has the response as one more
property, of a name that none of its own fields has (idx/storage.ts:46); `Read`
gives the fields of the transaction without it, as the properties compare what was
saved with what is read. `ReadsBack` is per place: when a storage fills up between two
uses another place is read, and what was saved in the first appears again when
there is room. One tab works at a time, and no name begins with another
(cookies are matched by prefix, browserStorage.ts:181). Custom providers and
IE11 are left out.

## 3. The runs

| Run | Bounds | Shows |
|---|---|---|
| `queue` | `PromiseQueue`: 4 calls, one may throw; `TokenManager`: 2 renewals, 2 responses | `OneAtATime`, `WaitersAreDriven` and, under fairness, `ImplementsSerialExecutor`; `RenewalsEnd` |
| `queue_stall` | 3 calls, one may throw | **violation** of `EveryCallSettles` |
| `tokens` | `TokenManager`: 2 renewals, 3 responses of three shapes; `ServiceManager`: 2 tabs, 4 calls of `start` and `stop`, two sets of options | `TimersMatchStorage`, `EveryTokenWatched`, `SubscribersSeeStorage`, `NoRefreshTokenReplay`; `OnlyLeaderRenews`, `LastCallDecides` |
| `tokens_renewed_twice` | 2 renewals, 2 responses | **violation** of `TokenRenewedOnce` |
| `tokens_expired` | 2 renewals, 1 response | **violation** of `ExpiredIsHandled` |
| `answered` | `AuthStateManager`: 4 evaluations, 4 versions, limit 2, one caller, subscribers that update or throw; `TokenFlows`: 2 flows of any kinds, 2 messages each; `AuthnPoll`: 2 polls, 2 retries, 1 failed load; `ServiceManager`: 2 tabs, 3 calls | `LastStateIsCurrent`, `StateIsConsistent`, `NeverGoesBack`, `CallersSeeTheirTokens`, `CallersAreAnswered`; `FlowsEnd`, `NoLateExchange`; `StoppedPollsEnd`; `SomebodyRenews` |
| `auth_state_limit` | the auth state alone, no reactions | **violation** of `AuthStateIsCurrent` |
| `transactions` | `Transactions`: 2 flows (one with a chosen state), 2 tabs, 2 logins per page, 2 queued methods, 1 answer per flow, entries live 1 tick; `TokenSync`: 2 tabs, 2 responses, one `signOut()` at a time | `VerifierIsOwn`, `EndedLeavesNothing`, `RestoresOwnUri`, `ExchangedOnce`, `OwnFlowsOnly`; `TabsFollow`, `SignedOutStaysOut`, `LeaderAttends` |
| `transactions_lost` | `Transactions` as before, one login per page, 1 queued method | **violation** of `StaysLoadable` |
| `sign_in` | `IdxTransactions`: 2 tabs, 2 calls at a time, 2 interactions, 3 calls; `Remediation`: 3 requests, every form; `AuthnTransactions`: 2 calls, 2 transactions; `TokenVerification`: 2 requests, 2 keys; `DPoPKeys`: 2 calls, 2 pairs; `Storage`: 2 tabs, 2 writes | `CodeWithItsVerifier`, `FinishedLeavesNothing`; `NoValueTwice`; `ResumesInProgress`; `VerdictIsRight`; `BoundTokensUsable`; `ReadsBack` |
| `enrollment_ignored` | the same | **violation** of `EnrollmentIsHandled` |
| `nonce_dropped` | the same | **violation** of `NonceIsValidated` |

Every passing run checks several modules that share no state. A variable (`part`,
`level`) says which of them a behaviour is of, and the others do not move, so that
nothing is checked of a mixture that the program does not have.

Why the bounds are enough. *Queue*: a call that runs, one that throws inside
another's `run()`, one that waits behind both and one pushed by a method are
four. *Tokens*: two renewals are one under way and one queued, or an old one
whose `finally` meets a newer one; three versions are a login, a renewal and a
token that overtakes it. The renewals are symmetric (only invariants are
checked under symmetry). *Auth state*: `MAX_PROMISE_CANCEL_TIMES` is 10 in the
code and 2 in the model, with four evaluations: one, two cancellations, the
refusal, and a new one after the count starts afresh; a limit of 10 needs only
more changes to be reached. *Transactions*: a mix-up takes two flows and two
tabs; a code used twice takes a second login on the page, queued behind the
first, or a reload; an entry may be younger than its lifetime, just as old, or
older. Tabs and logins are symmetric (only safety is checked). *Services*: four
calls are a start, a stop and a start in one tab with a start in the other; the
options are those that need a leader and those that do not; `SomebodyRenews`, which
is checked with the graph of all behaviours, has three. *Tokens of tabs*:
one that expires and the one that replaces it; a second `signOut()` begins when the
first has ended (`MaxSignOuts`; the proof has any number at a time). *Flows*: two are one that runs
and one that waits; two messages are an answer and a second one after it.
*Polls*: one that was stopped and one started anew. *IDX*: two interactions are
the saved and the new one; three calls are two that overlap and one after them.
*Remediation*: the third request is the first that could repeat the one before
its predecessor. *Authn*: the transaction in progress and one that ended.
*Verification*: one request whose answer may be wrong, another that asks for keys
at the same time, and a key that replaces another. *DPoP*: a pair in use and a
new one. *Storage*: an object and the one that replaces it, in one tab or two.

`CHECK_DEADLOCK FALSE` is set where the calls or evaluations are used up: the
queue with all calls made, the auth state with all evaluations made, the flows
and polls that are over, a `remediate()` that returned, services with all calls
made. The token manager, the transactions and the tabs over one storage always have
an enabled step.

Fairness. `PromiseQueue`: the engine goes on with the code on its stack and
with settled promises, and a promise a method returned settles (requests time
out). `TokenManager`: microtasks run, and a request under way is answered or
fails; timers and the application are not assumed to do anything.
`AuthStateManager`: `isAuthenticated()` and the transform answer, callbacks run.
`ServiceManager`: microtasks run, channels close, and a leader is found while
there is a candidate. `TokenFlows`: requests are answered, timers fire, posted
messages are delivered. `AuthnPoll`: requests are answered and timers fire, for
each poll. The other modules: none, their properties are safety.
No fairness forces the application to call anything.

`JoinedRenewalIsLive` is proved and in no run: the code drops the promise
twice, in `setTokens` or `remove` and again in `finally`, so no single slip
breaks it.

Every property of a passing run has a mutant in the module it mutates, right
before the definition it stands for: a plausible slip in that handler that TLC
then finds.

### What the violations say

* `EveryCallSettles`. `run()` sets `running` and calls the method with no
  `try`. A method that throws before it returns a promise closes the queue for
  good. The methods of `token` are mostly async functions; a
  `transformAuthState` of the application need not be.
* `TokenRenewedOnce`. Clearing any key's timer drops the shared promise:
  `renew('idToken')`, `remove('accessToken')`, `renew('idToken')` renews the
  same ID token twice.
* `ExpiredIsHandled`. Both tokens expire; the second joins the first's renewal;
  it fails; only the first is removed. The other stays, with its timer spent.
* `AuthStateIsCurrent`. After the limit an update only waits for the evaluation
  under way, which may have taken its tokens already. `setTokens` of a renewal
  emits up to six events, so two renewals in a row reach the limit of ten.
* `StaysLoadable`. `exchangeCodeForTokens()` ends with `clear()` and no state.
  The user begins a sign-in, the page renews its tokens by session cookie (or
  the user goes back and the page does), and the renewal deletes the shared
  entry of that sign-in; its answer then finds no verifier in any tab. The
  end of another flow's exchange in the same page does the same. The entry is
  only removed by the tab whose session holds the flow: `OwnFlowsOnly`, which
  is proved, is what remains true.
* `EnrollmentIsHandled`. The answer to a successful `enrollAuthenticator()` has a
  `state` and nothing else, so `isLoginRedirect()` is false and `handleRedirect()`
  returns with nothing done: the saved transaction and the original URI stay.
  `storeTokensFromRedirect()` has a branch for this answer, which is reached only
  by an application that calls it, or `parseFromUrl()`, itself.
* `NonceIsValidated`. `prepareTokenParams()` makes a nonce, the request sends it, and
  `handleOAuthResponse()` has it when the code comes; `exchangeCodeForTokens()` then
  makes the parameters anew, without it, and `validateClaims()` compares nonces only
  if it is given one. The nonce of the ID token of a PKCE flow is not looked at.

The passing properties state these provisos where they need them (`Stalled`,
`refused`, `orphaned`, `Stuck`); dropping any of them makes TLC find a counterexample.

## 4. The proofs

`PromiseQueueProofs` proves, for any set of calls of which any subset may throw,
type correctness, `OneAtATime`, `WaitersAreDriven` and `BeginsInPushOrder` (the
safety part of `ImplementsSerialExecutor`). The inductive invariant ties
`control`, `running`, the queue and the phases together: the queue holds each
queued call once and no other; `running` is set exactly while a call executes,
is awaited or answered, or after a throw; at most one call is in that state;
`control = "method"` exactly while one executes. Mutual exclusion alone is not
inductive: it needs to know that `running` covers the phase between a settled
promise and its `finally`.

`TokenManagerProofs` proves, for any number of renewals, versions and any set of
answers, type correctness, `TimersMatchStorage`, `SubscribersSeeStorage`,
`JoinedRenewalIsLive`, `EveryTokenWatched` and `NoRefreshTokenReplay`. The first
two hold in every handler once refresh tokens are known never to get a timer; the
third needs the shape of `jobs` (which jobs can be pending, of which renewal, in
which phase) and that the queue holds renewals that are not over. The two others
have inductive invariants of their own. A token whose timer is spent is left to a
renewal, which ends at one callback: `EngineInvariant` says that the queue
holds each waiting renewal once (`QueueInOrder`), that a renewal that settles has
one callback at a time (`JobsInOrder`), and that one which has nothing left to do
but to be forgotten leaves its token watched (`NothingLeftUnwatched`).
`RotationInvariant` says that the refresh tokens in the storage, and those that a
callback is about to store, were not replaced by the server, or their replacement
was lost (`StoredIsUsable`).

`AuthStateManagerProofs` proves, for any number of evaluations, versions, callers
and cancellations, and for subscribers that update, or throw, or do neither, type
correctness, `LastStateIsCurrent`, `NeverGoesBack`, `StateIsConsistent` and
`CallersSeeTheirTokens`. All rest on the order of the transform queue: its
evaluations took their tokens in the order in which they wait, and none took
older ones than were published (`LineInOrder`). That the last state is current
needs besides that, as long as no update was refused, the evaluation in
`_pending` takes the tokens it judges (`Judged`) and the current ones are
published or will be by an evaluation that is not canceled (`NotForgotten`);
and that an evaluation which an update cannot cancel has been counted in
`orphaned` (`Counted`). `updateAuthState()` is a function on records, so what one
update, two, or one inside another makes of a record is a lemma (`Grows`) that
every action cites. A section on `TokenFlows` proves `NoLateExchange`
(`FlowsInvariant`): the queue holds the flows under way, each once, of which only
the first has begun (`LineOK`), and a flow has its listener, its timers, its
request and a caller who waits at the stages that have them and at no other
(`FlowOK`); a caller who cancelled leaves a channel that nobody hears. With the
types of `AuthnPoll` these give `Types` of `MCAnswered`.

`TransactionsProofs` proves, for any number of flows, tabs and calls, type
correctness, `VerifierIsOwn`, `EndedLeavesNothing`, `RestoresOwnUri`,
`ExchangedOnce` and `OwnFlowsOnly`. A running `parseFromUrl` holds a genuine
answer (`RunInv`), so the `clear` that ends a flow is given its state. The
argument for `RestoresOwnUri` is a chain: the flow of a queued sign-in, an
answer or a running method was begun (`BegunInv`); the URI of a begun flow stays
in the shared storage until one login restores it, and each login under way
till then holds it (`UriInv`). That a code is used once needs that an answer is
in one URL at most and leaves it when it is exchanged (`AnswerInv`). At its end the results of
`TokenSyncProofs` are carried over to `MCTabs`, whose steps are shown to be steps
of one of its modules.

`ServiceManagerProofs` proves, for any set of tabs and of options and any number
of calls, type correctness, `OnlyLeaderRenews` and `LastCallDecides`;
`TokensProofs` carries them over to `MCTokens`. The last speaks of a tab whose
calls are all over, so the invariant has to say what a tab looks like at every
await before: who can be under way together (`Alone`, `Together`), what a
`start()` has started at each place (`Started`, `Complete`) and what a `stop()`
has stopped (`Stopped`, `Channel`, `Election`). It says so of the tabs whose
calls do not overlap (`TabOK`); only the queue of microtasks (`InLine`) has to
be known in every tab, because a leader is told when the queue is empty.

`TokenSyncProofs` proves `TabsFollow`, `SignedOutStaysOut` and `LeaderAttends` for
any set of tabs and any number of versions. They are about all the traffic
between the tabs: the last message under way from each tab that tells is of the
stored token (`LastIsStored`), nothing is under way to a closed tab
(`OnlyToOpenTabs`), a tab that has heard everything watches the stored token
(`AllWatch`), and after a sign-out that is to last (`Lasts`) no renewal is left that
could be answered (`NothingToRenew`): this says nothing of the sign-outs that leave
tokens, see the module.

`SignInProofs` has six sections, for any bounds of `MCSignIn`. *IDX*
(`IdxInvariant`): interactions are numbered in the order in which they begin, and
neither a call nor a storage holds one that is over. Without the calls
`FinishedLeavesNothing` is not inductive, since each of them may save what it
holds. *DPoP* (`KeysInvariant`): the pair under a call that will store tokens is
stored or excused, as that of a token is; and no token or call has one that is still
to be deleted after a revocation (`Unused`), or it is excused. *Authn* (`AuthnInvariant`): what an
answer under way says stays true until it arrives (`Truthful`), because the server
gives a new transaction a new number; so an answer that empties the cookie does
not take it from the transaction in progress that it names. *Verification*
(`VerifyInvariant`): the parameters are made anew three times on the way of a
request, so the invariant says for each of them what of the options and of the
request is left in it (`Carried`), which checks a request passed at its stage
(`Passed`), and that a key which was not among those served is not published
again (`Withdrawn`); that a verdict is right follows once what `Demanded` collects
is taken apart (`DemandsSays`, `AcceptsRight`, `RefusesRight`), with the nonce of
an ID token that came for a code as the one flaw that is let pass. *Storage*
(`StorageInvariant`): `ReadsBack` speaks of the places where the sections are now
and is not inductive, since a storage that fills up moves them; the invariant
speaks of every place a section can be in. *Remediation* (`RemediationInvariant`):
`NoValueTwice` follows from what is left (`Consumed`). What was submitted and should
be gone is in none of the values, the list of authenticators and their data, and a
password among it is not preset again. A remediator removes or keeps by name all that
its form submits (`CredentialsTrimmed`, `TakesTrimmed`, by the classes of
remediators). The six invariants together give `Types` of `MCSignIn`.

The proofs rest on the modules' named assumptions only: `NoCall` is no call,
`NoRenewal` no renewal, `NoTab` no tab, `None` and `"never"` no flows, the bounds
are natural numbers, answers are sets of keys, options are sets of options, and
there is a tab for the IDX calls and a first signing key. What callers give to
`remediate()` and what servers answer is anything of the types of `Remediation`
(`InputsAssumption`): a form asks for credentials too only if it identifies or enrolls
the user, and for a method only of an authenticator that is no password. `TokenSync` names its
assumption (`SyncAssumption`), which `MCTabs` makes (`TabsAssumption`), and
`ServiceManager` its own (`ServicesAssumption`), which `MCTokens` makes
(`CallsAssumption`). What is
tried of a request or of an object is what `MCSignIn` defines (`SomeArguments`,
`SomeAsks`, `SomeObjects`). TLC evaluates each
of them in a run.

Only model-checked are the liveness properties (`RenewalsEnd`,
`CallersAreAnswered`, `SomebodyRenews`, `FlowsEnd`, `StoppedPollsEnd`, the
fairness part of `ImplementsSerialExecutor`), which are out of the prover's
reach. Every invariant and every action property of the passing runs is proved.

## 5. Not modelled, and the plan

Not to be modelled: JWT decoding, signatures and PKCE hashing (cryptography; what
the code does with their verdicts is in `TokenVerification`), session and
MyAccount calls (one request each, no state of their own), fingerprint, WebAuthn
conversions, feature detection, error classes, the type declarations, and the
sample applications and generated code, which are no part of the library.

Planned, most important first:

1. Handlers of the token manager that throw (`setTokens` half done), and an
   `isAuthenticated()` that rejects.
2. A property for `remediate.ts:202`, and two tabs that read, change and write
   the shared transactions with other writes in between.
3. The parsing of IDX responses, the generic remediator, errors of HTTP.
