----------------------------- MODULE TokenManager -----------------------------
(* lib/oidc/TokenManager.ts in one tab, with what it drives: the expiry timers, *)
(* the shared renewal promise, the token queue of lib/oidc/factory/api.ts, the *)
(* renewal itself (renewTokens.ts, renewTokensWithRefresh.ts) and the 'expired' *)
(* handler of lib/services/AutoRenewService.ts.                                *)
(*                                                                             *)
(* Tokens are stored under their types, the keys the SDK uses.  A token is a   *)
(* version number: versions grow with every response of the server, 0 is no    *)
(* token.  Timers, answers of the network and calls of the application are     *)
(* macrotasks; the callbacks of a settled renewal are microtasks, `jobs`, which *)
(* run to the end, in order, before the next macrotask.                        *)
EXTENDS Naturals, Sequences

CONSTANTS Renewals,    \* the renewals that may be started
          NoRenewal,   \* null
          MaxVersion,  \* bound on the number of token responses
          Answers,     \* the sets of types a token response may carry
          AutoRenew,   \* options.autoRenew of the service
          AutoRemove,  \* options.autoRemove of the service
          Throttles    \* whether the service may find the renewals too many

Timed == {"idToken", "accessToken"}
Keys == Timed \cup {"refreshToken"}

ASSUME TokenManagerAssumption == /\ NoRenewal \notin Renewals
                                 /\ MaxVersion \in Nat
                                 /\ Answers \subseteq SUBSET Keys
                                 /\ AutoRenew \in BOOLEAN
                                 /\ AutoRemove \in BOOLEAN
                                 /\ Throttles \in BOOLEAN

VARIABLES stored,       \* the token storage
          flagged,      \* the keys whose token has pendingRemove
          timers,       \* state.expireTimeouts
          renewPromise, \* state.renewPromise: the renewal it belongs to
          started,      \* state.started, and the service's
          phase,        \* how far each renewal has come
          asked,        \* the key each renewal was asked for, and its token
          tokenQueue,   \* the renewals waiting in the token queue
          executing,    \* the one the token queue is running
          presented,    \* the refresh token its request carries, or 0
          jobs,         \* pending microtasks, oldest first
          issued,       \* the newest version
          spent,        \* refresh tokens the server has replaced by others
          lost,         \* those whose replacement never reached the storage
          view          \* what a subscriber of added and removed believes

mem == <<renewPromise, started, phase, asked, tokenQueue, executing, presented>>
server == <<issued, spent, lost>>
vars == <<stored, flagged, timers, mem, jobs, server, view>>

NoTokens == [k \in Keys |-> 0]
NotAsked == [key |-> "accessToken", version |-> 0]
NoTimer == [state |-> "none", version |-> 0]
Timers == [state : {"none", "pending", "fired"}, version : Nat]

\* Promise callbacks of a renewal, in the order TokenManager.renew chains them:
\* applyTokens   then(): setTokens
\* forward       a callback the value passes by
\* reject        the queue's then(resolve, reject), on a renewal that threw
\* forwardError  a callback the error passes by
\* removeToken   catch(): remove the renewal's key
\* forget        finally(): drop the promise
\* release       the queue's own finally(): run the next item
JobKinds == {"applyTokens", "forward", "reject", "forwardError", "removeToken",
             "forget", "release"}
Jobs == [do : JobKinds, of : Renewals, tokens : [Keys -> Nat]]

Job(do, r) == [do |-> do, of |-> r, tokens |-> NoTokens]

Live == {r \in Renewals : phase[r] \in {"queued", "inFlight", "settling"}}

TypeOK == /\ stored \in [Keys -> Nat]
          /\ flagged \subseteq Keys
          /\ timers \in [Keys -> Timers]
          /\ renewPromise \in Renewals \cup {NoRenewal}
          /\ started \in BOOLEAN
          /\ phase \in [Renewals ->
                           {"new", "queued", "inFlight", "settling", "done"}]
          /\ asked \in [Renewals -> [key : Keys, version : Nat]]
          /\ tokenQueue \in Seq(Renewals)
          /\ executing \in Renewals \cup {NoRenewal}
          /\ presented \in Nat
          /\ jobs \in Seq(Jobs)
          /\ issued \in Nat
          /\ spent \subseteq Nat
          /\ lost \subseteq Nat
          /\ view \in [Keys -> Nat]

Init == /\ stored = NoTokens
        /\ flagged = {}
        /\ timers = [k \in Keys |-> NoTimer]
        /\ renewPromise = NoRenewal
        /\ started = FALSE
        /\ phase = [r \in Renewals |-> "new"]
        /\ asked = [r \in Renewals |-> NotAsked]
        /\ tokenQueue = <<>>
        /\ executing = NoRenewal
        /\ presented = 0
        /\ jobs = <<>>
        /\ issued = 0
        /\ spent = {}
        /\ lost = {}
        /\ view = NoTokens

-------------------------------------------------------------------------------
(* The parts of the handlers.                                                  *)

\* setExpireEventTimeout(key, token); refresh tokens get no timer.
TimerFor(k, v) == IF k \in Timed THEN [state |-> "pending", version |-> v]
                  ELSE NoTimer

\* clearExpireEventTimeoutAll() visits the keys that have a timeout entry, and
\* every visit forgets the renewal promise.
ClearTimeoutAll == /\ timers' = [k \in Keys |-> NoTimer]
                   /\ renewPromise' = IF \A k \in Keys : timers[k].state = "none"
                                      THEN renewPromise ELSE NoRenewal

\* Mutant of SetTokens: a token that goes keeps its timer.
SetTokensOnly(tokens, flags) ==
    /\ stored' = tokens
    /\ flagged' = flags
    /\ timers' = [k \in Keys |-> IF tokens[k] # 0 THEN TimerFor(k, tokens[k])
                                 ELSE timers[k]]
    /\ renewPromise' = IF \E k \in Keys : \/ stored[k] # 0
                                          \/ k \in Timed /\ tokens[k] # 0
                       THEN NoRenewal ELSE renewPromise
    /\ view' = [k \in Keys |-> IF tokens[k] # 0 \/ stored[k] # 0
                               THEN tokens[k] ELSE view[k]]

\* setTokens(tokens): the storage is replaced as a whole; removed, added and
\* renewed are emitted and the timers set type by type, and all but the adding
\* of a refresh token forgets the renewal promise.
SetTokens(tokens, flags) ==
    /\ stored' = tokens
    /\ flagged' = flags
    /\ timers' = [k \in Keys |-> IF tokens[k] # 0 THEN TimerFor(k, tokens[k])
                                 ELSE IF stored[k] # 0 THEN NoTimer
                                 ELSE timers[k]]
    /\ renewPromise' = IF \E k \in Keys : \/ stored[k] # 0
                                          \/ k \in Timed /\ tokens[k] # 0
                       THEN NoRenewal ELSE renewPromise
    /\ view' = [k \in Keys |-> IF tokens[k] # 0 \/ stored[k] # 0
                               THEN tokens[k] ELSE view[k]]

\* Mutant of RemoveKey: the key itself is deleted.
RemoveEntry(k) == /\ stored' = [j \in Keys \ {k} |-> stored[j]]
                  /\ flagged' = flagged \ {k}
                  /\ timers' = [timers EXCEPT ![k] = NoTimer]
                  /\ renewPromise' = NoRenewal
                  /\ view' = [view EXCEPT ![k] = 0]

\* remove(key)
RemoveKey(k) == /\ stored' = [stored EXCEPT ![k] = 0]
                /\ flagged' = flagged \ {k}
                /\ timers' = [timers EXCEPT ![k] = NoTimer]
                /\ renewPromise' = NoRenewal
                /\ view' = [view EXCEPT ![k] = 0]

\* renewTokens() takes what it needs from the storage when the queue starts it.
Begins(r) == /\ executing' = r
             /\ presented' = stored["refreshToken"]

\* What renew(key) asks of the storage.
Renewable(k) == \/ stored[k] # 0
                \/ k = "accessToken" /\ stored["refreshToken"] # 0

\* token.renewTokens() as createTokenAPI() wraps it: PromiseQueue.push().
PushRenewal(r) ==
    IF executing = NoRenewal
    THEN /\ Begins(r)
         /\ phase' = [phase EXCEPT ![r] = "inFlight"]
         /\ UNCHANGED tokenQueue
    ELSE /\ tokenQueue' = Append(tokenQueue, r)
         /\ phase' = [phase EXCEPT ![r] = "queued"]
         /\ UNCHANGED <<executing, presented>>

\* renew(key), with the timers as they are when it is called: join the renewal
\* under way, or fail, or push a new one on the token queue.
Renew(k, tm) ==
    \/ /\ renewPromise # NoRenewal \/ ~Renewable(k)
       /\ timers' = tm
       /\ UNCHANGED mem
    \/ /\ renewPromise = NoRenewal
       /\ Renewable(k)
       /\ timers' = [tm EXCEPT ![k] = NoTimer]
       /\ \E r \in Renewals :
             /\ phase[r] = "new"
             /\ renewPromise' = r
             /\ asked' = [asked EXCEPT ![r] = [key |-> k, version |-> stored[k]]]
             /\ PushRenewal(r)
       /\ UNCHANGED started

-------------------------------------------------------------------------------
(* Macrotasks: they start when no microtask is left.                           *)

Macrotask == jobs = <<>>

\* The tokens of a new response that carries the types T.
Fresh(T) == [k \in Keys |-> IF k \in T THEN issued + 1 ELSE 0]

CanIssue == issued < MaxVersion

\* The application stores the tokens of a login: setTokens().
AppSetTokens(T) == /\ Macrotask
                   /\ CanIssue
                   /\ SetTokens(Fresh(T), {})
                   /\ issued' = issued + 1
                   /\ UNCHANGED <<started, phase, asked, tokenQueue, executing,
                                  presented, jobs, spent, lost>>

\* add(key, token)
Add(k) == /\ Macrotask
          /\ CanIssue
          /\ stored' = [stored EXCEPT ![k] = issued + 1]
          /\ flagged' = flagged \ {k}
          /\ timers' = [timers EXCEPT ![k] = TimerFor(k, issued + 1)]
          /\ renewPromise' = IF k \in Timed THEN NoRenewal ELSE renewPromise
          /\ view' = [view EXCEPT ![k] = issued + 1]
          /\ issued' = issued + 1
          /\ UNCHANGED <<started, phase, asked, tokenQueue, executing,
                         presented, jobs, spent, lost>>

Remove(k) == /\ Macrotask
             /\ RemoveKey(k)
             /\ UNCHANGED <<started, phase, asked, tokenQueue, executing,
                            presented, jobs, server>>

\* Mutant of Clear: no events.
ClearSilently == /\ Macrotask
                 /\ ClearTimeoutAll
                 /\ stored' = NoTokens
                 /\ flagged' = {}
                 /\ UNCHANGED <<started, phase, asked, tokenQueue, executing,
                                presented, jobs, server, view>>

\* clear(): removed is emitted for each token there was.
Clear == /\ Macrotask
         /\ ClearTimeoutAll
         /\ stored' = NoTokens
         /\ flagged' = {}
         /\ view' = [k \in Keys |-> IF stored[k] # 0 THEN 0 ELSE view[k]]
         /\ UNCHANGED <<started, phase, asked, tokenQueue, executing,
                        presented, jobs, server>>

\* addPendingRemoveFlags(): the tokens are set again, with the flag.
AddPendingRemoveFlags ==
    /\ Macrotask
    /\ SetTokens(stored, {k \in Keys : stored[k] # 0})
    /\ UNCHANGED <<started, phase, asked, tokenQueue, executing, presented,
                   jobs, server>>

\* start(): clearPendingRemoveTokens(), then a timer for every token left.
Start == /\ Macrotask
         /\ stored' = [k \in Keys |-> IF k \in flagged THEN 0 ELSE stored[k]]
         /\ flagged' = {}
         /\ timers' = [k \in Keys |->
                          IF stored'[k] # 0 THEN TimerFor(k, stored[k])
                          ELSE IF k \in flagged THEN NoTimer ELSE timers[k]]
         /\ renewPromise' =
               IF flagged # {} \/ \E k \in Timed : stored'[k] # 0
               THEN NoRenewal ELSE renewPromise
         /\ view' = [k \in Keys |-> IF k \in flagged THEN 0 ELSE view[k]]
         /\ started' = TRUE
         /\ UNCHANGED <<phase, asked, tokenQueue, executing, presented, jobs,
                        server>>

Stop == /\ Macrotask
        /\ ClearTimeoutAll
        /\ started' = FALSE
        /\ UNCHANGED <<stored, flagged, phase, asked, tokenQueue, executing,
                       presented, jobs, server, view>>

AppRenew(k) == /\ Macrotask
               /\ Renew(k, timers)
               /\ UNCHANGED <<stored, flagged, jobs, server, view>>

\* A timeout elapses: expired is emitted, and the service renews (unless it is
\* throttled, which only emits an error) or removes.
TimerFires(k) ==
    /\ Macrotask
    /\ timers[k].state = "pending"
    /\ LET fired == [timers EXCEPT ![k].state = "fired"] IN
          \/ /\ started /\ AutoRenew
             /\ Renew(k, fired)
             /\ UNCHANGED <<stored, flagged, view>>
          \/ /\ started /\ ~AutoRenew /\ AutoRemove
             /\ RemoveKey(k)
             /\ UNCHANGED <<started, phase, asked, tokenQueue, executing,
                            presented>>
          \/ /\ started => IF AutoRenew THEN Throttles ELSE ~AutoRemove
             /\ timers' = fired
             /\ UNCHANGED <<stored, flagged, mem, view>>
    /\ UNCHANGED <<jobs, server>>

\* The page is loaded anew, at any moment: memory is gone, the storage is not.
\* A request under way may still have reached the server.  The new subscriber
\* begins with what is stored.
Reload == /\ Macrotask
          /\ timers' = [k \in Keys |-> NoTimer]
          /\ renewPromise' = NoRenewal
          /\ started' = FALSE
          /\ phase' = [r \in Renewals |-> IF r \in Live THEN "done" ELSE phase[r]]
          /\ asked' = [r \in Renewals |-> NotAsked]
          /\ tokenQueue' = <<>>
          /\ executing' = NoRenewal
          /\ presented' = 0
          /\ view' = stored
          /\ \E S \in {{}, {presented} \ {0}} : /\ spent' = spent \cup S
                                                /\ lost' = lost \cup S
          /\ UNCHANGED <<stored, flagged, jobs, issued>>

-------------------------------------------------------------------------------
(* The answer to the renewal that the queue is running.                        *)

Answered(r) == /\ Macrotask
               /\ executing = r
               /\ phase[r] = "inFlight"
               /\ phase' = [phase EXCEPT ![r] = "settling"]

\* Tokens arrive and pass validation.  A rotated refresh token is stored at
\* once, without events; then the queue's promise resolves.
AnswerTokens(r, T) ==
    /\ Answered(r)
    /\ CanIssue
    /\ presented \notin spent
    /\ issued' = issued + 1
    /\ \E rt \in {presented, issued + 1} :
          LET rotates == rt # presented /\ presented # 0 /\ "refreshToken" \in T
              tokens == IF "refreshToken" \in T /\ presented # 0
                        THEN [Fresh(T) EXCEPT !["refreshToken"] = rt]
                        ELSE Fresh(T)
          IN /\ stored' = IF rotates THEN [stored EXCEPT !["refreshToken"] = rt]
                          ELSE stored
             /\ flagged' = IF rotates THEN flagged \ {"refreshToken"} ELSE flagged
             /\ spent' = IF rotates THEN spent \cup {presented} ELSE spent
             /\ jobs' = <<[Job("applyTokens", r) EXCEPT !.tokens = tokens],
                          Job("release", r)>>
    /\ UNCHANGED <<timers, renewPromise, started, asked, tokenQueue, executing,
                   presented, lost, view>>

\* The request fails, or its answer is rejected by validation.  In the second
\* case the server may have rotated the refresh token already.
AnswerFails(r) ==
    /\ Answered(r)
    /\ \E S \in {{}, {presented} \ {0}} : /\ spent' = spent \cup S
                                          /\ lost' = lost \cup S
    /\ jobs' = <<Job("forwardError", r), Job("release", r)>>
    /\ UNCHANGED <<stored, flagged, timers, renewPromise, started, asked,
                   tokenQueue, executing, presented, issued, view>>

\* invalid_grant: removeRefreshToken() removes whatever refresh token is stored.
AnswerInvalidGrant(r) ==
    /\ Answered(r)
    /\ presented # 0
    /\ RemoveKey("refreshToken")
    /\ jobs' = <<Job("forwardError", r), Job("release", r)>>
    /\ UNCHANGED <<started, asked, tokenQueue, executing, presented, server>>

-------------------------------------------------------------------------------
(* Microtasks.                                                                 *)

\* The oldest job is of this kind, of this renewal, and leaves `more` behind.
Runs(do, r, more) == /\ jobs # <<>>
                     /\ Head(jobs).do = do
                     /\ Head(jobs).of = r
                     /\ jobs' = Tail(jobs) \o more

\* Mutant of ApplyTokens: the refresh token that was presented is kept.
ApplyTokensKeeping(r) ==
    /\ Runs("applyTokens", r, <<Job("forward", r)>>)
    /\ SetTokens([Head(jobs).tokens EXCEPT !["refreshToken"] = presented], {})
    /\ UNCHANGED <<started, phase, asked, tokenQueue, executing, presented,
                   server>>

ApplyTokens(r) ==
    /\ Runs("applyTokens", r, <<Job("forward", r)>>)
    /\ SetTokens(Head(jobs).tokens, {})
    /\ UNCHANGED <<started, phase, asked, tokenQueue, executing, presented,
                   server>>

Passes(r) == /\ \/ Runs("forward", r, <<Job("forget", r)>>)
                \/ Runs("forwardError", r, <<Job("removeToken", r)>>)
                \/ Runs("reject", r, <<Job("forwardError", r), Job("release", r)>>)
             /\ UNCHANGED <<stored, flagged, timers, mem, server, view>>

\* Mutant of RemoveToken: the token stays.
RemoveNothing(r) ==
    /\ Runs("removeToken", r, <<Job("forget", r)>>)
    /\ UNCHANGED <<stored, flagged, timers, mem, server, view>>

RemoveToken(r) ==
    /\ Runs("removeToken", r, <<Job("forget", r)>>)
    /\ RemoveKey(asked[r].key)
    /\ UNCHANGED <<started, phase, asked, tokenQueue, executing, presented,
                   server>>

Forget(r) == /\ Runs("forget", r, <<>>)
             /\ renewPromise' = NoRenewal
             /\ phase' = [phase EXCEPT ![r] = "done"]
             /\ asked' = [asked EXCEPT ![r] = NotAsked]
             /\ UNCHANGED <<stored, flagged, timers, started, tokenQueue,
                            executing, presented, server, view>>

\* Mutant of Release: the next renewal is left for the next push.
ReleaseOnly(r) ==
    /\ Runs("release", r, <<>>)
    /\ executing' = NoRenewal
    /\ presented' = 0
    /\ UNCHANGED <<stored, flagged, timers, renewPromise, started, phase, asked,
                   tokenQueue, server, view>>

\* The queue is released.  The next renewal begins, or, when no token is left,
\* throws and is rejected.
Release(r) ==
    /\ \/ /\ tokenQueue = <<>>
          /\ Runs("release", r, <<>>)
          /\ executing' = NoRenewal
          /\ presented' = 0
          /\ UNCHANGED <<tokenQueue, phase>>
       \/ /\ tokenQueue # <<>>
          /\ LET next == Head(tokenQueue) IN
                /\ Begins(next)
                /\ tokenQueue' = Tail(tokenQueue)
                /\ IF stored = NoTokens
                   THEN /\ Runs("release", r, <<Job("reject", next)>>)
                        /\ phase' = [phase EXCEPT ![next] = "settling"]
                   ELSE /\ Runs("release", r, <<>>)
                        /\ phase' = [phase EXCEPT ![next] = "inFlight"]
    /\ UNCHANGED <<stored, flagged, timers, renewPromise, started, asked,
                   server, view>>

-------------------------------------------------------------------------------
App == \/ \E T \in Answers : AppSetTokens(T)
       \/ \E k \in Keys : Add(k) \/ Remove(k) \/ AppRenew(k)
       \/ Clear \/ AddPendingRemoveFlags \/ Start \/ Stop

Network == \E r \in Renewals : \/ \E T \in Answers : AnswerTokens(r, T)
                               \/ AnswerFails(r)
                               \/ AnswerInvalidGrant(r)

Microtask == \E r \in Renewals : \/ ApplyTokens(r) \/ Passes(r) \/ RemoveToken(r)
                                 \/ Forget(r) \/ Release(r)

Next == \/ App
        \/ \E k \in Keys : TimerFires(k)
        \/ Network
        \/ Microtask
        \/ Reload

Spec == Init /\ [][Next]_vars

\* Microtasks always run; a request is answered, fails or times out.
FairSpec == Spec /\ WF_vars(Microtask) /\ WF_vars(Network)

-------------------------------------------------------------------------------
\* The timeout entry of a key belongs to the token stored under it: expired is
\* never emitted for a token that was replaced or removed (setExpireEventTimeout,
\* clearExpireEventTimeout and their eight callers).
TimersMatchStorage ==
    \A k \in Keys : timers[k].state # "none" =>
        timers[k].version = stored[k] /\ stored[k] # 0

\* While the manager is started no token goes unwatched: its timer is set or
\* has fired, or a renewal asked for its key will replace or remove it.
EveryTokenWatched ==
    started => \A k \in Timed : stored[k] # 0 =>
        timers[k].state # "none" \/ \E r \in Live : asked[r].key = k

\* A subscriber that follows added and removed, as AuthStateManager does, knows
\* the stored ID and access tokens between any two steps.
SubscribersSeeStorage == \A k \in Timed : view[k] = stored[k]

\* A refresh token that the server has replaced is never presented again, save
\* when the replacement was lost on the way: the token queue and the storing of
\* the rotated token before the queue's promise settles see to it.
NoRefreshTokenReplay ==
    \A r \in Renewals : executing = r /\ phase[r] = "inFlight"
                            /\ presented \in spent => presented \in lost

\* A caller of renew() never joins a renewal that is over.
JoinedRenewalIsLive == renewPromise # NoRenewal => renewPromise \in Live

\* Every renewal pushed on the queue is over some day, however the others end.
RenewalsEnd ==
    \A r \in Renewals : phase[r] \in {"queued", "inFlight"} ~> phase[r] = "done"

\* "Store the renew promise state, to avoid renewing again" (TokenManager.ts:447):
\* no two renewals under way were asked to renew one and the same token.
TokenRenewedOnce ==
    \A r, s \in Live :
        asked[r] = asked[s] /\ asked[r].version # 0 => r = s

\* "Tokens will be removed from storage if they have expired and autoRenew is
\* false or if there was an error while renewing the token" (README.md:1930): a
\* token whose expiry was announced is being renewed, or is gone.
ExpiredIsHandled ==
    started /\ AutoRenew =>
        \A k \in Timed : timers[k].state = "fired" => Live # {}
===============================================================================
