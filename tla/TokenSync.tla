------------------------------- MODULE TokenSync -------------------------------
(* The tokens of several tabs over one local storage: the timers of each        *)
(* TokenManager, SyncStorageService replaying the events of a tab in the        *)
(* others, AutoRenewService in the leading tab, RenewOnTabActivationService,    *)
(* and signOut() (lib/services, lib/oidc/TokenManager.ts, lib/oidc/mixin).      *)
(*                                                                              *)
(* One key stands for the timed tokens.  A token is a version: 0 is none, each  *)
(* response of the server has the next one, and versions expire in order.  The  *)
(* tabs are started (ServiceManager has the details); a tab that is closed      *)
(* loses all but the storage.  The server refuses to renew a revoked token:     *)
(* modelled from its use.  It may refuse any other, too, say because it ended   *)
(* the session, but need not: a refresh token outlives the session.             *)
EXTENDS Naturals, Sequences, FiniteSets

CONSTANTS Tabs, NoTab,
          MaxVersion, \* bound: responses with tokens
          MaxSignOuts \* bound: signOut() calls under way at a time, in all tabs

\* What the proofs take for granted (MCTabs assumes it).
SyncAssumption == /\ NoTab \notin Tabs
                  /\ {MaxVersion, MaxSignOuts} \subseteq Nat

VARIABLES stored,    \* the version in local storage
          flagged,   \* whether the stored token has pendingRemove
          issued,    \* the newest version of the server
          old,       \* the newest version that expired
          revoked,   \* the versions revoked
          open,      \* the tabs that are open and started
          leader,    \* the tab whose AutoRenewService runs, or NoTab
          timer,     \* per tab, the version its timer waits for; 0 is no timer
          renewal,   \* per tab, the version it is renewing; 0 is none
          wire,      \* wire[s][r]: the messages from s that r has not received: 0
                     \* is removed, a version is added (renewed changes nothing)
          revoking,  \* per tab, the version its signOut() revokes; 0 is none
          closing,   \* the tabs whose signOut() waits for closeSession()
          crossed,   \* history: a tab wrote while a message to it was under way
          signedOut  \* history: a signOut() has ended that was to last, see Lasts,
                     \* and nobody has logged in since

store == <<stored, flagged, issued, old, revoked>>
leaving == <<revoking, closing>>
vars == <<store, open, leader, timer, renewal, wire, leaving, crossed,
          signedOut>>

Versions == 0 .. MaxVersion

TypeOK == /\ {stored, issued, old} \subseteq Versions
          /\ flagged \in BOOLEAN
          /\ revoked \subseteq Versions
          /\ open \subseteq Tabs
          /\ leader \in open \cup {NoTab}
          /\ timer \in [Tabs -> Versions]
          /\ renewal \in [Tabs -> Versions]
          /\ wire \in [Tabs -> [Tabs -> Seq(Versions)]]
          /\ revoking \in [Tabs -> Versions]
          /\ closing \subseteq open
          /\ crossed \in BOOLEAN
          /\ signedOut \in BOOLEAN

Init == /\ stored = 0
        /\ flagged = FALSE
        /\ issued = 0
        /\ old = 0
        /\ revoked = {}
        /\ open = {}
        /\ leader = NoTab
        /\ timer = [t \in Tabs |-> 0]
        /\ renewal = [t \in Tabs |-> 0]
        /\ wire = [s \in Tabs |-> [r \in Tabs |-> <<>>]]
        /\ revoking = [t \in Tabs |-> 0]
        /\ closing = {}
        /\ crossed = FALSE
        /\ signedOut = FALSE

Expired == stored > 0 /\ stored <= old

\* The handlers of removed and added post to the channel; a tab does not hear its
\* own messages.  What they post when the storage goes to version v:
Posted(v, removes) == (IF removes THEN <<0>> ELSE <<>>) \o (IF v > 0 THEN <<v>> ELSE <<>>)

\* setTokens() (v > 0) and remove() or clear() (v = 0) in tab t: the storage, the
\* events with their messages, the timer.
Store(t, v, flag, removes) ==
    /\ stored' = v
    /\ flagged' = flag
    /\ timer' = [timer EXCEPT ![t] = v]
    /\ wire' = [wire EXCEPT ![t] = [r \in Tabs |->
                   IF r \in open \ {t} THEN @[r] \o Posted(v, removes) ELSE @[r]]]
    /\ crossed' = (crossed \/ \E s, r \in Tabs : s # t /\ wire[s][r] # <<>>)

\* TokenManager.renew(): begin a renewal, which clears the timer, or join the one
\* under way (one queued behind it counts as joined; TokenManager tells them apart).
Renew(t) == /\ renewal' = [renewal EXCEPT ![t] = IF @ = 0 THEN stored ELSE @]
            /\ timer' = IF renewal[t] # 0 THEN timer ELSE [timer EXCEPT ![t] = 0]

-------------------------------------------------------------------------------
\* The application stores the tokens of a login.
Login(t) == /\ issued < MaxVersion
            /\ issued' = issued + 1
            /\ Store(t, issued + 1, FALSE, stored > 0)
            /\ signedOut' = FALSE
            /\ UNCHANGED <<old, revoked, open, leader, renewal, leaving>>

\* The application removes the token.
RemoveToken(t) == /\ stored > 0
                  /\ Store(t, 0, FALSE, TRUE)
                  /\ UNCHANGED <<issued, old, revoked, open, leader, renewal,
                                 leaving, signedOut>>

RenewalAnswered(t) == /\ renewal[t] \notin revoked \cup {0}
                      /\ issued < MaxVersion
                      /\ issued' = issued + 1
                      /\ Store(t, issued + 1, FALSE, stored > 0)
                      /\ renewal' = [renewal EXCEPT ![t] = 0]
                      /\ UNCHANGED <<old, revoked, open, leader, leaving, signedOut>>

\* The catch of renew(): whatever is stored is removed, and removed is emitted
\* even if nothing is.
RenewalFails(t) == /\ renewal[t] # 0
                   /\ Store(t, 0, FALSE, TRUE)
                   /\ renewal' = [renewal EXCEPT ![t] = 0]
                   /\ UNCHANGED <<issued, old, revoked, open, leader, leaving,
                                  signedOut>>

Expire == /\ old < issued
          /\ old' = old + 1
          /\ UNCHANGED <<stored, flagged, issued, revoked, open, leader, timer,
                         renewal, wire, leaving, crossed, signedOut>>

\* The timer emits expired; AutoRenewService listens in the leading tab only.
TimerFires(t) == /\ timer[t] \in 1 .. old
                 /\ timer' = [timer EXCEPT ![t] = 0]
                 /\ renewal' = [renewal EXCEPT ![t] =
                                  IF @ = 0 /\ leader = t THEN stored ELSE @]
                 /\ UNCHANGED <<store, open, leader, wire, leaving, crossed, signedOut>>

\* Mutant of BecomesLeader: expired tokens are not looked for.
BecomesLeaderUnaware(t) ==
    /\ leader = NoTab
    /\ leader' = t
    /\ UNCHANGED <<store, open, timer, renewal, wire, leaving, crossed, signedOut>>

\* AutoRenewService.start() in the tab that is now the leader: its token manager
\* is started, so it renews the token if it expired.
BecomesLeader(t) == /\ leader = NoTab
                    /\ leader' = t
                    /\ IF Expired THEN Renew(t) ELSE UNCHANGED <<timer, renewal>>
                    /\ UNCHANGED <<store, open, wire, leaving, crossed, signedOut>>

\* RenewOnTabActivationService: the user comes back after tabInactivityDuration.
ReturnsToTab(t) == /\ Expired
                   /\ Renew(t)
                   /\ UNCHANGED <<store, open, leader, wire, leaving, crossed, signedOut>>

\* Mutant of Receive: enablePostMessage is not reset, the event is posted again.
ReceiveAndPost(s, r) ==
    /\ wire[s][r] # <<>>
    /\ timer' = [timer EXCEPT ![r] = Head(wire[s][r])]
    /\ wire' = [wire EXCEPT ![s][r] = Tail(@),
                            ![r][s] = Append(@, Head(wire[s][r]))]
    /\ UNCHANGED <<store, open, leader, renewal, leaving, crossed, signedOut>>

\* onSyncMessageHandler: the event is emitted again, and not posted again.
Receive(s, r) ==
    /\ wire[s][r] # <<>>
    /\ timer' = [timer EXCEPT ![r] = Head(wire[s][r])]
    /\ wire' = [wire EXCEPT ![s][r] = Tail(@)]
    /\ UNCHANGED <<store, open, leader, renewal, leaving, crossed, signedOut>>

\* Mutant of Open: the flags are removed, and the tokens are not.
OpenUnflags(t) == /\ open' = open \cup {t}
                  /\ flagged' = FALSE
                  /\ timer' = [timer EXCEPT ![t] = stored]
                  /\ UNCHANGED <<stored, issued, old, revoked, leader, renewal, wire,
                                 leaving, crossed, signedOut>>

\* start(): tokens with pendingRemove are removed, the others get their timers.
Open(t) == /\ open' = open \cup {t}
           /\ IF flagged THEN Store(t, 0, FALSE, TRUE)
              ELSE /\ timer' = [timer EXCEPT ![t] = stored]
                   /\ UNCHANGED <<stored, flagged, wire, crossed>>
           /\ UNCHANGED <<issued, old, revoked, leader, renewal, leaving, signedOut>>

\* The page of the tab is gone, and what runs in it; what it posted is not.
Gone(t) == /\ open' = open \ {t}
           /\ leader' = IF leader = t THEN NoTab ELSE leader
           /\ renewal' = [renewal EXCEPT ![t] = 0]
           /\ revoking' = [revoking EXCEPT ![t] = 0]
           /\ closing' = closing \ {t}

Close(t) == /\ Gone(t)
            /\ timer' = [timer EXCEPT ![t] = 0]
            /\ wire' = [s \in Tabs |-> [wire[s] EXCEPT ![t] = <<>>]]
            /\ UNCHANGED <<store, crossed, signedOut>>

-------------------------------------------------------------------------------
\* What signOut() writes before the page is gone: v is stored then.
WriteAndGo(t, v, flag) ==
    /\ stored' = v
    /\ flagged' = flag
    /\ wire' = [s \in Tabs |-> [r \in Tabs |->
          IF r = t THEN <<>>
          ELSE IF s = t /\ r \in open THEN wire[s][r] \o Posted(v, stored > 0)
          ELSE wire[s][r]]]
    /\ crossed' = (crossed \/ \E s, r \in Tabs : s # t /\ wire[s][r] # <<>>)
    /\ timer' = [timer EXCEPT ![t] = 0]
    /\ Gone(t)

\* Nobody else is renewing, and what is still stored can not be renewed: no tab
\* will have tokens again.
Lasts(t, v, gone) == v \in gone \cup {0} /\ \A u \in Tabs \ {t} : renewal[u] = 0

\* signOut() has an ID token, a stored one or the application's: it clears or flags
\* the tokens that are stored by now and goes to the server, to end the session.
RedirectToLogout(t, gone) ==
    \/ WriteAndGo(t, 0, FALSE) /\ signedOut' = Lasts(t, 0, gone)
    \/ WriteAndGo(t, stored, stored > 0) /\ signedOut' = Lasts(t, stored, gone)

\* It has none: closeSession() sends its request.
CloseSession(t) == /\ closing' = closing \cup {t}
                   /\ revoking' = [revoking EXCEPT ![t] = 0]
                   /\ UNCHANGED <<stored, flagged, open, leader, timer, renewal, wire,
                                  crossed, signedOut>>

\* What follows when the versions in gone are revoked.
GoesOn(t, gone) == /\ revoked' = gone
                   /\ RedirectToLogout(t, gone) \/ CloseSession(t)
                   /\ UNCHANGED <<issued, old>>

\* signOut() reads the tokens and sends the requests that revoke them, unless
\* there are none or it is told not to.
SignOut(t) ==
    /\ revoking[t] = 0 /\ t \notin closing
    /\ Cardinality(closing \cup {u \in Tabs : revoking[u] > 0}) < MaxSignOuts
    /\ \/ /\ stored > 0
          /\ revoking' = [revoking EXCEPT ![t] = stored]
          /\ UNCHANGED <<store, open, leader, timer, renewal, wire, closing,
                         crossed, signedOut>>
       \/ GoesOn(t, revoked)

\* The tokens are revoked: the one that renews them is, or the access token only.
SignOutRevoked(t) ==
    /\ revoking[t] > 0
    /\ GoesOn(t, revoked) \/ GoesOn(t, revoked \cup {revoking[t]})

\* A revocation or closeSession() fails, and signOut() with it: the tokens stay,
\* though the first revocation may have been made.
SignOutFails(t) == /\ \/ /\ revoking[t] > 0
                         /\ revoked' \in {revoked, revoked \cup {revoking[t]}}
                      \/ t \in closing /\ UNCHANGED revoked
                   /\ revoking' = [revoking EXCEPT ![t] = 0]
                   /\ closing' = closing \ {t}
                   /\ UNCHANGED <<stored, flagged, issued, old, open, leader, timer,
                                  renewal, wire, crossed, signedOut>>

\* The session is closed, so the storage is cleared, and the page is left.
SessionClosed(t) == /\ t \in closing
                    /\ WriteAndGo(t, 0, FALSE)
                    /\ signedOut' = Lasts(t, 0, revoked)
                    /\ UNCHANGED <<issued, old, revoked>>

\* There was no session any more (E0000007): the page is left, and the storage is
\* as it was.
NoSession(t) == t \in closing /\ Close(t)

InTab(t) == \/ Login(t) \/ RemoveToken(t)
            \/ RenewalAnswered(t) \/ RenewalFails(t)
            \/ TimerFires(t) \/ BecomesLeader(t) \/ ReturnsToTab(t)
            \/ Close(t)
            \/ SignOut(t) \/ SignOutRevoked(t) \/ SignOutFails(t)
            \/ SessionClosed(t) \/ NoSession(t)

Next == \/ Expire
        \/ \E t \in Tabs \ open : Open(t)
        \/ \E t \in open : InTab(t)
        \/ \E s, r \in Tabs : Receive(s, r)

Spec == Init /\ [][Next]_vars

-------------------------------------------------------------------------------
\* Every tab follows the others.  As long as no tab writes while messages of another
\* are under way, the last message to a tab is of the token that is stored, so that
\* no tab repeats what it was told (the first note in onSyncMessageHandler); and a
\* tab that has heard all watches the stored token, whichever tab stored it: else
\* the next leader would let it expire unnoticed.
TabsFollow ==
    ~crossed => \A t \in open :
        LET telling == {s \in Tabs : wire[s][t] # <<>>} IN
        /\ \A s \in telling : wire[s][t][Len(wire[s][t])] = stored
        /\ telling = {} => \/ timer[t] = stored
                           \/ Expired
                           \/ stored > 0 /\ renewal[t] # 0

\* Who signed out stays signed out, in all tabs, until somebody logs in: the
\* tokens a tab still finds are flagged for removal, and go when a tab starts.
\* That is so of a sign-out that cleared the storage, or revoked what it flagged,
\* while no other tab was renewing.  It is not so of one that finds no session
\* (NoSession), that is told not to revoke, or that a renewal overtakes: tokens
\* stay, or another tab has new ones.
SignedOutStaysOut == signedOut => stored = 0 \/ flagged

\* A token that expires is renewed by the leading tab, even if its timer fired
\* before that tab led: a renewal of it is under way there, or its timer is still
\* to fire, or the messages that will set the timer are on their way.
LeaderAttends ==
    leader # NoTab /\ Expired /\ ~crossed =>
        \/ renewal[leader] # 0
        \/ timer[leader] = stored
        \/ \E s \in Tabs : wire[s][leader] # <<>>
=============================================================================
