------------------------------- MODULE AuthnPoll -------------------------------
(* Polling for a factor of one Authn transaction (lib/authn/util/poll.ts), the  *)
(* links of the transaction that stop it (link2fn.ts), and the requests of a    *)
(* poll, which wait for a visible document if pollDelay is set                  *)
(* (lib/http/request.ts).  The polls of a transaction share `ref`.              *)
EXTENDS Naturals

CONSTANTS Polls,
          MaxBackoffs, \* retries after a response with status 0 or 429: 5 in the code
          MaxLoads     \* IOS_MAX_RETRY_COUNT, 3 in the code

VARIABLES isPolling, \* ref.isPolling
          poll,      \* per call of poll(), its state
          hidden,    \* document.hidden
          pollDelay  \* whether the pollDelay option is set

pollVars == <<isPolling, poll, hidden, pollDelay>>

TypeOK == /\ isPolling \in BOOLEAN
          /\ poll \in [Polls ->
               [stage : {"none", "held", "asking", "delay", "backoff", "over"},
                retries : 0 .. MaxBackoffs,
                loads : 0 .. MaxLoads,
                stopped : BOOLEAN]] \* history: a link was called since poll() was
          /\ hidden \in BOOLEAN
          /\ pollDelay \in BOOLEAN

Init == /\ isPolling = FALSE
        /\ poll = [p \in Polls |-> [stage |-> "none", retries |-> 0, loads |-> 0,
                                    stopped |-> FALSE]]
        /\ hidden \in BOOLEAN
        /\ pollDelay \in BOOLEAN

page == <<hidden, pollDelay>>

\* A poll sends a request; with pollDelay it waits for the document first.
Asking(r) == [r EXCEPT !.stage = IF pollDelay THEN "held" ELSE "asking", !.loads = 0]

\* The poll settles, with a transaction or an error.  Either way polling is off.
Over(p) == /\ poll' = [poll EXCEPT ![p].stage = "over", ![p].stopped = FALSE]
           /\ isPolling' = FALSE
           /\ UNCHANGED page

\* poll() of the transaction.
CallPoll(p) ==
    /\ poll[p].stage = "none"
    /\ isPolling' = TRUE
    /\ poll' = [q \in Polls |-> IF q = p THEN Asking(poll[p])
                                ELSE [poll[q] EXCEPT !.stopped = FALSE]]
    /\ UNCHANGED page

\* Mutant of CallLink: ref.isPolling is not reset.
CallLinkOnly ==
    /\ poll' = [p \in Polls |->
                  [poll[p] EXCEPT !.stopped = poll[p].stage \notin {"none", "over"}]]
    /\ UNCHANGED <<isPolling, page>>

\* Another link that posts, such as cancel() or verify(), is called.
CallLink ==
    /\ isPolling' = FALSE
    /\ poll' = [p \in Polls |->
                  [poll[p] EXCEPT !.stopped = poll[p].stage \notin {"none", "over"}]]
    /\ UNCHANGED page

\* recursivePoll() after a delay: a poll that was stopped rejects.
Again(p) ==
    /\ poll[p].stage \in {"delay", "backoff"}
    /\ IF isPolling
       THEN poll' = [poll EXCEPT ![p] = Asking(@)] /\ UNCHANGED <<isPolling, page>>
       ELSE Over(p)

\* WAITING: ask again after the delay, unless the poll was stopped.
Waiting(p) ==
    /\ poll[p].stage = "asking"
    /\ IF isPolling
       THEN /\ poll' = [poll EXCEPT ![p].stage = "delay", ![p].retries = 0]
            /\ UNCHANGED <<isPolling, page>>
       ELSE Over(p)

\* Any other result is returned, even if the poll was stopped; or an error.
Settles(p) == poll[p].stage = "asking" /\ Over(p)

\* Mutant of BacksOff: the retries are not counted against the limit.
BacksOffForever(p) ==
    /\ poll[p].stage = "asking"
    /\ poll' = [poll EXCEPT ![p].stage = "backoff", ![p].retries = @ + 1]
    /\ UNCHANGED <<isPolling, page>>

\* No response, or too many requests: retry after a longer delay.
BacksOff(p) ==
    /\ poll[p].stage = "asking"
    /\ IF poll[p].retries < MaxBackoffs
       THEN /\ poll' = [poll EXCEPT ![p].stage = "backoff", ![p].retries = @ + 1]
            /\ UNCHANGED <<isPolling, page>>
       ELSE Over(p)

\* The document has been visible long enough, and the request is sent.
Fetches(p) == /\ poll[p].stage = "held" /\ ~hidden
              /\ poll' = [poll EXCEPT ![p].stage = "asking"]
              /\ UNCHANGED <<isPolling, page>>

\* fetch() fails with 'Load failed': try again once the document is visible.
LoadFails(p) == /\ poll[p].stage = "asking" /\ pollDelay
                /\ poll[p].loads < MaxLoads
                /\ poll' = [poll EXCEPT ![p].stage = "held", ![p].loads = @ + 1]
                /\ UNCHANGED <<isPolling, page>>

VisibilityChanges == hidden' = ~hidden /\ UNCHANGED <<isPolling, poll, pollDelay>>

Step(p) == \/ Again(p) \/ Waiting(p) \/ Settles(p) \/ BacksOff(p)
           \/ Fetches(p) \/ LoadFails(p)

Next == \/ \E p \in Polls : CallPoll(p) \/ Step(p)
        \/ CallLink
        \/ VisibilityChanges

\* Requests are answered and timers fire.
Spec == Init /\ [][Next]_pollVars /\ \A p \in Polls : WF_pollVars(Step(p))

-------------------------------------------------------------------------------
\* A poll that is stopped ends, whether it was asking, waiting between requests or
\* backing off: unless poll() is called again before it noticed, or the page is
\* hidden.
StoppedPollsEnd ==
    \A p \in Polls : poll[p].stopped ~> ~poll[p].stopped \/ hidden
===============================================================================
