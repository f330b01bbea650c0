------------------------------ MODULE TokenFlows ------------------------------
(* Getting tokens without leaving the page: token.getWithoutPrompt (a hidden    *)
(* frame), getWithPopup and getWithIDPPopup (a popup window), over getToken and *)
(* the listeners of lib/oidc/util/browser.ts.  The first two wait in the queue  *)
(* of the token API (lib/oidc/factory/api.ts; PromiseQueue has the details).    *)
(*                                                                              *)
(* Each flow has its own state parameter, so that a message with another state, *)
(* which the listener ignores, is not modelled.  The promises that a message or *)
(* a timer settles run to the next request in one step: microtasks run before   *)
(* the next message, timer or response.                                         *)
EXTENDS Naturals, Sequences

CONSTANTS Flows,
          MaxMessages \* bound: answers posted to one flow

VARIABLES flow, \* per flow, all of its state
          line  \* the queue of the token API

flowVars == <<flow, line>>

Kinds == {"frame", "popup", "idpPopup"}
Messages == {"code", "error", "foreign"}

TypeOK ==
    /\ flow \in [Flows ->
        [kind : Kinds,
         stage : {"new", "queued", "preparing", "waiting", "handling", "over", "failed"},
         result : {"none", "tokens", "error"},       \* what the caller was told
         window : {"none", "open", "closed"},        \* the popup; none if blocked
         framed : BOOLEAN,                           \* the frame is in the document
         listens : BOOLEAN,                          \* the listener and its timer
         polls : BOOLEAN,                            \* the poller of the window
         channel : BOOLEAN,                          \* the broadcast channel is open
         inbox : Seq(Messages),
         posted : 0 .. MaxMessages,
         requests : Nat]]                            \* codes sent to the token endpoint
    /\ line \in Seq(Flows)

Init == /\ flow \in [Flows ->
               [kind : Kinds, stage : {"new"}, result : {"none"}, window : {"none"},
                framed : {FALSE}, listens : {FALSE}, polls : {FALSE},
                channel : {FALSE}, inbox : {<<>>}, posted : {0}, requests : {0}]]
        /\ line = <<>>

Queued(f) == flow[f].kind # "idpPopup"

\* The flow of f goes on as r.  A queued one that settles leaves the queue.
Becomes(f, r) ==
    /\ flow' = [flow EXCEPT ![f] = r]
    /\ line' = IF Queued(f) /\ flow[f].result = "none" /\ r.result # "none"
               THEN Tail(line) ELSE line

\* The caller is told, unless cancel() told it already.
Settled(r, result) == [r EXCEPT !.result = IF @ = "none" THEN result ELSE @]

-------------------------------------------------------------------------------
\* getWithIDPPopup(): it opens the popup and the channel at once.
CallIDPPopup(f) ==
    /\ flow[f].stage = "new" /\ ~Queued(f)
    /\ \E window \in {"none", "open"} :
          Becomes(f, [flow[f] EXCEPT !.stage = "preparing", !.window = window,
                                     !.channel = TRUE])

\* getWithoutPrompt() or getWithPopup() is called: the call joins the queue.
CallQueued(f) == /\ flow[f].stage = "new" /\ Queued(f)
                 /\ flow' = [flow EXCEPT ![f].stage = "queued"]
                 /\ line' = Append(line, f)

\* Its turn comes; getWithPopup() opens the popup now, and the browser may block it.
Begin(f) ==
    /\ flow[f].stage = "queued" /\ Head(line) = f
    /\ \E window \in IF flow[f].kind = "popup" THEN {"none", "open"} ELSE {"none"} :
          Becomes(f, [flow[f] EXCEPT !.stage = "preparing", !.window = window])

\* prepareTokenParams() rejects (PKCE or the well-known configuration): nothing is
\* listening yet, and a popup or channel that is open is left.
PrepareFails(f) ==
    /\ flow[f].stage = "preparing"
    /\ Becomes(f, Settled([flow[f] EXCEPT !.stage = "failed"], "error"))

\* The parameters are ready: the listener and its timer are set, and the page of
\* the server is loaded in the frame or popup.
Prepared(f) ==
    /\ flow[f].stage = "preparing"
    /\ LET blocked == flow[f].kind = "idpPopup" /\ flow[f].window = "none"
           r == [flow[f] EXCEPT !.stage = IF blocked THEN "over" ELSE "waiting",
                                !.listens = TRUE,
                                !.polls = flow[f].kind = "popup",
                                !.framed = flow[f].kind = "frame"]
       IN Becomes(f, IF blocked THEN Settled(r, "error") ELSE r)

-------------------------------------------------------------------------------
\* The page in the frame or popup posts the answer of the server, or another
\* page posts to the window or channel.
Post(f) ==
    /\ flow[f].posted < MaxMessages
    /\ flow[f].stage \in {"waiting", "handling", "over"}
    /\ flow[f].kind = "frame" => flow[f].framed
    /\ \E m \in Messages :
          /\ flow[f].kind # "frame" /\ flow[f].window # "open" => m = "foreign"
          /\ flow' = [flow EXCEPT ![f].inbox = Append(@, m), ![f].posted = @ + 1]
    /\ UNCHANGED line

\* The user closes the popup, or its page closes it after it has posted.
PopupCloses(f) == /\ flow[f].window = "open"
                  /\ flow' = [flow EXCEPT ![f].window = "closed"]
                  /\ UNCHANGED line

\* The end of the flow, which removes the frame or closes the popup; the popup of
\* getWithIDPPopup() is left to its page.
Ended(r, result) ==
    Settled([r EXCEPT !.stage = "over", !.framed = FALSE,
                      !.window = IF r.kind = "popup" /\ @ = "open" THEN "closed" ELSE @],
            result)

\* The listener and the timer go, and the poller and the channel with them.
Unheard(r) == [r EXCEPT !.listens = FALSE, !.polls = FALSE, !.channel = FALSE]

\* A message is delivered.  handleOAuthResponse() exchanges a code, and rejects an
\* error; a message of another origin or for another flow rejects in the listener.
\* When the flow is over already, nobody waits for the listener's promise.
Hears(r) == IF r.kind = "idpPopup" THEN r.listens /\ r.channel ELSE r.listens

\* Mutant of Message: the code is exchanged whatever became of the flow.
MessageExchanged(f) ==
    /\ flow[f].inbox # <<>>
    /\ LET m == Head(flow[f].inbox)
           r == [flow[f] EXCEPT !.inbox = Tail(@)]
       IN Becomes(f, IF ~Hears(r) THEN r
                     ELSE IF m = "code"
                     THEN Unheard([r EXCEPT !.stage = "handling", !.requests = @ + 1])
                     ELSE Unheard(Ended(r, "error")))

Message(f) ==
    /\ flow[f].inbox # <<>>
    /\ LET m == Head(flow[f].inbox)
           r == [flow[f] EXCEPT !.inbox = Tail(@)]
       IN Becomes(f, IF ~Hears(r) THEN r
                     ELSE IF r.stage # "waiting" THEN Unheard(r)
                     ELSE IF m = "code"
                     THEN Unheard([r EXCEPT !.stage = "handling", !.requests = @ + 1])
                     ELSE Unheard(Ended(r, "error")))

\* The poller finds the popup closed or blocked: the flow ends, and its listener
\* and timer stay.
Poll(f) == /\ flow[f].polls /\ flow[f].window # "open"
           /\ Becomes(f, Ended([flow[f] EXCEPT !.polls = FALSE], "error"))

\* Mutant of Timeout: the listener goes, and nobody is told.
TimeoutSilently(f) == flow[f].listens /\ Becomes(f, Unheard(flow[f]))

\* The timer of the listener fires.
Timeout(f) ==
    /\ flow[f].listens
    /\ Becomes(f, IF flow[f].stage = "waiting" THEN Unheard(Ended(flow[f], "error"))
                  ELSE Unheard(flow[f]))

\* The exchange of the code is over: tokens, or an error of the request or of the
\* verification of the tokens.
Handled(f) == /\ flow[f].stage = "handling"
              /\ \E result \in {"tokens", "error"} : Becomes(f, Ended(flow[f], result))

\* cancel() of getWithIDPPopup(): the caller is told at once; the channel is deaf,
\* and what is under way goes on.
Cancel(f) == /\ flow[f].kind = "idpPopup" /\ flow[f].stage # "new"
             /\ flow[f].result = "none"
             /\ Becomes(f, Settled([flow[f] EXCEPT !.channel = FALSE], "error"))

Step(f) == \/ Begin(f) \/ PrepareFails(f) \/ Prepared(f)
           \/ Message(f) \/ Poll(f) \/ Timeout(f) \/ Handled(f)

Next == \E f \in Flows : \/ CallIDPPopup(f) \/ CallQueued(f) \/ Cancel(f)
                         \/ Post(f) \/ PopupCloses(f)
                         \/ Step(f)

\* Requests are answered, timers fire and posted messages are delivered; neither
\* the user nor the server has to answer.
Progress == \E f \in Flows : Step(f)

Spec == Init /\ [][Next]_flowVars /\ WF_flowVars(Progress)

-------------------------------------------------------------------------------
\* Every call is answered, also when the popup is blocked or closed, nobody
\* answers, or it waits behind others; and a flow that is over leaves nothing in the
\* page: no frame, no popup of getWithPopup(), no listener, poller or channel.
FlowsEnd ==
    \A f \in Flows : flow[f].stage # "new" ~>
        /\ flow[f].result # "none"
        /\ \/ flow[f].stage = "failed"
           \/ /\ flow[f].stage = "over"
              /\ {flow[f].framed, flow[f].listens, flow[f].polls,
                  flow[f].channel} = {FALSE}
              /\ flow[f].kind = "popup" => flow[f].window # "open"

\* A code is sent to the token endpoint for a caller who still waits, and once:
\* not when the answer comes after the popup was closed, the time was up or the
\* caller cancelled, and not again for a second message.
NoLateExchange ==
    [][\A f \in Flows : flow'[f].requests # flow[f].requests =>
            flow[f].result = "none" /\ flow'[f].requests = 1]_flowVars
===============================================================================
