--------------------------- MODULE AuthnTransactions ---------------------------
(* The transactions of the Authn API (lib/authn) and the cookie with the state  *)
(* token of the one to resume, which every request may write                    *)
(* (lib/http/request.ts).  A transaction (1 ..) stands for its state token; 0   *)
(* is none.  An answer that the server has given may arrive after the answers   *)
(* to later requests, or never.  When a poll asks is in AuthnPoll.              *)
EXTENDS Naturals

CONSTANTS Calls,
          MaxTransactions \* bound: transactions the server begins

VARIABLES cookie, \* the transaction in the cookie, which the tabs share
          alive,  \* the transactions in progress at the server
          issued, \* transactions begun
          known,  \* those of which the page holds an object with links
          last,   \* the last whose state token arrived
          call,   \* per call, its request
          loose,  \* history: ended, and the answer that said so came to a poll,
                  \* was lost, or was overtaken by another of the transaction
          dropped \* history: dropped from the cookie by an answer to another one

authnVars == <<cookie, alive, issued, known, last, call, loose, dropped>>

Transactions == 0 .. MaxTransactions
Kinds == {"begin", "link", "get", "poll", "resume", "other"} \* of requests
NoCall == [kind |-> "none", of |-> 0, answer |-> "none"]

TypeOK == /\ {cookie, issued, last} \subseteq Transactions
          /\ alive \subseteq 1 .. issued
          /\ known \subseteq 1 .. issued
          /\ call \in [Calls ->
               [kind : Kinds \cup {"none"}, of : Transactions,
                answer : {"none", "continues", "without", "invalid"}]]
          /\ loose \subseteq Transactions
          /\ dropped \subseteq Transactions

Init == /\ cookie = 0
        /\ alive = {}
        /\ issued = 0
        /\ known = {}
        /\ last = 0
        /\ call = [c \in Calls |-> NoCall]
        /\ loose = {}
        /\ dropped = {}

-------------------------------------------------------------------------------
\* A request with the state token of transaction i, or without (i = 0).
Ask(c, kind, i) ==
    /\ call[c] = NoCall
    /\ call' = [call EXCEPT ![c] = [kind |-> kind, of |-> i, answer |-> "none"]]
    /\ UNCHANGED <<cookie, alive, issued, known, last, loose, dropped>>

\* signIn(), forgotPassword(), unlockAccount() and verifyRecoveryToken().
SignIn(c) == Ask(c, "begin", 0)

\* What the links of a response become, and of all that is embedded in it.
Links == {"link", "get", "poll"}

\* A link of a transaction is called: POST, GET, or its poll.
CallLink(c, i) == i \in known /\ \E kind \in Links : Ask(c, kind, i)

\* exists() says whether resume() and introspect() find a state token.
Exists == cookie # 0

\* resume() and introspect(), of the transaction in the cookie or of one given;
\* they reject when there is none.
ResumeTransaction(c, i) == /\ i \in known \/ (Exists /\ i = cookie)
                           /\ Ask(c, "resume", i)

\* refreshSession(), revokeToken() and the introspection of a token also post.
OtherPost(c) == Ask(c, "other", 0)

\* The server takes the request: the transaction continues, ends, or is gone
\* already.  The answer to a new one, or to a link to get, may have no state token.
Served(c) ==
    /\ call[c].kind # "none" /\ call[c].answer = "none"
    /\ LET i == call[c].of
           kind == call[c].kind
           answers(answer, of) ==
               call' = [call EXCEPT ![c] = [@ EXCEPT !.answer = answer, !.of = of]]
       IN \/ /\ kind = "begin" /\ issued < MaxTransactions
             /\ issued' = issued + 1
             /\ alive' = alive \cup {issued'}
             /\ answers("continues", issued')
          \/ /\ i \in alive
             /\ answers("continues", i) /\ UNCHANGED <<alive, issued>>
          \/ /\ i \in alive \/ i = 0
             /\ alive' = IF kind = "get" THEN alive ELSE alive \ {i}
             /\ answers("without", i) /\ UNCHANGED issued
          \/ /\ i \notin alive
             /\ answers("invalid", i) /\ UNCHANGED <<alive, issued>>
    /\ UNCHANGED <<cookie, known, last, loose, dropped>>

\* saveAuthnState, as post() sets it and a poll resets it.
SavesAuthnState(kind) == kind \in {"begin", "link", "resume", "other"}

\* Mutant of NewCookie: an answer without a state token is not looked at.
NewCookieKept(r) == CASE r.answer = "continues" -> r.of
                      [] r.answer = "without" -> cookie
                      [] r.answer = "invalid" -> 0

\* What the answer does to the cookie: a state token is saved, whoever asked.
NewCookie(r) == CASE r.answer = "continues" -> r.of
                  [] r.answer = "without" -> IF SavesAuthnState(r.kind) THEN 0 ELSE cookie
                  [] r.answer = "invalid" -> 0 \* E0000011

\* Mutant of NewKnown: any answer makes an object with links.
NewKnownAlways(r) == known \cup {r.of}

\* An object is made of an answer, with links if the transaction continues.
NewKnown(r) == IF r.answer = "continues" THEN known \cup {r.of} ELSE known

\* The answer arrives.
Delivered(c) ==
    /\ call[c].answer # "none"
    /\ LET r == call[c] IN
       /\ cookie' = NewCookie(r)
       /\ known' = NewKnown(r)
       /\ last' = IF r.answer = "continues" THEN r.of ELSE last
       /\ loose' = IF r.of \notin alive \cup {0}
                      /\ \/ r.answer = "continues"
                         \/ r.answer = "without" /\ ~SavesAuthnState(r.kind)
                   THEN loose \cup {r.of} ELSE loose
       /\ dropped' = IF r.answer # "continues" /\ cookie' # cookie /\ r.of # cookie
                     THEN dropped \cup {cookie} ELSE dropped
    /\ call' = [call EXCEPT ![c] = NoCall]
    /\ UNCHANGED <<alive, issued>>

\* The answers that will never arrive tell nobody that a transaction ended.
Unheard(lost) == loose' = loose \cup
    ({call[c].of : c \in {d \in lost : call[d].answer = "without"}} \ (alive \cup {0}))

\* The request fails in another way, or its answer is lost.
Fails(c) == /\ call[c] # NoCall
            /\ Unheard({c})
            /\ call' = [call EXCEPT ![c] = NoCall]
            /\ UNCHANGED <<cookie, alive, issued, known, last, dropped>>

\* A transaction expires, and the cookie with it.
Expires(i) == /\ alive' = alive \ {i}
              /\ cookie' = IF cookie = i THEN 0 ELSE cookie
              /\ UNCHANGED <<issued, known, last, call, loose, dropped>>

\* The page is left or reloaded.
Reload == /\ Unheard(Calls)
          /\ call' = [c \in Calls |-> NoCall]
          /\ known' = {}
          /\ UNCHANGED <<cookie, alive, issued, last, dropped>>

Next == \/ \E c \in Calls :
              \/ SignIn(c) \/ OtherPost(c)
              \/ \E i \in 1 .. MaxTransactions : CallLink(c, i) \/ ResumeTransaction(c, i)
              \/ Served(c) \/ Delivered(c) \/ Fails(c)
        \/ \E i \in alive : Expires(i)
        \/ Reload

Spec == Init /\ [][Next]_authnVars

-------------------------------------------------------------------------------
\* exists() and resume() find the transaction in progress (docs/authn.md:200,
\* :217).  The cookie names none that ended, but while the answer that ended it is
\* under way, or when that never told; and the last one that answered is found
\* while it is in progress, unless an answer to something else dropped it.
ResumesInProgress ==
    /\ cookie \in {0} \cup alive \cup loose
                  \cup {call[c].of : c \in {d \in Calls : call[d].answer = "without"}}
    /\ last \in alive => cookie = last \/ last \in dropped
===============================================================================
