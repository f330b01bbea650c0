---------------------------- MODULE SerialExecutor ----------------------------
(* What lib/util/PromiseQueue.ts promises to its users, without its flag, its  *)
(* recursion and its promise callbacks: calls begin one at a time, in the      *)
(* order in which they were submitted, and every submitted call ends.          *)
EXTENDS Sequences

CONSTANT Calls      \* the calls that may be submitted

VARIABLES pending,  \* submitted, not begun, oldest first
          active,   \* begun, not ended
          ended     \* ended, whatever their outcome

vars == <<pending, active, ended>>

Waiting == {pending[i] : i \in DOMAIN pending}

Init == /\ pending = <<>>
        /\ active = {}
        /\ ended = {}

Submit(c) == /\ c \notin Waiting \cup active \cup ended
             /\ pending' = Append(pending, c)
             /\ UNCHANGED <<active, ended>>

\* The oldest submitted call begins, and only when no other one is active.
Begin(c) == /\ active = {}
            /\ pending # <<>>
            /\ c = Head(pending)
            /\ pending' = Tail(pending)
            /\ active' = {c}
            /\ UNCHANGED ended

End(c) == /\ c \in active
          /\ active' = active \ {c}
          /\ ended' = ended \cup {c}
          /\ UNCHANGED pending

Next == \E c \in Calls : Submit(c) \/ Begin(c) \/ End(c)

SafeSpec == Init /\ [][Next]_vars

Progress == \E c \in Calls : Begin(c) \/ End(c)

Fairness == WF_vars(Progress)

Spec == SafeSpec /\ Fairness
===============================================================================
