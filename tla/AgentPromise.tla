---------------------------- MODULE AgentPromise ----------------------------
(***************************************************************************)
(* What an agent session promises whoever calls it: every call is answered *)
(* or given up, one prompt is worked on at a time, and a call is refused   *)
(* only when the session is closed.  AgentSession keeps the promise.       *)
(***************************************************************************)
CONSTANT Calls   \* the tasks that may call the session

VARIABLES
    asked,    \* how each call stands
    working,  \* whether a prompt is being worked on
    open      \* whether the session may still be asked

promised == <<asked, working, open>>

Word == {"none", "asked", "taken", "refused"}

PromiseInit == /\ asked = [c \in Calls |-> "none"]
               /\ working = FALSE /\ open = TRUE

Stands(c, w) == asked' = [asked EXCEPT ![c] = w]

Ask(c) == asked[c] = "none" /\ Stands(c, "asked") /\ UNCHANGED <<working, open>>

Begin(c) == /\ asked[c] = "asked" /\ ~working
            /\ Stands(c, "taken") /\ working' = TRUE /\ UNCHANGED open

Take(c) == asked[c] = "asked" /\ Stands(c, "taken") /\ UNCHANGED <<working, open>>

\* A prompt whose caller has given up is worked on all the same.
BeginUnheard == ~working /\ working' = TRUE /\ UNCHANGED <<asked, open>>

\* A call that stops the session is answered as the session closes.
TakeLast(c) == asked[c] = "asked" /\ Stands(c, "taken") /\ open' = FALSE /\ UNCHANGED working

Refuse(c) == /\ asked[c] = "asked" /\ ~open
             /\ Stands(c, "refused") /\ UNCHANGED <<working, open>>

Forget(c) == asked[c] # "none" /\ Stands(c, "none") /\ UNCHANGED <<working, open>>

Finish == working /\ working' = FALSE /\ open' \in {open, FALSE} /\ UNCHANGED asked

Close == open /\ open' = FALSE /\ UNCHANGED <<asked, working>>

Promised ==
    \/ \E c \in Calls : \/ Ask(c) \/ Begin(c) \/ Take(c) \/ TakeLast(c)
                        \/ Refuse(c) \/ Forget(c)
    \/ BeginUnheard \/ Finish \/ Close

\* Every call is answered, or its caller gives up.
Answered(c) == Begin(c) \/ Take(c) \/ TakeLast(c) \/ Refuse(c) \/ Forget(c)

Promise == /\ PromiseInit /\ [][Promised]_promised
           /\ \A c \in Calls : WF_promised(asked[c] = "asked" /\ Answered(c))
=============================================================================
