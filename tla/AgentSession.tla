---------------------------- MODULE AgentSession ----------------------------
(***************************************************************************)
(* One session with a coding agent, from the pad to the process: the agent *)
(* supervisor (pushos-agents) whose calls each run in a task of their own, *)
(* the task that drives the agent over ACP (pushos-acp) with its inbox and *)
(* its one held command, the questions it parks for the operator, and the  *)
(* runtime's task that applies what the session reports to the registry.   *)
(*                                                                         *)
(* What the registry says of a session is written twice over: by the calls *)
(* directly (mark), and from the queue of reports, where the same mark     *)
(* comes round again behind what the session has said.                     *)
(***************************************************************************)
EXTENDS Naturals, Sequences

CONSTANTS
    Calls,      \* the tasks that call the supervisor
    Questions,  \* the permissions the agent may ask for at once
    Capacity,   \* COMMAND_CAPACITY
    Backlog,    \* bound: reports waiting to be applied
    None,       \* nobody, nothing
    Allowed     \* what may happen, see Weather

Weather == {"prompted again", "held twice", "late mark", "abandons", "quick end"}

ASSUME ConstantsAssumption ==
    /\ Capacity \in Nat \ {0} /\ Backlog \in Nat \ {0}
    /\ None \notin Calls \cup Questions
    /\ Allowed \subseteq Weather
-----------------------------------------------------------------------------
VARIABLES
    known,      \* whether the registry has the session
    state,      \* what the registry says the agent does
    question,   \* the question the registry shows
    reports,    \* what was reported and is not yet applied
    reachable,  \* whether the backend can still reach the session's task
    task,       \* the session's task
    inbox,      \* its commands
    held,       \* the command held until the turn is over
    stopping,   \* whether it was told to stop in mid-turn
    parked,     \* how each question stands
    pc,         \* where each call is
    kind,       \* what it wants
    about       \* the question it answers

registry == <<known, state, question>>
session  == <<task, inbox, held, stopping>>
calls    == <<pc, kind, about>>
vars     == <<registry, reports, reachable, session, parked, calls>>

State == {"sleeping", "queued", "starting", "working", "waiting_approval", "paused",
          "completed", "failed", "cancelled", "offline"}
Kind  == {"prompt", "cancel", "stop", "allow", "deny"}

Over == {"completed", "failed", "cancelled"}
LiveState(s) == s # "offline" /\ s \notin Over

\* A command, and who waits for its answer (nobody, once the caller gave up).
Command == [kind: {"prompt", "cancel", "stop"}, from: Calls \cup {None}]
NoCommand == [kind |-> "cancel", from |-> None]

\* What is reported: a state, the end of a turn, or a question.
Report == [what: {"state", "ended"}, of: State] \cup [what: {"asked"}, of: Questions]

TypeOK ==
    /\ known \in BOOLEAN /\ state \in State /\ question \in Questions \cup {None}
    /\ reachable \in BOOLEAN /\ stopping \in BOOLEAN
    /\ reports \in Seq(Report)
    /\ task \in {"idle", "turn", "left", "gone"}
    /\ inbox \in Seq(Command) /\ held \in Seq(Command)
    /\ parked \in [Questions -> {"none", "parked", "answered"}]
    /\ pc \in [Calls -> {"idle", "reach", "send", "sent", "deliver", "mark",
                         "forget", "refused"}]
    /\ kind \in [Calls -> Kind \cup {None}]
    /\ about \in [Calls -> Questions \cup {None}]
-----------------------------------------------------------------------------
(* The registry. *)

States(s) == [what |-> "state", of |-> s]
Ended(s)  == [what |-> "ended", of |-> s]
Asked(q)  == [what |-> "asked", of |-> q]

\* apply: what a report makes of the question on show.
Shows(r) == IF r.what = "asked" THEN r.of
            ELSE IF r.what = "state" /\ r.of = "waiting_approval" THEN question
            ELSE None

\* apply: the registry takes a report, if it knows the session.
Applies(r) ==
    IF known
    THEN /\ state' = IF r.what = "asked" THEN "waiting_approval" ELSE r.of
         /\ question' = Shows(r)
    ELSE UNCHANGED <<state, question>>

\* Nothing is reported between a call's answer and its mark.
MayReport == "late mark" \in Allowed \/ \A c \in Calls : pc[c] # "mark"

Reports(r) == reports' = Append(reports, r)

\* The supervisor records the session its backend has opened.
Opened ==
    /\ ~known /\ reachable /\ state = "offline"
    /\ known' = TRUE /\ state' = "starting"
    /\ Reports(States("starting"))
    /\ UNCHANGED <<question, reachable, session, parked, calls>>

\* record: the runtime applies a report.
Apply ==
    /\ reports # <<>>
    /\ reports' = Tail(reports)
    /\ Applies(Head(reports))
    /\ UNCHANGED <<known, reachable, session, parked, calls>>
-----------------------------------------------------------------------------
(* A call. *)

Goes(c, at) == pc' = [pc EXCEPT ![c] = at] /\ UNCHANGED <<kind, about>>

Starts(c, at, k, q) == /\ pc[c] = "idle" /\ known /\ Len(reports) < Backlog
                       /\ pc' = [pc EXCEPT ![c] = at]
                       /\ kind' = [kind EXCEPT ![c] = k]
                       /\ about' = [about EXCEPT ![c] = q]

Rests(c) == /\ pc' = [pc EXCEPT ![c] = "idle"]
            /\ kind' = [kind EXCEPT ![c] = None]
            /\ about' = [about EXCEPT ![c] = None]

\* A prompt on its way to the agent.
PromptWaits == \/ held # <<>>
               \/ \E i \in DOMAIN inbox : inbox[i].kind = "prompt"
               \/ \E c \in Calls : kind[c] = "prompt" /\ pc[c] \in {"reach", "send"}

\* prompt, cancel, stop: what the registry says decides.
Call(c, k) ==
    /\ Starts(c, "reach", k, None)
    /\ k = "prompt" => /\ state # "offline"
                       /\ "prompted again" \in Allowed \/ (LiveState(state) /\ task = "idle" /\ reports = <<>>)
                       /\ "held twice" \in Allowed \/ ~PromptWaits
    /\ UNCHANGED <<registry, reports, reachable, session, parked>>

\* The backend finds the session, and a stop takes it out of its table.
Reach(c) ==
    /\ pc[c] = "reach"
    /\ Goes(c, IF reachable THEN "send" ELSE "refused")
    /\ reachable' = (reachable /\ kind[c] # "stop")
    /\ UNCHANGED <<registry, reports, session, parked>>

Listening == task \in {"idle", "turn"}

Send(c) ==
    /\ pc[c] = "send"
    /\ IF Listening
       THEN /\ Len(inbox) < Capacity
            /\ inbox' = Append(inbox, [kind |-> kind[c], from |-> c])
            /\ Goes(c, "sent")
       ELSE Goes(c, "refused") /\ UNCHANGED inbox
    /\ UNCHANGED <<registry, reports, reachable, task, held, stopping, parked>>

\* What was in the inbox, or held, when the task ended is refused.
Refused(c) ==
    /\ pc[c] = "sent" /\ ~Listening
    /\ Goes(c, "refused")
    /\ UNCHANGED <<registry, reports, reachable, session, parked>>

\* What a call knows to be true once it was answered.
Mark == [prompt |-> "queued", cancel |-> "paused", allow |-> "working", deny |-> "cancelled"]

\* mark: into the registry at once, and into the queue of reports.
Marks(c) ==
    /\ pc[c] = "mark"
    /\ Applies(States(Mark[kind[c]]))
    /\ Reports(States(Mark[kind[c]]))
    /\ Rests(c)
    /\ UNCHANGED <<known, reachable, session, parked>>

Told(c) ==
    /\ pc[c] = "refused" /\ kind[c] # "stop"
    /\ Rests(c)
    /\ UNCHANGED <<registry, reports, reachable, session, parked>>

\* stop: forgotten here, whatever the provider answered.
Forgets(c) ==
    /\ kind[c] = "stop" /\ pc[c] \in {"forget", "refused"}
    /\ known' = FALSE
    /\ Rests(c)
    /\ UNCHANGED <<state, question, reports, reachable, session, parked>>

Unheard(m, c) == IF m.from = c THEN [kind |-> m.kind, from |-> None] ELSE m

\* The dispatcher drops a call that has run out of its budget, where it waits
\* for room or for an answer; what it sent stays where it is.
Dropped(c) ==
    /\ pc[c] = "sent" \/ (pc[c] = "send" /\ Listening /\ Len(inbox) = Capacity)
    /\ Rests(c)
    /\ inbox' = [i \in DOMAIN inbox |-> Unheard(inbox[i], c)]
    /\ held' = [i \in DOMAIN held |-> Unheard(held[i], c)]
    /\ UNCHANGED <<registry, reports, reachable, task, stopping, parked>>
-----------------------------------------------------------------------------
(* A question of the agent's. *)

\* answer: the call is about the question the registry shows.
Answer(c, k) ==
    /\ question # None
    /\ Starts(c, "deliver", k, question)
    /\ UNCHANGED <<registry, reports, reachable, session, parked>>

\* deliver_answer: a parked question takes one answer.
Deliver(c) ==
    /\ pc[c] = "deliver"
    /\ IF reachable /\ parked[about[c]] = "parked"
       THEN parked' = [parked EXCEPT ![about[c]] = "answered"] /\ Goes(c, "mark")
       ELSE Rests(c) /\ UNCHANGED parked
    /\ UNCHANGED <<registry, reports, reachable, session>>

\* handle: the question is parked, and then reported.
Asks(q) ==
    /\ task = "turn" /\ parked[q] = "none" /\ MayReport /\ Len(reports) < Backlog
    /\ parked' = [parked EXCEPT ![q] = "parked"]
    /\ Reports(Asked(q))
    /\ UNCHANGED <<registry, reachable, session, calls>>

\* The agent hears the answer.
Responds(q) ==
    /\ parked[q] = "answered"
    /\ parked' = [parked EXCEPT ![q] = "none"]
    /\ UNCHANGED <<registry, reports, reachable, session, calls>>

\* APPROVAL_PATIENCE runs out: the agent is refused and nothing is reported.
GivesUp(q) ==
    /\ parked[q] = "parked"
    /\ parked' = [parked EXCEPT ![q] = "none"]
    /\ UNCHANGED <<registry, reports, reachable, session, calls>>
-----------------------------------------------------------------------------
(* The task of the session (serve). *)

\* The caller of a command, if it still waits, is told.
Tells(m, word) == IF m.from = None THEN UNCHANGED calls ELSE Goes(m.from, word)

\* Mutant: a prompt that arrives in mid-turn is turned away.
TurnsAway(m) == held' = held /\ Tells(m, "refused")

\* A prompt that arrives in mid-turn waits; one that waited is dropped for it.
Holds(m) == /\ held' = <<m>>
            /\ IF held = <<>> THEN UNCHANGED calls ELSE Tells(held[1], "refused")

\* In mid-turn a cancel is passed on, and a stop is remembered.
TakeInTurn ==
    /\ task = "turn" /\ inbox # <<>>
    /\ inbox' = Tail(inbox)
    /\ LET m == Head(inbox)
       IN  CASE m.kind = "prompt" -> Holds(m) /\ UNCHANGED stopping
             [] m.kind = "cancel" -> Tells(m, "mark") /\ UNCHANGED <<held, stopping>>
             [] m.kind = "stop"   -> Tells(m, "forget") /\ stopping' = TRUE /\ UNCHANGED held
    /\ UNCHANGED <<registry, reports, reachable, task, parked>>

\* Between turns the held command comes first.
Waiting == held \o inbox

Begins(m) == /\ task' = "turn" /\ Len(reports) < Backlog
             /\ Reports(States("working"))
             /\ Tells(m, "mark")

\* serve returns: what is left in the inbox is refused, and it says so.
Leaves == task' = "left" /\ inbox' = <<>> /\ held' = <<>>

TakeNext ==
    /\ task = "idle" /\ Waiting # <<>>
    /\ LET m == Head(Waiting)
       IN  \/ /\ m.kind = "prompt" /\ Begins(m)
              /\ held' = <<>> /\ inbox' = Tail(Waiting)
           \/ /\ m.kind = "cancel" /\ Tells(m, "mark")
              /\ held' = <<>> /\ inbox' = Tail(Waiting)
              /\ UNCHANGED <<reports, task>>
           \/ /\ m.kind = "stop" /\ MayReport /\ Tells(m, "forget")
              /\ Leaves /\ Reports(States("offline"))
    /\ UNCHANGED <<registry, reachable, stopping, parked>>

\* The agent says the turn is over, or the request for it fails.
EndTurn(reason) ==
    /\ task = "turn" /\ MayReport
    /\ "abandons" \in Allowed \/ \A q \in Questions : parked[q] = "none"
    /\ reports' = reports \o <<Ended(reason)>>
                          \o (IF stopping THEN <<States("offline")>> ELSE <<>>)
    /\ IF stopping THEN Leaves ELSE task' = "idle" /\ UNCHANGED <<inbox, held>>
    /\ UNCHANGED <<registry, reachable, stopping, parked, calls>>

\* Nobody can send any more.
InboxCloses ==
    /\ task = "idle" /\ ~reachable /\ Waiting = <<>> /\ MayReport
    /\ \A c \in Calls : pc[c] \notin {"send", "sent"}
    /\ Leaves /\ Reports(States("offline"))
    /\ UNCHANGED <<registry, reachable, stopping, parked, calls>>

\* The agent's process dies: serve is dropped where it stands.
Dies ==
    /\ task \in {"idle", "turn"} /\ MayReport
    /\ "quick end" \in Allowed \/ known \/ ~reachable
    /\ Leaves
    /\ UNCHANGED <<registry, reports, reachable, stopping, parked, calls>>

\* Mutant: only serve says that the session has gone.
GoesQuietly ==
    /\ task = "left"
    /\ task' = "gone"
    /\ parked' = [q \in Questions |-> "none"]
    /\ UNCHANGED <<registry, reports, reachable, inbox, held, stopping, calls>>

\* run: however it ended, the session is reported gone; its questions with it.
Ends ==
    /\ task = "left" /\ MayReport
    /\ task' = "gone"
    /\ Reports(States("offline"))
    /\ parked' = [q \in Questions |-> "none"]
    /\ UNCHANGED <<registry, reachable, inbox, held, stopping, calls>>
-----------------------------------------------------------------------------
\* The agent has just opened a session for the supervisor.
Init ==
    /\ known = FALSE /\ state = "offline" /\ question = None
    /\ reports = <<States("sleeping")>>
    /\ reachable = TRUE /\ task = "idle"
    /\ inbox = <<>> /\ held = <<>> /\ stopping = FALSE
    /\ parked = [q \in Questions |-> "none"]
    /\ pc = [c \in Calls |-> "idle"]
    /\ kind = [c \in Calls |-> None] /\ about = [c \in Calls |-> None]

Caller(c) ==
    \/ \E k \in {"prompt", "cancel", "stop"} : Call(c, k)
    \/ \E k \in {"allow", "deny"} : Answer(c, k)
    \/ Reach(c) \/ Send(c) \/ Refused(c) \/ Deliver(c)
    \/ Marks(c) \/ Told(c) \/ Forgets(c) \/ Dropped(c)

Agent(q) == Asks(q) \/ Responds(q) \/ GivesUp(q)

Serve == \/ TakeInTurn \/ TakeNext \/ InboxCloses \/ Ends \/ Dies
         \/ \E reason \in Over : EndTurn(reason)

Next == \/ Opened \/ Apply \/ Serve
        \/ \E c \in Calls : Caller(c)
        \/ \E q \in Questions : Agent(q)

Proceeds(c) == Reach(c) \/ Send(c) \/ Refused(c) \/ Marks(c)

\* The tasks run; the inbox serves its senders in turn; an agent's turn ends.
Fairness ==
    /\ WF_vars(Apply)
    /\ SF_vars(TakeInTurn \/ TakeNext)
    /\ SF_vars(\E reason \in Over : EndTurn(reason))
    /\ \A c \in Calls : SF_vars(Proceeds(c))
    /\ \A q \in Questions : WF_vars(Responds(q) \/ GivesUp(q))

Spec == Init /\ [][Next]_vars /\ Fairness
-----------------------------------------------------------------------------
(* What has to be so. *)

\* How a call on the session stands, as AgentPromise would say.
Standing == [idle |-> "none", reach |-> "asked", send |-> "asked", sent |-> "asked",
             mark |-> "taken", forget |-> "taken", refused |-> "refused", deliver |-> "none"]
Stand(c) == IF kind[c] \in {"prompt", "cancel", "stop"} THEN Standing[pc[c]] ELSE "none"

P == INSTANCE AgentPromise WITH asked <- [c \in Calls |-> Stand(c)],
                                working <- task = "turn",
                                open <- reachable /\ Listening

\* The session keeps AgentPromise: every call is answered or given up, one
\* prompt is worked on at a time, and none is refused while the session is open
\* (RunningSession::send, serve).
KeepsPromise == P!Promise

\* Nothing is on its way to the registry.
Quiet == known /\ reports = <<>> /\ \A c \in Calls : pc[c] # "mark"

\* When every report and mark has been applied, twice over or not, the registry
\* says of the session what is so: it is not said to work between turns, nor to
\* have finished in a turn, nor to be there when it has gone
\* (SessionRegistry::apply, AgentSupervisor::mark).
RecordSettles ==
    Quiet => /\ task = "idle" => state \notin {"queued", "working", "waiting_approval", "offline"}
             /\ task = "turn" => state \notin {"sleeping", "completed", "failed", "offline"}
             /\ task = "gone" => state = "offline"

=============================================================================
