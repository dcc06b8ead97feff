---------------------------- MODULE StorageWriter ----------------------------
(***************************************************************************)
(* The one thread that owns the database (pushos-storage): the bounded     *)
(* queue in front of it, the askers that wait for a commit, the events     *)
(* nobody waits for, the trimming of the record every so many events, the  *)
(* stop that is served in its turn, and the process that may be lost       *)
(* between any two statements.                                             *)
(*                                                                         *)
(* The askers are the runs of workflows, each written by one driver:       *)
(* WorkflowEngine models how it comes to write.  SQLite runs outside a     *)
(* transaction, so a statement is committed by itself or not at all.       *)
(***************************************************************************)
EXTENDS Naturals, Sequences, FiniteSets

CONSTANTS
    Runs,           \* the runs that are written
    Capacity,       \* QUEUE_CAPACITY
    TrimEvery,      \* TRIM_EVERY
    EventsKept,     \* EVENTS_KEPT
    FinishedKept,   \* FINISHED_RUNS_KEPT
    MostWrites,     \* bound: rows and steps one run writes
    MostEvents,     \* bound: events accepted
    MostStarts,     \* bound: times the process is started
    None,           \* nobody, nothing
    Allowed         \* what may happen, see Weather

\* "failed write", "failed event", "failed trim": the database refuses what a
\*     driver asked for, an event, or a statement of a trim.
\* "unwritten run": the first row of a run finds no room, or is refused.
\* "late handle": a handle to the storage is used after it was told to stop.
Weather == {"failed write", "failed event", "failed trim", "unwritten run", "late handle"}

ASSUME ConstantsAssumption ==
    /\ {Capacity, TrimEvery, EventsKept, MostStarts} \subseteq Nat \ {0}
    /\ {FinishedKept, MostWrites, MostEvents} \subseteq Nat
    /\ None \notin Runs
    /\ Allowed \subseteq Weather
-----------------------------------------------------------------------------
VARIABLES
    queue,      \* the requests the thread has not taken
    thread,     \* the storage thread
    hand,       \* the request it is at
    left,       \* the statements it has yet to run for it
    failed,     \* whether one it answers for was refused
    since,      \* since_trim
    doomed,     \* the runs the trim at hand removes
    rows,       \* workflow_runs, on disk
    steps,      \* workflow_transitions, on disk: how many of each run
    events,     \* events, on disk
    pc,         \* where the driver of each run is
    told,       \* what was acknowledged of each run
    sent,       \* how many events were accepted
    earlier,    \* of them, how many by a process before this one
    starts,     \* how often the process was started
    dropping    \* how far dropping the StorageWriter has got

worker == <<thread, hand, left, failed, since, doomed>>
disk   == <<rows, steps, events>>
askers == <<pc, told>>
count  == <<sent, earlier, starts>>
vars   == <<queue, worker, disk, askers, count, dropping>>

\* A row: how many times it was written, and whether the run is over.
Row     == [v : Nat, over : BOOLEAN]
NoRow   == [v |-> 0, over |-> FALSE]
Request == [what : {"save"}, run : Runs, row : Row]
           \cup [what : {"step"}, run : Runs, n : Nat]
           \cup [what : {"event"}, e : Nat] \cup [what : {"shutdown"}]

ASSUME NobodyAssumption == None \notin Request

\* Mutant: a trim takes the runs before their steps.
RowsFirst == <<"old events", "surplus events", "finished rows", "finished steps">>

Trimming == <<"old events", "surplus events", "finished steps", "finished rows">>

TypeOK ==
    /\ queue \in Seq(Request) /\ Len(queue) <= Capacity
    /\ thread \in {"serving", "ended", "lost"}
    /\ hand \in Request \cup {None}
    /\ left \in Seq({"own", Trimming[1], Trimming[2], Trimming[3], Trimming[4]})
    /\ failed \in BOOLEAN /\ since < TrimEvery /\ doomed \subseteq Runs
    /\ rows \in [Runs -> Row] /\ steps \in [Runs -> Nat] /\ events \subseteq 1..sent
    /\ pc \in [Runs -> {"new", "ready", "waiting", "over", "down"}]
    /\ told \in [Runs -> [row : Row, steps : Nat]]
    /\ earlier <= sent /\ dropping \in {"no", "sending", "joining"}
-----------------------------------------------------------------------------
(* The handles. *)

\* try_send: full is refused, and so is a thread that has ended.
Refused == Len(queue) >= Capacity \/ thread # "serving"
Puts(r) == ~Refused /\ queue' = Append(queue, r)

\* Nothing is asked once the process is going, unless a handle outlives it.
MayAsk == thread # "lost" /\ (dropping = "no" \/ "late handle" \in Allowed)

\* ask: the driver waits, or is refused and goes on; it warns of a row that
\* was not written, and carries on all the same.
Asks(r, request) ==
    /\ MayAsk
    /\ \/ Puts(request) /\ pc' = [pc EXCEPT ![r] = "waiting"]
       \/ /\ Refused /\ UNCHANGED queue
          /\ pc[r] = "new" => "unwritten run" \in Allowed
          /\ pc' = [pc EXCEPT ![r] = IF request.what = "save" /\ request.row.over
                                     THEN "over" ELSE "ready"]

\* What the driver writes next, by what it has been told: it asks for one
\* thing at a time.
Save(r) ==
    /\ pc[r] \in {"new", "ready"} /\ told[r].row.v < MostWrites
    /\ \E over \in BOOLEAN :
          /\ pc[r] = "new" => ~over
          /\ Asks(r, [what |-> "save", run |-> r,
                      row |-> [v |-> told[r].row.v + 1, over |-> over]])
    /\ UNCHANGED <<worker, disk, told, count, dropping>>

Step(r) ==
    /\ pc[r] = "ready" /\ told[r].steps < MostWrites
    /\ Asks(r, [what |-> "step", run |-> r, n |-> told[r].steps + 1])
    /\ UNCHANGED <<worker, disk, told, count, dropping>>

\* record_event: nobody waits for it.
RecordEvent ==
    /\ MayAsk /\ sent < MostEvents
    /\ Puts([what |-> "event", e |-> sent + 1])
    /\ sent' = sent + 1
    /\ UNCHANGED <<worker, disk, askers, earlier, starts, dropping>>
-----------------------------------------------------------------------------
(* The thread. *)

\* Mutant: the record is trimmed only when PushOS starts.
NeverTrims(r) == FALSE

\* Trimmed before the event is written, every so many of them.
Trims(r) == r.what = "event" /\ since + 1 >= TrimEvery

Finished == {r \in Runs : rows[r].over}

\* Mutant: a trim counts every run it knows as finished.
StaleOfAll ==
    LET Written == {r \in Runs : rows[r].v > 0}
    IN  {gone \in SUBSET Written : Cardinality(Written \ gone) <= FinishedKept}

\* The finished runs a trim removes, with their steps: which are the oldest is
\* for the clock to say.  Each of its two statements looks for them, and
\* nothing is written between the two.
Stale == {gone \in SUBSET Finished : Cardinality(Finished \ gone) <= FinishedKept}

\* Whoever still waits is told the storage has stopped.
Unanswered == {r \in Runs : pc[r] = "waiting"}

\* serve: a stop is taken in its turn, and nothing after it is served.
Take ==
    /\ thread = "serving" /\ hand = None /\ queue # <<>>
    /\ LET r == Head(queue) IN
       IF r.what = "shutdown"
       THEN /\ thread' = "ended" /\ queue' = <<>>
            /\ pc' = [q \in Runs |-> IF q \in Unanswered THEN "ready" ELSE pc[q]]
            /\ UNCHANGED <<hand, left, since, doomed>>
       ELSE /\ hand' = r /\ queue' = Tail(queue)
            /\ left' = IF Trims(r) THEN Append(Trimming, "own") ELSE <<"own">>
            /\ since' = IF r.what # "event" THEN since ELSE IF Trims(r) THEN 0 ELSE since + 1
            /\ doomed' \in IF Trims(r) THEN Stale ELSE {{}}
            /\ UNCHANGED <<thread, pc>>
    /\ UNCHANGED <<failed, disk, told, count, dropping>>

\* The surplus of events, by the order they were inserted in.
Surplus == {e \in events : Cardinality({f \in events : f >= e}) > EventsKept}

\* What the request itself writes: save_run, append_transition, an event.
Own(r) ==
    CASE r.what = "save"  -> rows' = [rows EXCEPT ![r.run] = r.row] /\ UNCHANGED <<steps, events>>
      [] r.what = "step"  -> steps' = [steps EXCEPT ![r.run] = r.n] /\ UNCHANGED <<rows, events>>
      [] r.what = "event" -> events' = events \cup {r.e} /\ UNCHANGED <<rows, steps>>

\* trim, one statement of it.  An event older than EVENTS_FOR was recorded by
\* an earlier process (bound: no process of the model lives that long).
TrimStatement(s) ==
    \/ /\ s = "old events"
       /\ \E cut \in 0..earlier : events' = {e \in events : e > cut}
       /\ UNCHANGED <<rows, steps>>
    \/ s = "surplus events" /\ events' = events \ Surplus /\ UNCHANGED <<rows, steps>>
    \/ /\ s = "finished steps"
       /\ steps' = [r \in Runs |-> IF r \in doomed THEN 0 ELSE steps[r]]
       /\ UNCHANGED <<rows, events>>
    \/ /\ s = "finished rows"
       /\ rows' = [r \in Runs |-> IF r \in doomed THEN NoRow ELSE rows[r]]
       /\ UNCHANGED <<steps, events>>

Statement(s) == IF s = "own" THEN Own(hand) ELSE TrimStatement(s)

\* The next statement is committed.
Execute ==
    /\ thread = "serving" /\ left # <<>>
    /\ Statement(Head(left))
    /\ left' = Tail(left)
    /\ UNCHANGED <<queue, thread, hand, failed, since, doomed, askers, count, dropping>>

\* What the failure of a statement is called.
Failure(s) ==
    IF s # "own" THEN "failed trim"
    ELSE IF hand.what = "event" THEN "failed event"
    ELSE IF hand.what = "save" /\ hand.row.v = 1 THEN "unwritten run" ELSE "failed write"

\* Or it fails, and the rest of a trim with it: the thread goes on serving.
Fails ==
    /\ thread = "serving" /\ left # <<>> /\ Failure(Head(left)) \in Allowed
    /\ left' = IF Head(left) = "own" THEN <<>> ELSE <<"own">>
    /\ failed' = (Head(left) = "own")
    /\ UNCHANGED <<queue, thread, hand, since, doomed, disk, askers, count, dropping>>

\* The asker hears how its statement went.
Acknowledged(r) ==
    IF hand.what = "save" THEN [told[r] EXCEPT !.row = hand.row]
                          ELSE [told[r] EXCEPT !.steps = hand.n]

\* Mutant: a statement that fails ends the request before its answer.
AnswersSuccess ==
    /\ thread = "serving" /\ hand # None /\ left = <<>>
    /\ hand' = None /\ failed' = FALSE /\ doomed' = {}
    /\ IF failed \/ hand.what = "event" THEN UNCHANGED askers
       ELSE LET r == hand.run IN
            /\ told' = [told EXCEPT ![r] = Acknowledged(r)]
            /\ pc' = [pc EXCEPT ![r] = "ready"]
    /\ UNCHANGED <<queue, thread, left, since, disk, count, dropping>>

Answer ==
    /\ thread = "serving" /\ hand # None /\ left = <<>>
    /\ hand' = None /\ failed' = FALSE /\ doomed' = {}
    /\ IF hand.what = "event" THEN UNCHANGED askers
       ELSE LET r == hand.run IN
            /\ told' = IF failed THEN told ELSE [told EXCEPT ![r] = Acknowledged(r)]
            /\ pc' = [pc EXCEPT ![r] = IF hand.what = "save" /\ hand.row.over
                                       THEN "over" ELSE "ready"]
    /\ UNCHANGED <<queue, thread, left, since, disk, count, dropping>>
-----------------------------------------------------------------------------
(* The process. *)

\* Dropping the StorageWriter waits for room for its stop, then for the thread.
Drop == /\ dropping = "no" /\ thread = "serving"
        /\ dropping' = "sending"
        /\ UNCHANGED <<queue, worker, disk, askers, count>>

\* Mutant: the thread is stopped at once, and its queue dropped.
StopAtOnce ==
    /\ dropping = "sending" /\ thread = "serving"
    /\ thread' = "ended" /\ queue' = <<>> /\ dropping' = "joining"
    /\ pc' = [q \in Runs |-> IF pc[q] = "waiting" THEN "ready" ELSE pc[q]]
    /\ UNCHANGED <<hand, left, failed, since, doomed, disk, told, count>>

SendShutdown ==
    /\ dropping = "sending" /\ thread = "serving"
    /\ Puts([what |-> "shutdown"])
    /\ dropping' = "joining"
    /\ UNCHANGED <<worker, disk, askers, count>>

\* The process is lost, or ends once the thread has: what is on disk stays.
\* (A power cut, which synchronous = NORMAL does not promise to survive, is not
\* modelled.)
Lost ==
    /\ thread # "lost"
    /\ thread' = "lost" /\ queue' = <<>> /\ hand' = None /\ left' = <<>>
    /\ failed' = FALSE /\ since' = 0 /\ doomed' = {} /\ dropping' = "no"
    /\ pc' = [r \in Runs |-> IF pc[r] = "new" THEN "new" ELSE "down"]
    /\ UNCHANGED <<disk, told, count>>

\* open: the record is trimmed, and what was going is read back.
Start ==
    /\ thread = "lost" /\ starts < MostStarts
    /\ starts' = starts + 1 /\ earlier' = sent
    /\ thread' = "serving"
    /\ \E cut \in 0..sent, gone \in Stale :
          /\ events' = {e \in events : e > cut} \ Surplus
          /\ steps' = [r \in Runs |-> IF r \in gone THEN 0 ELSE steps[r]]
          /\ rows' = [r \in Runs |-> IF r \in gone THEN NoRow ELSE rows[r]]
    /\ pc' = [r \in Runs |-> IF pc[r] = "new" THEN "new"
                             ELSE IF rows[r].v > 0 /\ ~rows[r].over THEN "ready" ELSE "over"]
    /\ told' = [r \in Runs |-> [row |-> rows'[r], steps |-> steps'[r]]]
    /\ UNCHANGED <<queue, hand, left, failed, since, doomed, sent, dropping>>
-----------------------------------------------------------------------------
Init ==
    /\ queue = <<>> /\ thread = "serving" /\ hand = None /\ left = <<>>
    /\ failed = FALSE /\ since = 0 /\ doomed = {}
    /\ rows = [r \in Runs |-> NoRow] /\ steps = [r \in Runs |-> 0] /\ events = {}
    /\ pc = [r \in Runs |-> "new"]
    /\ told = [r \in Runs |-> [row |-> NoRow, steps |-> 0]]
    /\ sent = 0 /\ earlier = 0 /\ starts = 1 /\ dropping = "no"

Thread == Take \/ Execute \/ Fails \/ Answer

Next ==
    \/ \E r \in Runs : Save(r) \/ Step(r)
    \/ RecordEvent \/ Thread \/ Drop \/ SendShutdown \/ Lost \/ Start

\* The thread runs while the process does, and the stop is let through once
\* there is room: nobody else asks by then.
Spec == /\ Init /\ [][Next]_vars
        /\ WF_vars(Thread) /\ WF_vars(SendShutdown)
-----------------------------------------------------------------------------
(* Properties. *)

\* What a run was told is written is on disk, and stays there through the loss
\* of the process and every trim, until the run is over ("say when it is safe
\* to lose the process").
AcknowledgedIsOnDisk ==
    \A r \in Runs :
        told[r].row.v > 0 /\ ~told[r].row.over =>
            rows[r].v >= told[r].row.v /\ steps[r] >= told[r].steps

\* No step is on disk without the run it is a step of, wherever the process is
\* lost: a trim takes the steps first.
StepsHaveTheirRun ==
    \A r \in Runs : steps[r] > 0 => rows[r].v > 0

\* The window of events "never overruns by more than" TRIM_EVERY, across
\* restarts and however the trims fall.
WindowHolds == Cardinality(events) <= EventsKept + TrimEvery

\* An event accepted by this process is on disk, unless it has been trimmed as
\* surplus, once the thread has stopped as it was asked to.
AcceptedIsCommitted ==
    thread = "ended" =>
        \A e \in earlier + 1 .. sent :
            e \in events \/ Cardinality({f \in events : f > e}) >= EventsKept

\* A driver that waits for the storage is answered or told it has stopped, and
\* dropping the writer ends, full queue or not.
WaitsEnd ==
    /\ \A r \in Runs : pc[r] = "waiting" ~> pc[r] # "waiting"
    /\ dropping = "sending" ~> thread # "serving"
=============================================================================
