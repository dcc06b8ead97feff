--------------------------- MODULE WorkflowEngine ---------------------------
(***************************************************************************)
(* The workflow engine of pushos-workflows: runs of one configured         *)
(* workflow, the tasks that carry them, the rows that outlive the process, *)
(* and the agents and terminals a step waits for.                          *)
(*                                                                         *)
(* The engine holds its runs behind one mutex that is taken for a single   *)
(* read or a single write and released before anything is awaited.  Every  *)
(* action below is therefore the code between two such points: reading a   *)
(* run, writing a transition, putting a changed copy back, writing the     *)
(* row.  Anything may happen in between.                                   *)
(***************************************************************************)
EXTENDS Naturals, Sequences, FiniteSets

CONSTANTS
    Runs,          \* run identifiers
    Nodes,         \* the steps of the workflow
    Start,         \* its first step
    Graph,         \* what each step does and where it leads
    MaxSteps,      \* limits.max_steps
    KeptFinished,  \* finished runs kept in memory
    Sessions,      \* agent sessions, one for each role
    Terminals,     \* terminal names
    Editions,      \* the step sets a restart may find configured; {} is "gone"
    None,          \* nothing
    \* bounds of an instance
    Tasks,         \* how many tokio tasks work on runs at once
    MaxCalls,      \* operator calls (pads, Studio) under way at once
    MaxTurns,      \* prompts an agent session holds, the one it is on included
    MaxCrashes,    \* how often the process dies
    Allowed        \* what the environment may do, see Weather

Weather == {"cancel", "timeout", "store failure", "early start", "zero delay",
            "agent asks", "late write", "quick worker", "slow call"}

Kinds    == {"emit", "end", "condition", "delay", "approval", "action", "agent",
             "terminal"}
Checks   == {"succeeded", "failed", "attempts"}
Outcomes == {"succeeded", "failed", "cancelled", "exhausted"}

ASSUME ConstantsAssumption ==
    /\ Start \in Nodes
    /\ Graph \in [Nodes -> [kind: Kinds, next: Nodes, alt: Nodes,
                            worker: Sessions \cup Terminals \cup {None},
                            check: Checks, limit: Nat, outcome: Outcomes]]
    /\ MaxSteps \in Nat
    /\ KeptFinished \in Nat \ {0}
    /\ Editions \subseteq SUBSET Nodes
    /\ MaxCalls \in Nat /\ MaxTurns \in Nat /\ MaxCrashes \in Nat
    /\ Allowed \subseteq Weather
    /\ None \notin Runs \cup Nodes \cup Sessions \cup Terminals

ASSUME NamesAssumption ==
    \A n \in Nodes :
        /\ Graph[n].kind = "agent" => Graph[n].worker \in Sessions
        /\ Graph[n].kind = "terminal" => Graph[n].worker \in Terminals

\* What a run waits for is one thing or another: Waiting is an enum.
ASSUME WaitingAssumption ==
    /\ Sessions \cap Terminals = {}
    /\ (Sessions \cup Terminals) \cap
          (Outcomes \cup {"lost session", "approval", "delay"}) = {}

ASSUME TasksAssumption == IsFiniteSet(Tasks)
-----------------------------------------------------------------------------
VARIABLES
    runs,       \* the engine's map of runs
    task,       \* what each tokio task is in the middle of
    disk,       \* workflow_runs, one row a run
    written,    \* workflow_transitions, as the edges each run has taken
    recovery,   \* what resume() has still to pick up
    known,      \* the steps configured in this process; none when it is gone
    late,       \* runs older than limits.timeout
    turns,      \* prompts each agent session has not finished
    proc,       \* the process behind each terminal name
    agentNews,  \* the agents' event channel
    termNews,   \* the terminals' event channel
    crashes

vars == <<runs, task, disk, written, recovery, known, late, turns, proc,
          agentNews, termNews, crashes>>

store   == <<disk, written>>
workers == <<turns, proc, agentNews, termNews>>
world   == <<known, late, crashes>>
-----------------------------------------------------------------------------
(* A run, and a task.  A run that is not there is a record like the rest. *)

Waitings == Sessions \cup Terminals \cup {"lost session", "approval", "delay"}
RunState == {"absent", "running", "waiting", "finished"}

Run == [at: Nodes, is: RunState, on: Waitings \cup Outcomes \cup {None},
        steps: Nat, ok: BOOLEAN]

Absent == [at |-> Start, is |-> "absent", on |-> None, steps |-> 0, ok |-> TRUE]

Beginning == [at |-> Start, is |-> "running", on |-> None, steps |-> 0, ok |-> TRUE]

\* Mutants: a run that waits, or one that has ended, is taken for the other.
LiveOnlyRunning(run) == run.is = "running"
LiveAfterEnd(run)    == run.is # "absent"

Live(run) == run.is \in {"running", "waiting"}

Waits(run, on) == run.is = "waiting" /\ run.on = on

Moved(run, to, ok) ==
    [at |-> to, is |-> "running", on |-> None, steps |-> run.steps + 1, ok |-> ok]
\* Mutant: the step count is lost.
ParkedAfresh(run, on) ==
    [at |-> run.at, is |-> "waiting", on |-> on, steps |-> 0, ok |-> run.ok]

Parked(run, on) ==
    [at |-> run.at, is |-> "waiting", on |-> on, steps |-> run.steps, ok |-> run.ok]
Ended(run, outcome) ==
    [at |-> run.at, is |-> "finished", on |-> outcome, steps |-> run.steps, ok |-> run.ok]

Pc == {"idle", "loop", "execute", "open", "step", "park", "finish", "insert",
       "record", "begin", "sleep"}

\* Who a task is working for, besides the run: a call of the operator's, or one
\* of the two streams of news, or resume().
By == {"none", "operator", "agents", "terminals", "resume"}

Task == [pc: Pc, run: Runs \cup {None}, held: Run, to: Nodes \cup {None},
         ok: BOOLEAN, on: Waitings \cup Outcomes \cup {None}, by: By]

Working(pc, r, held, by) ==
    [pc |-> pc, run |-> r, held |-> held, to |-> None, ok |-> TRUE, on |-> None,
     by |-> by]

Idle == Working("idle", None, Absent, "none")

Becomes(t, next) == task' = [task EXCEPT ![t] = next]

\* Mutant: the driver is never spawned.
DrivingNobody(r) == Idle

Driving(r)       == Working("loop", r, Absent, "none")
Sleeping(r)      == Working("sleep", r, Absent, "none")
Stepping(r, by, to, ok) ==
    [pc |-> "step", run |-> r, held |-> Absent, to |-> to, ok |-> ok, on |-> None,
     by |-> by]
Parking(x, on) ==
    [pc |-> "park", run |-> x.run, held |-> Absent, to |-> None, ok |-> TRUE, on |-> on,
     by |-> x.by]
Finishing(x, outcome) ==
    [pc |-> "finish", run |-> x.run, held |-> Absent, to |-> None, ok |-> TRUE,
     on |-> outcome, by |-> x.by]
\* About to put a copy it has changed back in the map.
Holding(x, run) == Working("insert", x.run, run, x.by)

Free(t)   == task[t].pc = "idle"
Busy(by)  == \E t \in Tasks : task[t].by = by
Calls     == Cardinality({t \in Tasks : task[t].by = "operator"})
-----------------------------------------------------------------------------
(* What the engine's calls on its map and on the store do. *)

\* Mutant: nothing is ever forgotten.
PrunedNever(map) == {map}

\* forget_stale: all but the newest few finished runs go.  Which are newest is
\* decided by clock stamps taken before the lock, so any few may be.
Pruned(map) ==
    LET done == {r \in Runs : map[r].is = "finished"}
        some == {kept \in SUBSET done :
                    Cardinality(kept) = IF Cardinality(done) <= KeptFinished
                                        THEN Cardinality(done) ELSE KeptFinished}
    IN  {[r \in Runs |-> IF r \in done \ kept THEN Absent ELSE map[r]] : kept \in some}

\* The locked half of remember.
Remembered(r, run) ==
    LET map == [runs EXCEPT ![r] = run]
    IN  IF run.is = "finished" THEN runs' \in Pruned(map) ELSE runs' = map

\* Mutants: a parked run's row is not written; no transition is; the two steps of
\* a transition are swapped.
SavedUnlessParked(r, run) ==
    disk' = IF run.is = "waiting" THEN disk ELSE [disk EXCEPT ![r] = run]
AppendedNever(r, from, to)   == UNCHANGED written
AppendedSwapped(r, from, to) ==
    written' = [written EXCEPT ![r] = @ \cup {<<to, IF from = None THEN to ELSE from>>}]

\* A write that fails is logged and otherwise ignored.
Saved(r, run) ==
    \/ disk' = [disk EXCEPT ![r] = run]
    \/ "store failure" \in Allowed /\ UNCHANGED disk

Appended(r, from, to) ==
    \/ written' = [written EXCEPT ![r] = @ \cup {<<from, to>>}]
    \/ "store failure" \in Allowed /\ UNCHANGED written

Configured == Start \in known

\* Mutant: one step too many.
ExhaustedLate(r, run) == run.steps > MaxSteps \/ r \in late

\* exhausted: out of steps, or out of time.
Exhausted(r, run) == run.steps >= MaxSteps \/ r \in late

Holds(n, run) ==
    CASE Graph[n].check = "succeeded" -> run.ok
      [] Graph[n].check = "failed"    -> ~run.ok
      [] Graph[n].check = "attempts"  -> run.steps < Graph[n].limit
-----------------------------------------------------------------------------
(* One task, between two awaits. *)

\* advance: the top of the loop.
Advance(t) ==
    /\ task[t].pc = "loop"
    /\ LET run == runs[task[t].run]
       IN  Becomes(t, IF Live(run)
                      THEN Working("execute", task[t].run, run, task[t].by)
                      ELSE Idle)
    /\ UNCHANGED <<runs, store, recovery, workers, world>>

RunsOut(t) ==
    /\ task[t].pc = "execute" /\ Exhausted(task[t].run, task[t].held)
    /\ Becomes(t, Finishing(task[t], "exhausted"))
    /\ UNCHANGED <<runs, store, recovery, workers, world>>

\* "The step is not in the workflow": its file changed while the run was down.
StepMissing(t) ==
    /\ task[t].pc = "execute" /\ ~Exhausted(task[t].run, task[t].held)
    /\ task[t].held.at \notin known
    /\ Becomes(t, Finishing(task[t], "failed"))
    /\ UNCHANGED <<runs, store, recovery, workers, world>>

Executes(t, kind) ==
    /\ task[t].pc = "execute" /\ ~Exhausted(task[t].run, task[t].held)
    /\ task[t].held.at \in known
    /\ Graph[task[t].held.at].kind = kind

Here(t) == Graph[task[t].held.at]

ExecuteEmit(t) ==
    /\ Executes(t, "emit")
    /\ Becomes(t, Stepping(task[t].run, task[t].by, Here(t).next, TRUE))
    /\ UNCHANGED <<runs, store, recovery, workers, world>>

ExecuteEnd(t) ==
    /\ Executes(t, "end")
    /\ Becomes(t, Finishing(task[t], Here(t).outcome))
    /\ UNCHANGED <<runs, store, recovery, workers, world>>

ExecuteCondition(t) ==
    /\ Executes(t, "condition")
    /\ LET x == task[t]
           to == IF Holds(x.held.at, x.held) THEN Here(t).next ELSE Here(t).alt
       IN  Becomes(t, Stepping(x.run, x.by, to, x.held.ok))
    /\ UNCHANGED <<runs, store, recovery, workers, world>>

\* The sleeper is spawned before the run is parked.
ExecuteDelay(t, sleeper) ==
    /\ Executes(t, "delay")
    /\ sleeper # t /\ Free(sleeper)
    /\ task' = [task EXCEPT ![t] = Parking(task[t], "delay"),
                            ![sleeper] = Sleeping(task[t].run)]
    /\ UNCHANGED <<runs, store, recovery, workers, world>>

ExecuteApproval(t) ==
    /\ Executes(t, "approval")
    /\ Becomes(t, Parking(task[t], "approval"))
    /\ UNCHANGED <<runs, store, recovery, workers, world>>

\* The action went well, or it did not, or the dispatcher is gone.
ExecuteAction(t) ==
    /\ Executes(t, "action")
    /\ \/ \E ok \in BOOLEAN : Becomes(t, Stepping(task[t].run, task[t].by, Here(t).next, ok))
       \/ Becomes(t, Finishing(task[t], "failed"))
    /\ UNCHANGED <<runs, store, recovery, workers, world>>

\* Prompting a session that is busy queues the prompt behind what it is doing.
ExecuteAgent(t) ==
    /\ Executes(t, "agent")
    /\ LET session == Here(t).worker
       IN  \/ /\ turns[session] < MaxTurns
              /\ turns' = [turns EXCEPT ![session] = @ + 1]
              /\ Becomes(t, Parking(task[t], session))
           \/ /\ Becomes(t, Stepping(task[t].run, task[t].by, Here(t).alt, FALSE))
              /\ UNCHANGED turns
    /\ UNCHANGED <<runs, store, recovery, proc, agentNews, termNews, world>>

\* Closing asks the process to die and returns; the registry still lists the
\* terminal as running until its exit has been applied.
ExecuteClose(t) ==
    /\ Executes(t, "terminal")
    /\ LET terminal == Here(t).worker
       IN  proc' = [proc EXCEPT ![terminal] = IF @ = "live" THEN "dying" ELSE @]
    /\ Becomes(t, Working("open", task[t].run, task[t].held, task[t].by))
    /\ UNCHANGED <<runs, store, recovery, turns, agentNews, termNews, world>>

\* Opening returns the terminal already listed under that name, if there is one.
ExecuteOpen(t) ==
    /\ task[t].pc = "open"
    /\ LET terminal == Here(t).worker
       IN  \/ /\ proc[terminal] = "none"
              /\ proc' = [proc EXCEPT ![terminal] = "live"]
              /\ Becomes(t, Parking(task[t], terminal))
           \/ /\ proc[terminal] = "none"
              /\ Becomes(t, Stepping(task[t].run, task[t].by, Here(t).alt, FALSE))
              /\ UNCHANGED proc
           \/ /\ proc[terminal] # "none"
              /\ Becomes(t, Parking(task[t], terminal))
              /\ UNCHANGED proc
    /\ UNCHANGED <<runs, store, recovery, turns, agentNews, termNews, world>>

\* step_to, as far as the awaited append.
StepTo(t) ==
    /\ task[t].pc = "step"
    /\ LET x == task[t]
           run == runs[x.run]
       IN  IF Live(run)
           THEN /\ Appended(x.run, run.at, x.to)
                /\ Becomes(t, Holding(x, Moved(run, x.to, x.ok)))
           ELSE /\ Becomes(t, Driving(x.run))
                /\ UNCHANGED written
    /\ UNCHANGED <<runs, disk, recovery, workers, world>>

Park(t) ==
    /\ task[t].pc = "park"
    /\ LET x == task[t]
           run == runs[x.run]
       IN  Becomes(t, IF Live(run) THEN Holding(x, Parked(run, x.on)) ELSE Idle)
    /\ UNCHANGED <<runs, store, recovery, workers, world>>

\* Unlike the other two, finish does not look whether the run has ended.
Finish(t) ==
    /\ task[t].pc = "finish"
    /\ LET x == task[t]
           run == runs[x.run]
       IN  Becomes(t, IF run.is = "absent" THEN Idle ELSE Holding(x, Ended(run, x.on)))
    /\ UNCHANGED <<runs, store, recovery, workers, world>>

\* remember: the map first, under the lock, and then the row.  The row is handed
\* to the one storage thread as soon as the lock is let go, so rows are written
\* in the order of the map unless a thread is held up between the two.
Insert(t) ==
    /\ task[t].pc = "insert"
    /\ \/ "late write" \in Allowed
       \/ \A u \in Tasks : task[u].pc = "record" => task[u].run # task[t].run
    /\ Remembered(task[t].run, task[t].held)
    /\ Becomes(t, Working("record", task[t].run, task[t].held, task[t].by))
    /\ UNCHANGED <<store, recovery, workers, world>>

\* Once the row is written whoever moved the run drives it on; whoever parked
\* or ended it is done.
Record(t) ==
    /\ task[t].pc = "record"
    /\ LET x == task[t]
       IN  /\ Saved(x.run, x.held)
           /\ Becomes(t, CASE x.held.is # "running" -> Idle
                           [] x.held = Beginning -> Working("begin", x.run, Absent, x.by)
                           [] OTHER -> Driving(x.run))
    /\ UNCHANGED <<runs, written, recovery, workers, world>>

\* start writes its first transition after the row.
Begin(t) ==
    /\ task[t].pc = "begin"
    /\ Appended(task[t].run, None, Start)
    /\ Becomes(t, Driving(task[t].run))
    /\ UNCHANGED <<runs, disk, recovery, workers, world>>

\* A delay may be configured as no seconds at all; any other is longer than it
\* takes to park the run it was spawned for.
Wake(t) ==
    LET x == task[t]
        run == runs[x.run]
        parking == \E u \in Tasks : /\ task[u].run = x.run
                                    /\ \/ (task[u].pc = "park" /\ task[u].on = "delay")
                                       \/ (task[u].pc = "insert" /\ task[u].held.on = "delay")
    IN  /\ x.pc = "sleep"
        /\ "zero delay" \in Allowed \/ ~parking
        /\ Becomes(t, IF /\ Waits(run, "delay")
                         /\ run.at \in known /\ Graph[run.at].kind = "delay"
                      THEN Stepping(x.run, x.by, Graph[run.at].next, run.ok)
                      ELSE Idle)
        /\ UNCHANGED <<runs, store, recovery, workers, world>>
-----------------------------------------------------------------------------
(* What starts a task: the operator, the news of agents and terminals, and    *)
(* resume after a restart.                                                    *)

Recovered == /\ recovery.read /\ \A r \in Runs : recovery.rows[r] = Absent
             /\ ~Busy("resume")

Called(t) == Free(t) /\ Calls < MaxCalls

\* A generated identifier has never been used.
Fresh(r) == /\ runs[r] = Absent /\ disk[r] = Absent /\ written[r] = {}
            /\ r \notin late /\ \A t \in Tasks : task[t].run # r

StartRun(t, r) ==
    /\ Called(t) /\ Configured /\ Fresh(r)
    /\ "early start" \in Allowed \/ Recovered
    /\ Remembered(r, Beginning)
    /\ Becomes(t, Working("record", r, Beginning, "operator"))
    /\ UNCHANGED <<store, recovery, workers, world>>

Cancel(t, r) ==
    /\ Called(t) /\ "cancel" \in Allowed
    /\ Live(runs[r])
    /\ Becomes(t, Working("insert", r, Ended(runs[r], "cancelled"), "operator"))
    /\ UNCHANGED <<runs, store, recovery, workers, world>>

Answer(t, r, allow) ==
    /\ Called(t)
    /\ Waits(runs[r], "approval")
    /\ runs[r].at \in known /\ Graph[runs[r].at].kind = "approval"
    /\ LET node == Graph[runs[r].at]
           to == IF allow THEN node.next ELSE node.alt
       IN  Becomes(t, Stepping(r, "operator", to, allow))
    /\ UNCHANGED <<runs, store, recovery, workers, world>>

\* The dispatcher gives a call thirty seconds and drops what is left of it.  A
\* write it was waiting for is with the storage thread already, and is made.
CallDropped(t) ==
    /\ "slow call" \in Allowed /\ task[t].by = "operator"
    /\ Becomes(t, Idle)
    /\ IF task[t].pc = "record" THEN Saved(task[t].run, task[t].held) ELSE UNCHANGED disk
    /\ IF task[t].pc = "begin" THEN Appended(task[t].run, None, Start)
                               ELSE UNCHANGED written
    /\ UNCHANGED <<runs, recovery, workers, world>>

\* find, then leave_wait up to its step_to: some one run that is waiting on the
\* worker is moved on, if its step is one that waits for a worker.
Released(t, worker, ok, by) ==
    LET waiting == {r \in Runs : Waits(runs[r], worker)}
        parted(r) ==
            LET node == Graph[runs[r].at]
            IN  IF runs[r].at \in known /\ node.kind \in {"agent", "terminal"}
                THEN Becomes(t, Stepping(r, by, IF ok THEN node.next ELSE node.alt, ok))
                ELSE UNCHANGED task
    IN  IF waiting = {} THEN UNCHANGED task ELSE \E r \in waiting : parted(r)

\* The one task that reads the agents' events hands them over one at a time.
AgentFinished(t) ==
    /\ Free(t) /\ ~Busy("agents") /\ agentNews # <<>>
    /\ agentNews' = Tail(agentNews)
    /\ Released(t, Head(agentNews).session, Head(agentNews).state = "completed", "agents")
    /\ UNCHANGED <<runs, store, recovery, turns, proc, termNews, world>>

\* The registry learns of the exit first, then the engine.
TerminalFinished(t) ==
    /\ Free(t) /\ ~Busy("terminals") /\ termNews # <<>>
    /\ termNews' = Tail(termNews)
    /\ proc' = [proc EXCEPT ![Head(termNews).terminal] = "none"]
    /\ Released(t, Head(termNews).terminal, Head(termNews).ok, "terminals")
    /\ UNCHANGED <<runs, store, recovery, turns, agentNews, world>>

\* resume reads the unfinished rows once.
ReadUnfinished ==
    /\ ~recovery.read
    /\ \/ recovery' = [read |-> TRUE,
                       rows |-> [r \in Runs |-> IF Live(disk[r]) THEN disk[r] ELSE Absent]]
       \/ /\ "store failure" \in Allowed
          /\ recovery' = [read |-> TRUE, rows |-> recovery.rows]
    /\ UNCHANGED <<runs, task, store, workers, world>>

\* Mutant: a row that has been picked up is still there to pick up.
PicksUpAgain(r) ==
    /\ recovery.rows[r] # Absent /\ ~Busy("resume")
    /\ UNCHANGED recovery

PicksUp(r) == /\ recovery.rows[r] # Absent /\ ~Busy("resume")
              /\ recovery' = [read |-> recovery.read,
                             rows |-> [recovery.rows EXCEPT ![r] = Absent]]

\* The workflow is no longer configured.
PickUpGone(t, r) ==
    /\ PicksUp(r) /\ Free(t) /\ ~Configured
    /\ LET run == Ended(recovery.rows[r], "failed")
       IN  /\ Remembered(r, run)
           /\ Becomes(t, Working("record", r, run, "resume"))
    /\ UNCHANGED <<store, workers, world>>

\* In flight, or waiting on a worker that went with the process: entered again.
PickUpStep(t, r) ==
    /\ PicksUp(r) /\ Free(t) /\ Configured
    /\ ~Waits(recovery.rows[r], "approval") /\ ~Waits(recovery.rows[r], "delay")
    /\ runs' = [runs EXCEPT ![r] = recovery.rows[r]]
    /\ Becomes(t, Driving(r))
    /\ UNCHANGED <<store, workers, world>>

PickUpDelay(t, r) ==
    /\ PicksUp(r) /\ Free(t) /\ Configured
    /\ Waits(recovery.rows[r], "delay")
    /\ runs' = [runs EXCEPT ![r] = recovery.rows[r]]
    /\ Becomes(t, Sleeping(r))
    /\ UNCHANGED <<store, workers, world>>

PickUpApproval(r) ==
    /\ PicksUp(r) /\ Configured
    /\ Waits(recovery.rows[r], "approval")
    /\ runs' = [runs EXCEPT ![r] = recovery.rows[r]]
    /\ UNCHANGED <<task, store, workers, world>>
-----------------------------------------------------------------------------
(* Agents, terminals, the clock and the process itself. *)

\* Someone has been told to wait for the worker and has not parked the run yet.
\* Parking takes no I/O: only a worker that is done at once is done by then.
Awaited(worker) ==
    \E t \in Tasks : \/ (task[t].pc = "park" /\ task[t].on = worker)
                    \/ (task[t].pc = "insert" /\ task[t].held.on = worker)

InTime(worker) == "quick worker" \in Allowed \/ ~Awaited(worker)

News(session, state) == [session |-> session, state |-> state]

TurnEnds(session, state) ==
    /\ turns[session] > 0 /\ InTime(session)
    /\ turns' = [turns EXCEPT ![session] = @ - 1]
    /\ agentNews' = Append(agentNews, News(session, state))
    /\ UNCHANGED <<runs, task, store, recovery, proc, termNews, world>>

\* In the middle of a turn an agent may stop to ask for permission.
AgentAsks(session) ==
    /\ "agent asks" \in Allowed /\ turns[session] > 0 /\ InTime(session)
    /\ News(session, "waiting_approval") \notin {agentNews[i] : i \in DOMAIN agentNews}
    /\ agentNews' = Append(agentNews, News(session, "waiting_approval"))
    /\ UNCHANGED <<runs, task, store, recovery, turns, proc, termNews, world>>

\* A process that was asked to die does not succeed.
ProcessExits(terminal, ok) ==
    /\ InTime(terminal)
    /\ \/ proc[terminal] = "live"
       \/ proc[terminal] = "dying" /\ ~ok
    /\ proc' = [proc EXCEPT ![terminal] = "exited"]
    /\ termNews' = Append(termNews, [terminal |-> terminal, ok |-> ok])
    /\ UNCHANGED <<runs, task, store, recovery, turns, agentNews, world>>

TimePasses(r) ==
    /\ "timeout" \in Allowed /\ r \notin late
    /\ Live(runs[r]) \/ Live(disk[r])
    /\ late' = late \cup {r}
    /\ UNCHANGED <<runs, task, store, recovery, workers, known, crashes>>

\* Everything but the database goes; the next process may find the workflow
\* edited, or gone.  The session a row names is none of the next process's.
Crash ==
    /\ crashes < MaxCrashes
    /\ crashes' = crashes + 1
    /\ runs' = [r \in Runs |-> Absent]
    /\ task' = [t \in Tasks |-> Idle]
    /\ recovery' = [read |-> FALSE, rows |-> [r \in Runs |-> Absent]]
    /\ known' \in Editions
    /\ turns' = [s \in Sessions |-> 0]
    /\ proc' = [p \in Terminals |-> "none"]
    /\ agentNews' = <<>> /\ termNews' = <<>>
    /\ disk' = [r \in Runs |-> IF disk[r].on \in Sessions
                             THEN [disk[r] EXCEPT !.on = "lost session"] ELSE disk[r]]
    /\ UNCHANGED <<written, late>>
-----------------------------------------------------------------------------
Init ==
    /\ runs = [r \in Runs |-> Absent]
    /\ task = [t \in Tasks |-> Idle]
    /\ disk = [r \in Runs |-> Absent]
    /\ written = [r \in Runs |-> {}]
    /\ recovery = [read |-> FALSE, rows |-> [r \in Runs |-> Absent]]
    /\ known = Nodes
    /\ late = {}
    /\ turns = [s \in Sessions |-> 0]
    /\ proc = [p \in Terminals |-> "none"]
    /\ agentNews = <<>> /\ termNews = <<>>
    /\ crashes = 0

\* What a task does once it has started.
Execute(t) ==
    \/ RunsOut(t) \/ StepMissing(t)
    \/ ExecuteEmit(t) \/ ExecuteEnd(t) \/ ExecuteCondition(t)
    \/ \E u \in Tasks : ExecuteDelay(t, u)
    \/ ExecuteApproval(t) \/ ExecuteAction(t) \/ ExecuteAgent(t)
    \/ ExecuteClose(t) \/ ExecuteOpen(t)

Carry(t) ==
    \/ Advance(t) \/ Execute(t)
    \/ StepTo(t) \/ Park(t) \/ Finish(t)
    \/ Insert(t) \/ Record(t) \/ Begin(t) \/ Wake(t)

Resume ==
    \/ ReadUnfinished
    \/ \E r \in Runs : PickUpApproval(r)
    \/ \E t \in Tasks, r \in Runs :
          PickUpGone(t, r) \/ PickUpStep(t, r) \/ PickUpDelay(t, r)

Operator ==
    \/ \E t \in Tasks, r \in Runs :
          \/ StartRun(t, r) \/ Cancel(t, r)
          \/ \E allow \in BOOLEAN : Answer(t, r, allow)
    \/ \E t \in Tasks : CallDropped(t)

Environment ==
    \/ \E s \in Sessions : AgentAsks(s)
    \/ \E s \in Sessions, state \in {"completed", "failed"} : TurnEnds(s, state)
    \/ \E p \in Terminals, ok \in BOOLEAN : ProcessExits(p, ok)
    \/ \E r \in Runs : TimePasses(r)
    \/ Crash

Next ==
    \/ \E t \in Tasks : Carry(t) \/ AgentFinished(t) \/ TerminalFinished(t)
    \/ Resume \/ Operator \/ Environment

Spec == Init /\ [][Next]_vars

\* tokio runs every task that can go on, a prompt turn and a process end sooner
\* or later, and the two readers of events read on.  Nobody has to press a pad.
Fairness ==
    /\ \A t \in Tasks : WF_vars(Carry(t))
    /\ WF_vars(Resume)
    /\ WF_vars(\E t \in Tasks : AgentFinished(t))
    /\ WF_vars(\E t \in Tasks : TerminalFinished(t))
    /\ \A s \in Sessions :
          WF_vars(\E state \in {"completed", "failed"} : TurnEnds(s, state))
    /\ \A p \in Terminals : WF_vars(\E ok \in BOOLEAN : ProcessExits(p, ok))

FairSpec == Spec /\ Fairness
-----------------------------------------------------------------------------
(* Properties. *)

\* Every variable has its type.
TypeOK ==
    /\ runs \in [Runs -> Run]
    /\ task \in [Tasks -> Task]
    /\ disk \in [Runs -> Run]
    /\ written \in [Runs -> SUBSET ((Nodes \cup {None}) \X Nodes)]
    /\ recovery \in [read: BOOLEAN, rows: [Runs -> Run]]
    /\ known \subseteq Nodes
    /\ late \subseteq Runs
    /\ turns \in [Sessions -> Nat]
    /\ proc \in [Terminals -> {"none", "live", "dying", "exited"}]
    /\ agentNews \in Seq([session: Sessions,
                          state: {"completed", "failed", "waiting_approval"}])
    /\ termNews \in Seq([terminal: Terminals, ok: BOOLEAN])
    /\ crashes \in Nat

\* A task that has still to look at a run, or to move it on, carries it.
Carrying(x, r) ==
    /\ x.run = r
    /\ \/ x.pc \in {"loop", "execute", "open", "step", "park", "finish", "insert",
                    "begin"}
       \/ x.pc = "record" /\ x.held.is = "running"

Carries(t, r) == Carrying(task[t], r)

\* A run that says it is running is being run: whatever the operator, the news
\* and a restart do to it, a run is never left saying "running" with no task
\* that will take it on.  Such a run could only be cancelled.
NoRunIsAbandoned ==
    \A r \in Runs : runs[r].is = "running" => \E t \in Tasks : Carries(t, r)

\* No run is advanced by two tasks at once, which would run its steps twice.
OneDriver ==
    \A t, u \in Tasks, r \in Runs : Carries(t, r) /\ Carries(u, r) => t = u

\* "How many steps one run may take in total" is never exceeded.
StepsWithinLimit == \A r \in Runs : runs[r].steps <= MaxSteps

\* The history of a run is a walk through its workflow.
HistoryFollowsGraph ==
    \A r \in Runs : \A edge \in written[r] :
        \/ edge = <<None, Start>>
        \/ /\ edge[1] \in Nodes
           /\ edge[2] \in {Graph[edge[1]].next, Graph[edge[1]].alt}

\* What a step does, it does only when the row on disk says the run is on that
\* step, and the transition that led there is written: a restart never reads
\* less than what has been acted on, nor more.
StepWrittenFirst ==
    \A t \in Tasks : task[t].pc \in {"execute", "open"} =>
        LET r == task[t].run
            at == task[t].held.at
        IN  /\ disk[r].at = at /\ disk[r].steps = task[t].held.steps
            /\ at = Start \/ \E edge \in written[r] : edge[2] = at

\* Between writes, the row says what memory says.
RowSaysWhatMemorySays ==
    \A r \in Runs :
        \/ runs[r] = Absent
        \/ disk[r] = runs[r]
        \/ \E t \in Tasks : task[t].run = r /\ task[t].pc = "record"

\* At most the newest few finished runs stay in memory.
FinishedAreFew ==
    Cardinality({r \in Runs : runs[r].is = "finished"}) <= KeptFinished

\* A run that has ended stays as it ended, until it is forgotten.
EndedStaysEnded ==
    [][\A r \in Runs : runs[r].is = "finished" => runs'[r] \in {runs[r], Absent}]_vars

\* What a restart reads only moves forward, and a row that says how the run
\* ended is never rewritten.
RowsMoveForward ==
    [][\A r \in Runs : /\ disk'[r].steps >= disk[r].steps
                       /\ disk[r].is = "finished" => disk'[r] = disk[r]]_vars

\* A running run comes to wait or to end, even across restarts.
EveryRunSettles ==
    \A r \in Runs : disk[r].is = "running" ~> disk[r].is # "running"

\* A run waiting on an agent or a terminal is waiting for something that has
\* still to happen: the turn has not ended or its news has not been heard.
EveryWaitHasAnEnd ==
    \A r \in Runs : runs[r].is = "waiting" =>
        /\ runs[r].on \in Sessions =>
              \/ turns[runs[r].on] > 0
              \/ \E i \in DOMAIN agentNews : agentNews[i].session = runs[r].on
              \/ \E t \in Tasks : task[t].run = r /\ task[t].pc # "idle"
        /\ runs[r].on \in Terminals =>
              \/ proc[runs[r].on] # "none"
              \/ \E t \in Tasks : task[t].run = r /\ task[t].pc # "idle"
        /\ runs[r].on = "delay" => \E t \in Tasks : task[t].run = r /\ task[t].pc # "idle"

=============================================================================
