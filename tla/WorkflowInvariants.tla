------------------------- MODULE WorkflowInvariants -------------------------
(***************************************************************************)
(* The inductive invariants of the workflow engine: what must hold besides *)
(* the properties for every step to keep them.  WorkflowEngineProofs       *)
(* proves that it does.                                                    *)
(*                                                                         *)
(* TypeOK is not inductive: a task about to step must have somewhere to    *)
(* step to, one about to open a terminal must be on a step that opens one, *)
(* and a task that works must work for a run.  TaskOK says so.             *)
(*                                                                         *)
(* The invariants, in order, each resting on those before it:              *)
(*   Typed     types, and what each point of a task's program guarantees   *)
(*   Solo      who may be on a run, and on one that waits                  *)
(*   Entries, TerminalFree   whose exits may be on their way               *)
(*   Tracked   what a task decided on is what the map says, within limits  *)
(*   Few       how many finished runs there are                            *)
(*   Kept      one row of a run is written at a time, and what the map says*)
(*   Behind, Led    no step is taken up before its row and its transition  *)
(*   OutcomesTold, Onward   rows go forward, and endings stay              *)
(*   Expected, InHand       what a run waits for has still to come         *)
(***************************************************************************)
EXTENDS WorkflowEngine, FiniteSets

Sound(x) ==
    /\ x \in Task
    /\ x.pc # "idle" => x.run \in Runs
    /\ x.pc = "step" => x.to \in Nodes
    /\ x.pc = "open" => Graph[x.held.at].kind = "terminal"

TaskOK == \A t \in Tasks : Sound(task[t])

Typed == TypeOK /\ TaskOK
-----------------------------------------------------------------------------
(* No run is advanced by two tasks.                                        *)
(*                                                                         *)
(* OneDriver is not inductive.  Whoever takes up a run that waits must     *)
(* find nobody on it, so the invariant says who may be on a run that       *)
(* waits: the sleeper it waits for, a task that answers the operator or    *)
(* the news (of which there is one at a time), or, after a restart, the    *)
(* task that enters its step again.                                        *)

ParksFor(x, on) ==
    \/ x.pc = "park" /\ x.on = on
    \/ x.pc = "insert" /\ x.held.is = "waiting" /\ x.held.on = on

OneSleeper ==
    \A t, u \in Tasks :
        task[t].pc = "sleep" /\ task[u].pc = "sleep" /\ task[t].run = task[u].run => t = u

\* A sleeper's run waits for it, with nobody on it, or is about to.
Slept(r) ==
    \/ Waits(runs[r], "delay") /\ \A u \in Tasks : ~Carries(u, r)
    \/ ~Waits(runs[r], "delay") /\ \E u \in Tasks : Carries(u, r) /\ ParksFor(task[u], "delay")

SleeperWaits ==
    \A t \in Tasks, r \in Runs : task[t].pc = "sleep" /\ task[t].run = r => Slept(r)

\* Who carries a run that still waits: what it waits on says for whom.
Taken(x, on) ==
    /\ x.pc \notin {"record", "begin"}
    /\ on = "approval" => x.by = "operator"
    /\ on \in Sessions => x.by = "agents"
    /\ on = "delay" => x.pc = "step" \/ (x.pc = "insert" /\ x.held.is # "waiting")

TakenFrom ==
    \A t \in Tasks, r \in Runs :
        Carries(t, r) /\ runs[r].is = "waiting" => Taken(task[t], runs[r].on)

CarriedIsLive == \A t \in Tasks, r \in Runs : Carries(t, r) => Live(runs[r])

\* From the top of the loop to parking or ending a run a task works for nobody
\* else.
Drives(x) ==
    \/ x.pc \in {"loop", "execute", "open", "park", "finish"}
    \/ x.pc = "insert" /\ x.held.is # "running"

DriversOwn == \A t \in Tasks : Drives(task[t]) => task[t].by = "none"

\* What resume has still to pick up is in nobody's hands, and waits for no
\* session: a restart has none of the old ones.
Unpicked ==
    \A r \in Runs : recovery.rows[r] # Absent =>
        /\ runs[r] = Absent
        /\ recovery.rows[r].on \notin Sessions /\ Live(recovery.rows[r])
        /\ \A t \in Tasks : task[t].pc # "idle" => task[t].run # r

\* Before resume has read the rows nothing is going on.
Unread ==
    ~recovery.read =>
        /\ \A t \in Tasks : task[t].pc = "idle"
        /\ \A r \in Runs : /\ runs[r] = Absent /\ recovery.rows[r] = Absent
                           /\ disk[r].on \notin Sessions

Solo ==
    /\ OneDriver /\ OneSleeper /\ SleeperWaits
    /\ TakenFrom /\ CarriedIsLive /\ DriversOwn
    /\ Unpicked /\ Unread

\* No exit is on its way of a terminal that a run, entered again after a
\* restart, still says it waits on.
ExitsAreOwn ==
    \A t \in Tasks, r \in Runs :
        Carries(t, r) /\ runs[r].is = "waiting" /\ runs[r].on \in Terminals =>
            \/ task[t].by = "terminals"
            \/ \A i \in DOMAIN termNews : termNews[i].terminal # runs[r].on

NothingCancels == "cancel" \notin Allowed
RowsComeFirst  == "early start" \notin Allowed
OneCallAtATime == MaxCalls <= 1

\* A restart enters the step of a run that waited on a terminal again, and the
\* map says it waits until it is parked anew: the exit of a terminal of that name
\* that another run has opened would take it for its own.  So either nothing is
\* entered again, or there is no other run, or no step opens a terminal.
NoTerminalSteps == \A n \in Nodes : Graph[n].kind # "terminal"

NothingIsShared ==
    \/ MaxCrashes = 0
    \/ (\A q, r \in Runs : q = r) /\ "quick worker" \notin Allowed

\* Nothing has been heard of a terminal since the run was entered again, and only
\* the task that has just opened it has anything to hear.
Unheard(p) == \A i \in DOMAIN termNews : termNews[i].terminal # p

OpenedBy(x, p) == proc[p] = "none" \/ (proc[p] = "live" /\ ParksFor(x, p))

Alone(x, p) ==
    x.by = "terminals" \/ (MaxCrashes # 0 /\ Unheard(p) /\ OpenedBy(x, p))

EnteredAlone ==
    \A t \in Tasks, r \in Runs :
        Carries(t, r) /\ runs[r].is = "waiting" /\ runs[r].on \in Terminals =>
            Alone(task[t], runs[r].on)

NothingRuns == termNews = <<>> /\ \A p \in Terminals : proc[p] = "none"

\* Only a restart leaves something to enter again, and nothing runs until it is.
PickedUpQuietly ==
    /\ crashes \in Nat /\ crashes <= MaxCrashes
    /\ \A r \in Runs : recovery.rows[r] # Absent => MaxCrashes # 0 /\ NothingRuns
    /\ ~recovery.read =>
         NothingRuns /\ \A r \in Runs : disk[r] # Absent => MaxCrashes # 0

Entries == EnteredAlone /\ PickedUpQuietly

\* Where no step opens a terminal no run waits on one.
FreeTask(x) == x.on \notin Terminals /\ x.held.on \notin Terminals

FreeRun(run) == run.on \notin Terminals

TerminalFree ==
    /\ \A r \in Runs : FreeRun(runs[r]) /\ FreeRun(disk[r]) /\ FreeRun(recovery.rows[r])
    /\ \A t \in Tasks : FreeTask(task[t])
-----------------------------------------------------------------------------
(* No run takes more steps than it may, and none leaves its workflow.      *)
(*                                                                         *)
(* The limit is looked at when a step is taken up and the count goes up    *)
(* when the step has been done, so what lies between must still be about   *)
(* the run as it is in the map: it is, because nobody else is on it.       *)

\* A run that waits has a step left: it waits because it took one up.
Within(run) == run.steps <= MaxSteps /\ (run.is = "waiting" => run.steps < MaxSteps)

\* What a task holds is what the map says, while it does what the step says, and
\* it goes where the step it is on leads.
OnTrack(x, run) ==
    /\ Within(x.held)
    /\ x.pc \in {"execute", "open"} => x.held = run
    /\ x.pc \in {"open", "park", "step"} => run.steps < MaxSteps
    /\ x.pc = "step" => x.to \in {Graph[run.at].next, Graph[run.at].alt}

Paced == \A t \in Tasks : OnTrack(task[t], runs[task[t].run])

RunsWithin ==
    \A r \in Runs : Within(runs[r]) /\ Within(disk[r]) /\ Within(recovery.rows[r])

Tracked == Paced /\ RunsWithin /\ HistoryFollowsGraph

\* The finished runs in memory, of which there are few, and the rows resume goes
\* through, none of which is of a run that has ended.
Finished == {r \in Runs : runs[r].is = "finished"}

Few ==
    /\ IsFiniteSet(Finished) /\ Cardinality(Finished) <= KeptFinished
    /\ \A r \in Runs : recovery.rows[r].is # "finished"
-----------------------------------------------------------------------------
(* The rows say what memory says.                                          *)
(*                                                                         *)
(* A row is written from a copy, after the map: what keeps a row from      *)
(* being written over by an older copy is that one row of a run is written *)
(* at a time, and that a copy about to be written is what the map says.    *)

StoreHolds     == "store failure" \notin Allowed
RowsGoInOrder  == "late write" \notin Allowed

Records(t, r) == task[t].pc = "record" /\ task[t].run = r

OneRecords ==
    \A t, u \in Tasks, r \in Runs : Records(t, r) /\ Records(u, r) => t = u

RecordsNow ==
    \A t \in Tasks, r \in Runs : Records(t, r) => runs[r] \in {task[t].held, Absent}

\* What has still to be picked up is as its row is, and in nobody's hands; and
\* nothing is going on before the rows are read.
Apart ==
    /\ \A r \in Runs : recovery.rows[r] # Absent =>
          /\ runs[r] = Absent
          /\ recovery.rows[r] = disk[r]
          /\ \A t \in Tasks : task[t].pc # "idle" => task[t].run # r
    /\ ~recovery.read =>
          /\ \A t \in Tasks : task[t].pc = "idle"
          /\ \A r \in Runs : runs[r] = Absent /\ recovery.rows[r] = Absent

RowIsKept(r) ==
    runs[r] = Absent \/ disk[r] = runs[r] \/ \E t \in Tasks : Records(t, r)

Kept == /\ \A r \in Runs : RowIsKept(r)
        /\ OneRecords /\ RecordsNow /\ Apart
-----------------------------------------------------------------------------
(* What a step does is done after its row and its transition are written:  *)
(* nobody takes up a step of a run while a row of it is still to be        *)
(* written, and wherever a run is said to be, a transition led it there.   *)

Behind ==
    \A t \in Tasks, r \in Runs :
        task[t].run = r /\ task[t].pc \in {"begin", "loop", "execute", "open"} =>
            \A u \in Tasks : ~Records(u, r)

LedTo(at, r) == at = Start \/ \E edge \in written[r] : edge[2] = at

Led == /\ \A r \in Runs : /\ LedTo(runs[r].at, r) /\ LedTo(disk[r].at, r)
                          /\ LedTo(recovery.rows[r].at, r)
       /\ \A t \in Tasks : task[t].pc # "idle" => LedTo(task[t].held.at, task[t].run)
-----------------------------------------------------------------------------
(* What a restart reads only moves forward: a copy about to be put back is *)
(* no fewer steps on than the run, a copy about to be written no fewer     *)
(* than the row, and a row that says a run has ended says how.             *)

Told(run) == run.is = "finished" => run.on \in Outcomes

OutcomesTold ==
    /\ \A r \in Runs : Told(runs[r]) /\ Told(disk[r]) /\ Told(recovery.rows[r])
    /\ \A t \in Tasks : /\ Told(task[t].held)
                        /\ task[t].pc = "finish" => task[t].on \in Outcomes

\* A copy is put back over a run no further on, and written over a row no
\* further on.
Onward ==
    \A t \in Tasks, r \in Runs :
        /\ task[t].pc = "insert" /\ task[t].run = r => runs[r].steps <= task[t].held.steps
        /\ Records(t, r) => /\ disk[r].steps <= task[t].held.steps
                            /\ disk[r].is = "finished" => disk[r] = task[t].held
-----------------------------------------------------------------------------
(* A run that waits waits for something that has still to happen.          *)
(*                                                                         *)
(* What a worker owes is counted: the runs that expect a session are no    *)
(* more than the turns it has not ended and the news of it nobody has      *)
(* heard.  A run expects its worker from the moment it is to be parked, so *)
(* it does before the map says that it waits; and no longer when the news  *)
(* have been taken to it, though the map says that it waits.               *)

WaitedOn == Sessions \cup Terminals \cup {"delay"}

\* Runs about to be parked, and those that are parked and in nobody's hands too.
Parkers(w) == {r \in Runs : \E t \in Tasks : Carries(t, r) /\ ParksFor(task[t], w)}

Expecting(w) ==
    {r \in Runs : \/ r \in Parkers(w)
                  \/ Waits(runs[r], w) /\ \A t \in Tasks : ~Carries(t, r)}

\* A run expects what the step it is on waits for.
KindsOf(w) == IF w = "delay" THEN {"delay"} ELSE {"agent", "terminal"}

OnItsStep ==
    \A w \in WaitedOn : \A r \in Expecting(w) :
        runs[r].at \in known /\ Graph[runs[r].at].kind \in KindsOf(w)

HeldInPlace ==
    \A t \in Tasks :
        /\ task[t].pc = "insert" /\ task[t].held.is = "waiting" =>
              task[t].held.at = runs[task[t].run].at
        /\ task[t].pc = "open" => task[t].held.at \in known

DelayStep(run) == Waits(run, "delay") => (Graph[run.at].kind = "delay")

DelaySteps ==
    /\ \A r \in Runs : /\ DelayStep(runs[r]) /\ DelayStep(disk[r])
                       /\ DelayStep(recovery.rows[r])
    /\ \A t \in Tasks : DelayStep(task[t].held)

DelaysConfigured ==
    Start \in known => \A n \in Nodes : Graph[n].kind = "delay" => n \in known

Asleep ==
    \A r \in Expecting("delay") : \E t \in Tasks : task[t].pc = "sleep" /\ task[t].run = r

\* No call of the operator's, which may be dropped, has a sleep in its hands or a
\* run that waits, but for the one it answers.
NotTheOperators ==
    /\ \A t \in Tasks : task[t].pc = "sleep" => task[t].by = "none"
    /\ \A t \in Tasks, r \in Runs :
          Carries(t, r) /\ runs[r].is = "waiting" /\ runs[r].on # "approval" =>
              task[t].by # "operator"

NewsOf(s) == {i \in DOMAIN agentNews : agentNews[i].session = s}

Owed ==
    \A s \in Sessions :
        /\ IsFiniteSet(Expecting(s))
        /\ Cardinality(Expecting(s)) <= turns[s] + Cardinality(NewsOf(s))
        /\ Cardinality(Parkers(s)) <= turns[s]

Expected == /\ OnItsStep /\ HeldInPlace /\ DelaySteps /\ DelaysConfigured
            /\ Asleep /\ NotTheOperators /\ Owed

\* What the proof takes from the instance: nothing is done at once, and a delay is
\* not taken out of the workflow while runs sleep.
NothingHasty == "quick worker" \notin Allowed /\ "zero delay" \notin Allowed

DelaysStay ==
    \A e \in Editions : Start \in e => \A n \in Nodes : Graph[n].kind = "delay" => n \in e

OneRun == \A q, r \in Runs : q = r

\* Where there is one run a terminal runs for as long as the run expects it.
InHand ==
    /\ \A p \in Terminals : /\ (proc[p] # "none" <=> Expecting(p) # {})
                            /\ (Parkers(p) # {} => proc[p] = "live")
    /\ \A i \in DOMAIN termNews : proc[termNews[i].terminal] = "exited"
    /\ \A i, j \in DOMAIN termNews : termNews[i].terminal = termNews[j].terminal => i = j
=============================================================================
