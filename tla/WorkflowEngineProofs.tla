------------------------ MODULE WorkflowEngineProofs ------------------------
(***************************************************************************)
(* What holds of the workflow engine for every set of runs, tasks, steps   *)
(* and workers, whatever the operator, the workers, the store and the      *)
(* process do.                                                             *)
(* The inductive invariants are those of WorkflowInvariants, in its order. *)
(***************************************************************************)
EXTENDS WorkflowInvariants, SequenceTheorems, FiniteSetTheorems, TLAPS

\* What forgetting does to the map: it keeps its type, and only takes finished
\* runs away.
LEMMA PrunedLemma ==
    ASSUME NEW map \in [Runs -> Run], NEW kept \in Pruned(map)
    PROVE  /\ kept \in [Runs -> Run]
           /\ \A r \in Runs : kept[r] = map[r] \/ (map[r].is = "finished" /\ kept[r] = Absent)
<1> DEFINE done == {r \in Runs : map[r].is = "finished"}
<1>1. PICK few \in SUBSET done :
        kept = [r \in Runs |-> IF r \in done \ few THEN Absent ELSE map[r]]
  BY DEF Pruned
<1>2. Absent \in Run
  BY ConstantsAssumption DEF Absent, Run, RunState
<1> QED BY <1>1, <1>2

\* What the locked half of remember does to the map.
LEMMA RememberedLemma ==
    ASSUME TypeOK, NEW r \in Runs, NEW run \in Run, Remembered(r, run)
    PROVE  /\ runs' \in [Runs -> Run]
           /\ \A q \in Runs :
                \/ q # r /\ runs'[q] = runs[q]
                \/ q = r /\ runs'[q] = run
                \/ runs'[q] = Absent
<1> DEFINE map == [runs EXCEPT ![r] = run]
<1>1. map \in [Runs -> Run] /\ \A q \in Runs : map[q] = IF q = r THEN run ELSE runs[q]
  BY DEF TypeOK
<1>2. CASE run.is = "finished"
  <2>1. runs' \in Pruned(map)
    BY <1>2 DEF Remembered
  <2> QED BY <1>1, <2>1, PrunedLemma
<1>3. CASE run.is # "finished"
  <2>1. runs' = map
    BY <1>3 DEF Remembered
  <2> QED BY <1>1, <2>1
<1> QED BY <1>2, <1>3

\* The records the engine builds are runs and tasks.
LEMMA RecordLemma ==
    /\ Absent \in Run /\ Beginning \in Run
    /\ \A run \in Run, to \in Nodes, ok \in BOOLEAN : Moved(run, to, ok) \in Run
    /\ \A run \in Run, on \in Waitings \cup Outcomes \cup {None} :
          Parked(run, on) \in Run /\ Ended(run, on) \in Run
<1>1. Absent \in Run /\ Beginning \in Run
  BY ConstantsAssumption DEF Absent, Beginning, Run, RunState
<1>2. ASSUME NEW run \in Run, NEW to \in Nodes, NEW ok \in BOOLEAN
      PROVE  Moved(run, to, ok) \in Run
  BY DEF Moved, Run, RunState
<1>3. ASSUME NEW run \in Run, NEW on \in Waitings \cup Outcomes \cup {None}
      PROVE  Parked(run, on) \in Run /\ Ended(run, on) \in Run
  BY DEF Parked, Ended, Run, RunState
<1> QED BY <1>1, <1>2, <1>3

LEMMA TaskLemma ==
    /\ Idle \in Task
    /\ \A r \in Runs : Driving(r) \in Task /\ Sleeping(r) \in Task
    /\ \A pc \in Pc, r \in Runs, held \in Run, by \in By : Working(pc, r, held, by) \in Task
    /\ \A r \in Runs, by \in By, to \in Nodes, ok \in BOOLEAN :
          Stepping(r, by, to, ok) \in Task
    /\ \A x \in Task, on \in Waitings \cup Outcomes \cup {None} :
          Parking(x, on) \in Task /\ Finishing(x, on) \in Task
    /\ \A x \in Task, run \in Run : Holding(x, run) \in Task
<1>1. ASSUME NEW pc \in Pc, NEW r \in Runs \cup {None}, NEW held \in Run, NEW by \in By
      PROVE  Working(pc, r, held, by) \in Task
  BY <1>1 DEF Working, Task
<1>2. Absent \in Run /\ "none" \in By /\ {"idle", "loop", "sleep", "insert"} \subseteq Pc
  BY RecordLemma DEF By, Pc
<1>3. Idle \in Task
  BY <1>1, <1>2 DEF Idle
<1>4. ASSUME NEW r \in Runs
      PROVE  Driving(r) \in Task /\ Sleeping(r) \in Task
  BY <1>1, <1>2 DEF Driving, Sleeping
<1>5. ASSUME NEW r \in Runs, NEW by \in By, NEW to \in Nodes, NEW ok \in BOOLEAN
      PROVE  Stepping(r, by, to, ok) \in Task
  BY <1>2 DEF Stepping, Task, Pc
<1>6. ASSUME NEW x \in Task, NEW on \in Waitings \cup Outcomes \cup {None}
      PROVE  Parking(x, on) \in Task /\ Finishing(x, on) \in Task
  BY <1>2 DEF Parking, Finishing, Task, Pc
<1>7. ASSUME NEW x \in Task, NEW run \in Run
      PROVE  Holding(x, run) \in Task
  BY <1>2, <1>1 DEF Holding, Task
<1> QED BY <1>1, <1>3, <1>4, <1>5, <1>6, <1>7

\* So a task that becomes one of them is as it should be.
LEMMA SoundLemma ==
    /\ Sound(Idle)
    /\ \A r \in Runs : Sound(Driving(r)) /\ Sound(Sleeping(r))
    /\ \A pc \in Pc \ {"step", "open"}, r \in Runs, held \in Run, by \in By :
          Sound(Working(pc, r, held, by))
    /\ \A r \in Runs, by \in By, to \in Nodes, ok \in BOOLEAN :
          Sound(Stepping(r, by, to, ok))
    /\ \A x \in Task, on \in Waitings \cup Outcomes \cup {None} : x.run \in Runs =>
          Sound(Parking(x, on)) /\ Sound(Finishing(x, on))
    /\ \A x \in Task, run \in Run : x.run \in Runs => Sound(Holding(x, run))
BY TaskLemma DEF Sound, Idle, Driving, Sleeping, Working, Stepping, Parking, Finishing,
                 Holding

LEMMA BecomesLemma ==
    ASSUME Typed, NEW t \in Tasks, NEW next, Sound(next), Becomes(t, next)
    PROVE  /\ task' \in [Tasks -> Task] /\ TaskOK'
           /\ task'[t] = next /\ \A u \in Tasks \ {t} : task'[u] = task[u]
BY DEF Typed, TypeOK, TaskOK, Sound, Becomes

\* The step a run is on, and where it leads.
LEMMA GraphLemma ==
    \A n \in Nodes :
        /\ Graph[n].next \in Nodes /\ Graph[n].alt \in Nodes
        /\ Graph[n].outcome \in Outcomes
        /\ Graph[n].kind = "agent" => Graph[n].worker \in Sessions
        /\ Graph[n].kind = "terminal" => Graph[n].worker \in Terminals
BY ConstantsAssumption, NamesAssumption

-----------------------------------------------------------------------------
(* Types, action by action. *)

LEMMA InitTyped == Init => Typed
<1> SUFFICES ASSUME Init PROVE Typed
  OBVIOUS
<1>1. Absent \in Run /\ Sound(Idle)
  BY RecordLemma, SoundLemma
<1>2. TaskOK
  BY <1>1 DEF Init, TaskOK
<1>3. TypeOK
  BY <1>1 DEF Init, TypeOK, Sound
<1> QED BY <1>2, <1>3 DEF Typed

\* A task that turns into a sound one, and at most some of the workers' state
\* that keeps its type, leaves everything typed.
LEMMA TurnTyped ==
    ASSUME Typed, NEW t \in Tasks, NEW next, Sound(next), Becomes(t, next),
           UNCHANGED <<runs, store, recovery, world>>,
           turns' \in [Sessions -> Nat],
           proc' \in [Terminals -> {"none", "live", "dying", "exited"}],
           UNCHANGED <<agentNews, termNews>>
    PROVE  Typed'
<1>1. task' \in [Tasks -> Task] /\ TaskOK'
  BY BecomesLemma
<1>2. TypeOK'
  BY <1>1 DEF Typed, TypeOK, store, world
<1> QED BY <1>1, <1>2 DEF Typed

LEMMA ExecuteTyped ==
    ASSUME Typed, NEW t \in Tasks, Execute(t)
    PROVE  Typed'
<1> DEFINE x == task[t]
<1> USE DEF workers
<1>1. /\ x \in Task /\ (x.pc # "idle" => x.run \in Runs) /\ x.by \in By
      /\ x.held \in Run /\ x.held.at \in Nodes /\ x.held.ok \in BOOLEAN
      /\ turns \in [Sessions -> Nat]
      /\ proc \in [Terminals -> {"none", "live", "dying", "exited"}]
  BY DEF Typed, TypeOK, TaskOK, Sound, Task, Run
<1>2. CASE RunsOut(t)
  <2>1. Sound(Finishing(x, "exhausted"))
    BY <1>1, <1>2, SoundLemma DEF RunsOut, Outcomes
  <2> QED BY <1>1, <1>2, <2>1, TurnTyped DEF RunsOut
<1>3. CASE StepMissing(t)
  <2>1. Sound(Finishing(x, "failed"))
    BY <1>1, <1>3, SoundLemma DEF StepMissing, Outcomes
  <2> QED BY <1>1, <1>3, <2>1, TurnTyped DEF StepMissing
<1>4. CASE ExecuteEmit(t)
  <2>1. Sound(Stepping(x.run, x.by, Here(t).next, TRUE))
    BY <1>1, <1>4, SoundLemma, GraphLemma DEF ExecuteEmit, Executes, Here
  <2> QED BY <1>1, <1>4, <2>1, TurnTyped DEF ExecuteEmit
<1>5. CASE ExecuteEnd(t)
  <2>1. Sound(Finishing(x, Here(t).outcome))
    BY <1>1, <1>5, SoundLemma, GraphLemma DEF ExecuteEnd, Executes, Here
  <2> QED BY <1>1, <1>5, <2>1, TurnTyped DEF ExecuteEnd
<1>6. CASE ExecuteCondition(t)
  <2> DEFINE to == IF Holds(x.held.at, x.held) THEN Here(t).next ELSE Here(t).alt
  <2>1. Sound(Stepping(x.run, x.by, to, x.held.ok))
    BY <1>1, <1>6, SoundLemma, GraphLemma DEF ExecuteCondition, Executes, Here
  <2> QED BY <1>1, <1>6, <2>1, TurnTyped DEF ExecuteCondition
<1>7. ASSUME NEW u \in Tasks, ExecuteDelay(t, u)
      PROVE  Typed'
  <2>1. /\ Sound(Parking(x, "delay")) /\ Sound(Sleeping(x.run))
        /\ task' = [task EXCEPT ![t] = Parking(x, "delay"), ![u] = Sleeping(x.run)]
    BY <1>1, <1>7, SoundLemma DEF ExecuteDelay, Executes, Waitings
  <2>2. task' \in [Tasks -> Task] /\ TaskOK'
    BY <2>1 DEF Typed, TypeOK, TaskOK, Sound
  <2>3. TypeOK'
    BY <1>7, <2>2 DEF Typed, TypeOK, ExecuteDelay, store, world
  <2> QED BY <2>2, <2>3 DEF Typed
<1>8. CASE ExecuteApproval(t)
  <2>1. Sound(Parking(x, "approval"))
    BY <1>1, <1>8, SoundLemma DEF ExecuteApproval, Executes, Waitings
  <2> QED BY <1>1, <1>8, <2>1, TurnTyped DEF ExecuteApproval
<1>9. CASE ExecuteAction(t)
  <2>1. PICK next : Becomes(t, next) /\ Sound(next)
    BY <1>1, <1>9, SoundLemma, GraphLemma DEF ExecuteAction, Executes, Here, Outcomes
  <2> QED BY <1>1, <1>9, <2>1, TurnTyped DEF ExecuteAction
<1>10. CASE ExecuteAgent(t)
  <2>1. PICK next : Becomes(t, next) /\ Sound(next)
    BY <1>1, <1>10, SoundLemma, GraphLemma DEF ExecuteAgent, Executes, Here, Waitings
  <2>2. \/ turns' = turns
        \/ \E s \in Sessions : turns' = [turns EXCEPT ![s] = turns[s] + 1]
    BY <1>1, <1>10, GraphLemma DEF ExecuteAgent, Executes, Here
  <2>3. turns' \in [Sessions -> Nat]
    BY <1>1, <2>2
  <2> QED BY <1>1, <1>10, <2>1, <2>3, TurnTyped DEF ExecuteAgent
<1>11. CASE ExecuteClose(t)
  <2>1. Sound(Working("open", x.run, x.held, x.by))
    BY <1>1, <1>11, TaskLemma DEF ExecuteClose, Executes, Sound, Working, Pc
  <2>2. proc' \in [Terminals -> {"none", "live", "dying", "exited"}]
    BY <1>1, <1>11 DEF ExecuteClose
  <2> QED BY <1>1, <1>11, <2>1, <2>2, TurnTyped DEF ExecuteClose
<1>12. CASE ExecuteOpen(t)
  <2> DEFINE p == Here(t).worker
  <2>1. p \in Terminals /\ x.run \in Runs
    BY <1>1, <1>12, GraphLemma DEF ExecuteOpen, Here, Typed, TaskOK, Sound
  <2>2. Sound(Parking(x, p)) /\ Sound(Stepping(x.run, x.by, Here(t).alt, FALSE))
    BY <1>1, <2>1, SoundLemma, GraphLemma DEF Waitings, Here
  <2>3. PICK next : Becomes(t, next) /\ Sound(next)
    BY <1>12, <2>2 DEF ExecuteOpen
  <2>4. /\ proc' \in [Terminals -> {"none", "live", "dying", "exited"}]
    BY <1>1, <1>12 DEF ExecuteOpen
  <2> QED BY <1>1, <1>12, <2>3, <2>4, TurnTyped DEF ExecuteOpen
<1> QED
  BY <1>2, <1>3, <1>4, <1>5, <1>6, <1>7, <1>8, <1>9, <1>10, <1>11, <1>12 DEF Execute

\* A history only grows, by an edge.
LEMMA AppendedLemma ==
    ASSUME NEW r \in Runs, NEW from \in Nodes \cup {None}, NEW to \in Nodes,
           written \in [Runs -> SUBSET ((Nodes \cup {None}) \X Nodes)],
           Appended(r, from, to)
    PROVE  written' \in [Runs -> SUBSET ((Nodes \cup {None}) \X Nodes)]
<1> DEFINE Edges == (Nodes \cup {None}) \X Nodes
           edge == <<from, to>>
<1>1. edge \in Edges
  OBVIOUS
<1>2. \/ UNCHANGED written
      \/ written' = [written EXCEPT ![r] = written[r] \cup {edge}]
  BY DEF Appended
<1>3. written \in [Runs -> SUBSET Edges]
  OBVIOUS
<1> HIDE DEF Edges, edge
<1>4. written' \in [Runs -> SUBSET Edges]
  BY <1>1, <1>2, <1>3
<1> QED BY <1>4 DEF Edges

LEMMA CarryTyped ==
    ASSUME Typed, NEW t \in Tasks, Carry(t)
    PROVE  Typed'
<1> DEFINE x == task[t]
           run == runs[x.run]
<1> USE DEF workers
<1>1. /\ Sound(x) /\ x \in Task /\ x.by \in By /\ x.held \in Run /\ x.ok \in BOOLEAN
      /\ x.on \in Waitings \cup Outcomes \cup {None}
      /\ x.run \in Runs => run \in Run
      /\ turns \in [Sessions -> Nat]
      /\ proc \in [Terminals -> {"none", "live", "dying", "exited"}]
      /\ disk \in [Runs -> Run]
      /\ written \in [Runs -> SUBSET ((Nodes \cup {None}) \X Nodes)]
  BY DEF Typed, TypeOK, TaskOK, Sound, Task
<1>2. \A q \in Run : q.at \in Nodes /\ q.ok \in BOOLEAN
  BY DEF Run
<1>3. CASE Advance(t)
  <2>0. x.run \in Runs /\ "execute" \in Pc \ {"step", "open"}
    BY <1>1, <1>3 DEF Advance, Sound, Pc
  <2>1. x.run \in Runs /\ Sound(Working("execute", x.run, run, x.by)) /\ Sound(Idle)
    BY <1>1, <2>0, SoundLemma, Zenon
  <2>2. PICK next : Becomes(t, next) /\ Sound(next)
    BY <1>3, <2>1 DEF Advance
  <2> QED BY <1>1, <1>3, <2>2, TurnTyped DEF Advance
<1>4. CASE Execute(t)
  BY <1>4, ExecuteTyped
<1>5. CASE StepTo(t)
  <2>1. x.run \in Runs /\ run \in Run /\ x.to \in Nodes
    BY <1>1, <1>5 DEF StepTo, Sound
  <2>2. Sound(Holding(x, Moved(run, x.to, x.ok))) /\ Sound(Driving(x.run))
    BY <1>1, <2>1, RecordLemma, SoundLemma
  <2>3. PICK next : Becomes(t, next) /\ Sound(next)
    BY <1>5, <2>2 DEF StepTo
  <2>4. written' \in [Runs -> SUBSET ((Nodes \cup {None}) \X Nodes)]
    BY <1>1, <1>2, <1>5, <2>1, AppendedLemma DEF StepTo
  <2>5. task' \in [Tasks -> Task] /\ TaskOK'
    BY <2>3, BecomesLemma
  <2>6. TypeOK'
    BY <1>5, <2>4, <2>5 DEF Typed, TypeOK, StepTo, world
  <2> QED BY <2>5, <2>6 DEF Typed
<1>6. CASE Park(t)
  <2>1. x.run \in Runs /\ run \in Run
    BY <1>1, <1>6 DEF Park, Sound
  <2>2. Sound(Holding(x, Parked(run, x.on))) /\ Sound(Idle)
    BY <1>1, <2>1, RecordLemma, SoundLemma
  <2>3. PICK next : Becomes(t, next) /\ Sound(next)
    BY <1>6, <2>2 DEF Park
  <2> QED BY <1>1, <1>6, <2>3, TurnTyped DEF Park
<1>7. CASE Finish(t)
  <2>1. x.run \in Runs /\ run \in Run
    BY <1>1, <1>7 DEF Finish, Sound
  <2>2. Sound(Holding(x, Ended(run, x.on))) /\ Sound(Idle)
    BY <1>1, <2>1, RecordLemma, SoundLemma
  <2>3. PICK next : Becomes(t, next) /\ Sound(next)
    BY <1>7, <2>2 DEF Finish
  <2> QED BY <1>1, <1>7, <2>3, TurnTyped DEF Finish
<1>8. CASE Insert(t)
  <2>0. x.run \in Runs
    BY <1>1, <1>8 DEF Insert, Sound
  <2>1. Sound(Working("record", x.run, x.held, x.by))
    BY <1>1, <2>0, SoundLemma DEF Pc
  <2>2. task' \in [Tasks -> Task] /\ TaskOK'
    BY <1>8, <2>1, BecomesLemma DEF Insert
  <2>3. runs' \in [Runs -> Run]
    BY <1>1, <1>8, <2>0, RememberedLemma DEF Insert, Typed
  <2>4. TypeOK'
    BY <1>8, <2>2, <2>3 DEF Typed, TypeOK, Insert, store, world
  <2> QED BY <2>2, <2>4 DEF Typed
<1>9. CASE Record(t)
  <2>0. x.run \in Runs
    BY <1>1, <1>9 DEF Record, Sound
  <2>1. Sound(Idle) /\ Sound(Driving(x.run)) /\ Sound(Working("begin", x.run, Absent, x.by))
    BY <1>1, <2>0, SoundLemma, RecordLemma DEF Pc
  <2>2. PICK next : Becomes(t, next) /\ Sound(next)
    BY <1>9, <2>1 DEF Record
  <2>3. task' \in [Tasks -> Task] /\ TaskOK'
    BY <2>2, BecomesLemma
  <2>4. disk' \in [Runs -> Run]
    BY <1>1, <1>9, <2>0 DEF Record, Saved
  <2>5. TypeOK'
    BY <1>9, <2>3, <2>4 DEF Typed, TypeOK, Record, world
  <2> QED BY <2>3, <2>5 DEF Typed
<1>10. CASE Begin(t)
  <2>1. x.run \in Runs /\ Sound(Driving(x.run))
    BY <1>1, <1>10, SoundLemma DEF Begin, Sound
  <2>2. task' \in [Tasks -> Task] /\ TaskOK'
    BY <1>10, <2>1, BecomesLemma DEF Begin
  <2>3. written' \in [Runs -> SUBSET ((Nodes \cup {None}) \X Nodes)]
    BY <1>1, <1>10, <2>1, ConstantsAssumption, AppendedLemma DEF Begin
  <2>4. TypeOK'
    BY <1>10, <2>2, <2>3 DEF Typed, TypeOK, Begin, world
  <2> QED BY <2>2, <2>4 DEF Typed
<1>11. CASE Wake(t)
  <2>1. x.run \in Runs /\ run \in Run
    BY <1>1, <1>11 DEF Wake, Sound
  <2>2. /\ Sound(Idle)
        /\ run.at \in known => Sound(Stepping(x.run, x.by, Graph[run.at].next, run.ok))
    BY <1>1, <1>2, <2>1, SoundLemma, GraphLemma
  <2>3. PICK next : Becomes(t, next) /\ Sound(next)
    BY <1>11, <2>2 DEF Wake
  <2> QED BY <1>1, <1>11, <2>3, TurnTyped DEF Wake
<1> QED
  BY <1>3, <1>4, <1>5, <1>6, <1>7, <1>8, <1>9, <1>10, <1>11 DEF Carry

\* What is heard of a worker leaves the tasks sound.
LEMMA ReleasedTyped ==
    ASSUME Typed, NEW t \in Tasks, NEW worker, NEW ok \in BOOLEAN, NEW by \in By,
           Released(t, worker, ok, by)
    PROVE  task' \in [Tasks -> Task] /\ TaskOK'
<1>1. CASE UNCHANGED task
  BY <1>1 DEF Typed, TypeOK, TaskOK
<1>2. ASSUME NEW r \in Runs, runs[r].at \in known,
             Becomes(t, Stepping(r, by, IF ok THEN Graph[runs[r].at].next
                                              ELSE Graph[runs[r].at].alt, ok))
      PROVE  task' \in [Tasks -> Task] /\ TaskOK'
  <2>1. runs[r].at \in Nodes
    BY DEF Typed, TypeOK, Run
  <2>2. Sound(Stepping(r, by, IF ok THEN Graph[runs[r].at].next
                                    ELSE Graph[runs[r].at].alt, ok))
    BY <2>1, SoundLemma, GraphLemma
  <2> QED BY <1>2, <2>2, BecomesLemma
<1> QED
  BY <1>1, <1>2 DEF Released

LEMMA NewsTyped ==
    ASSUME Typed, NEW t \in Tasks, AgentFinished(t) \/ TerminalFinished(t)
    PROVE  Typed'
<1>1. /\ agentNews \in Seq([session: Sessions,
                             state: {"completed", "failed", "waiting_approval"}])
      /\ termNews \in Seq([terminal: Terminals, ok: BOOLEAN])
      /\ proc \in [Terminals -> {"none", "live", "dying", "exited"}]
  BY DEF Typed, TypeOK
<1>2. CASE AgentFinished(t)
  <2>1. task' \in [Tasks -> Task] /\ TaskOK'
    BY <1>2, ReleasedTyped DEF AgentFinished, By
  <2>2. agentNews' \in Seq([session: Sessions,
                            state: {"completed", "failed", "waiting_approval"}])
    BY <1>1, <1>2 DEF AgentFinished
  <2>3. TypeOK'
    BY <1>2, <2>1, <2>2 DEF Typed, TypeOK, AgentFinished, store, world
  <2> QED BY <2>1, <2>3 DEF Typed
<1>3. CASE TerminalFinished(t)
  <2> DEFINE news == Head(termNews)
  <2>0. termNews # <<>>
    BY <1>3 DEF TerminalFinished
  <2>1. news \in [terminal: Terminals, ok: BOOLEAN]
    BY <1>1, <2>0, HeadTailProperties
  <2>2. task' \in [Tasks -> Task] /\ TaskOK'
    BY <1>3, <2>1, ReleasedTyped DEF TerminalFinished, By
  <2>3. /\ termNews' \in Seq([terminal: Terminals, ok: BOOLEAN])
        /\ proc' \in [Terminals -> {"none", "live", "dying", "exited"}]
    <3>1. termNews' = Tail(termNews) /\ proc' = [proc EXCEPT ![news.terminal] = "none"]
      BY <1>3 DEF TerminalFinished
    <3> QED BY <1>1, <2>0, <2>1, <3>1
  <2>4. TypeOK'
    BY <1>3, <2>2, <2>3 DEF Typed, TypeOK, TerminalFinished, store, world
  <2> QED BY <2>2, <2>4 DEF Typed
<1> QED BY <1>2, <1>3

LEMMA ResumeTyped ==
    ASSUME Typed, Resume
    PROVE  Typed'
<1> USE DEF store, workers, world
<1>1. /\ recovery \in [read: BOOLEAN, rows: [Runs -> Run]]
      /\ runs \in [Runs -> Run] /\ disk \in [Runs -> Run]
      /\ Absent \in Run
  BY RecordLemma DEF Typed, TypeOK
<1>2. \A r \in Runs : recovery.rows[r] \in Run
  BY <1>1
<1>3. ASSUME NEW r \in Runs, PicksUp(r)
      PROVE  recovery' \in [read: BOOLEAN, rows: [Runs -> Run]]
  <2>1. recovery.read \in BOOLEAN /\ recovery.rows \in [Runs -> Run]
    BY <1>1
  <2>2. [recovery.rows EXCEPT ![r] = Absent] \in [Runs -> Run]
    BY <1>1, <2>1
  <2> QED BY <1>3, <2>1, <2>2 DEF PicksUp
<1>4. CASE ReadUnfinished
  <2>1. /\ [r \in Runs |-> IF Live(disk[r]) THEN disk[r] ELSE Absent] \in [Runs -> Run]
        /\ recovery.rows \in [Runs -> Run]
    BY <1>1
  <2>2. recovery' \in [read: BOOLEAN, rows: [Runs -> Run]]
    <3>1. PICK rows \in [Runs -> Run] : recovery' = [read |-> TRUE, rows |-> rows]
      BY <1>4, <2>1, Zenon DEF ReadUnfinished
    <3> QED BY <3>1
  <2> QED BY <1>4, <2>2 DEF ReadUnfinished, Typed, TypeOK, TaskOK
<1>5. ASSUME NEW r \in Runs, PickUpApproval(r)
      PROVE  Typed'
  <2>1. runs' \in [Runs -> Run] /\ recovery' \in [read: BOOLEAN, rows: [Runs -> Run]]
    BY <1>1, <1>2, <1>3, <1>5 DEF PickUpApproval
  <2> QED BY <1>5, <2>1 DEF PickUpApproval, Typed, TypeOK, TaskOK
<1>6. ASSUME NEW t \in Tasks, NEW r \in Runs, PickUpGone(t, r)
      PROVE  Typed'
  <2> DEFINE run == Ended(recovery.rows[r], "failed")
  <2>1. run \in Run
    BY <1>2, RecordLemma DEF Outcomes
  <2>2. runs' \in [Runs -> Run] /\ recovery' \in [read: BOOLEAN, rows: [Runs -> Run]]
    BY <1>3, <1>6, <2>1, RememberedLemma DEF PickUpGone, Typed
  <2>3. Sound(Working("record", r, run, "resume"))
    BY <2>1, SoundLemma DEF Pc, By
  <2>4. task' \in [Tasks -> Task] /\ TaskOK'
    BY <1>6, <2>3, BecomesLemma DEF PickUpGone
  <2>5. TypeOK'
    BY <1>6, <2>2, <2>4 DEF PickUpGone, Typed, TypeOK
  <2> QED BY <2>4, <2>5 DEF Typed
<1>7. ASSUME NEW t \in Tasks, NEW r \in Runs, PickUpStep(t, r) \/ PickUpDelay(t, r)
      PROVE  Typed'
  <2>1. runs' \in [Runs -> Run] /\ recovery' \in [read: BOOLEAN, rows: [Runs -> Run]]
    BY <1>1, <1>2, <1>3, <1>7 DEF PickUpStep, PickUpDelay
  <2>2. task' \in [Tasks -> Task] /\ TaskOK'
    BY <1>7, SoundLemma, BecomesLemma DEF PickUpStep, PickUpDelay
  <2>3. TypeOK'
    BY <1>7, <2>1, <2>2 DEF PickUpStep, PickUpDelay, Typed, TypeOK
  <2> QED BY <2>2, <2>3 DEF Typed
<1> QED
  BY <1>4, <1>5, <1>6, <1>7 DEF Resume

LEMMA OperatorTyped ==
    ASSUME Typed, Operator
    PROVE  Typed'
<1> USE DEF store, workers, world
<1>1. ASSUME NEW t \in Tasks, CallDropped(t)
      PROVE  Typed'
  <2>1. /\ task[t].held \in Run /\ (task[t].pc # "idle" => task[t].run \in Runs)
        /\ disk \in [Runs -> Run]
        /\ written \in [Runs -> SUBSET ((Nodes \cup {None}) \X Nodes)]
    BY DEF Typed, TypeOK, TaskOK, Sound, Task
  <2>2. task' \in [Tasks -> Task] /\ TaskOK'
    BY <1>1, SoundLemma, BecomesLemma DEF CallDropped
  <2>3. disk' \in [Runs -> Run]
    BY <1>1, <2>1 DEF CallDropped, Saved
  <2>4. written' \in [Runs -> SUBSET ((Nodes \cup {None}) \X Nodes)]
    BY <1>1, <2>1, ConstantsAssumption, AppendedLemma DEF CallDropped
  <2>5. TypeOK'
    BY <1>1, <2>2, <2>3, <2>4 DEF CallDropped, Typed, TypeOK
  <2> QED BY <2>2, <2>5 DEF Typed
<1> SUFFICES ASSUME NEW t \in Tasks, NEW r \in Runs,
                    \/ StartRun(t, r) \/ Cancel(t, r)
                    \/ \E allow \in BOOLEAN : Answer(t, r, allow)
             PROVE  Typed'
  BY <1>1 DEF Operator
<1>2. runs[r] \in Run /\ runs[r].at \in Nodes
  BY DEF Typed, TypeOK, Run
<1>3. CASE StartRun(t, r)
  <2>1. Sound(Working("record", r, Beginning, "operator"))
    BY RecordLemma, SoundLemma DEF Pc, By
  <2>2. task' \in [Tasks -> Task] /\ TaskOK'
    BY <1>3, <2>1, BecomesLemma DEF StartRun
  <2>3. runs' \in [Runs -> Run]
    BY <1>3, RecordLemma, RememberedLemma DEF StartRun, Typed
  <2>4. TypeOK'
    BY <1>3, <2>2, <2>3 DEF StartRun, Typed, TypeOK
  <2> QED BY <2>2, <2>4 DEF Typed
<1>4. CASE Cancel(t, r)
  <2>1. Ended(runs[r], "cancelled") \in Run
    BY <1>2, RecordLemma DEF Outcomes
  <2>2. Sound(Working("insert", r, Ended(runs[r], "cancelled"), "operator"))
    BY <2>1, SoundLemma DEF Pc, By
  <2> QED BY <1>4, <2>2, TurnTyped DEF Cancel, Typed, TypeOK
<1>5. ASSUME NEW allow \in BOOLEAN, Answer(t, r, allow)
      PROVE  Typed'
  <2> DEFINE to == IF allow THEN Graph[runs[r].at].next ELSE Graph[runs[r].at].alt
  <2>1. Sound(Stepping(r, "operator", to, allow))
    BY <1>2, SoundLemma, GraphLemma DEF By
  <2> QED BY <1>5, <2>1, TurnTyped DEF Answer, Typed, TypeOK
<1> QED
  BY <1>3, <1>4, <1>5

LEMMA EnvironmentTyped ==
    ASSUME Typed, Environment
    PROVE  Typed'
<1> USE DEF store, workers, world
<1>1. /\ agentNews \in Seq([session: Sessions,
                             state: {"completed", "failed", "waiting_approval"}])
      /\ termNews \in Seq([terminal: Terminals, ok: BOOLEAN])
      /\ proc \in [Terminals -> {"none", "live", "dying", "exited"}]
      /\ turns \in [Sessions -> Nat] /\ disk \in [Runs -> Run]
  BY DEF Typed, TypeOK
<1>2. ASSUME NEW s \in Sessions, AgentAsks(s)
      PROVE  Typed'
  <2>1. agentNews' \in Seq([session: Sessions,
                            state: {"completed", "failed", "waiting_approval"}])
    <3>1. agentNews' = Append(agentNews, News(s, "waiting_approval"))
      BY <1>2 DEF AgentAsks
    <3>2. News(s, "waiting_approval") \in
            [session: Sessions, state: {"completed", "failed", "waiting_approval"}]
      BY DEF News
    <3> QED BY <1>1, <3>1, <3>2
  <2> QED BY <1>2, <2>1 DEF AgentAsks, Typed, TypeOK, TaskOK
<1>3. ASSUME NEW s \in Sessions, NEW state \in {"completed", "failed"}, TurnEnds(s, state)
      PROVE  Typed'
  <2>1. agentNews' \in Seq([session: Sessions,
                            state: {"completed", "failed", "waiting_approval"}])
    BY <1>1, <1>3 DEF TurnEnds, News
  <2>2. turns' \in [Sessions -> Nat]
    BY <1>1, <1>3 DEF TurnEnds
  <2> QED BY <1>3, <2>1, <2>2 DEF TurnEnds, Typed, TypeOK, TaskOK
<1>4. ASSUME NEW p \in Terminals, NEW ok \in BOOLEAN, ProcessExits(p, ok)
      PROVE  Typed'
  <2>1. /\ termNews' \in Seq([terminal: Terminals, ok: BOOLEAN])
        /\ proc' \in [Terminals -> {"none", "live", "dying", "exited"}]
    BY <1>1, <1>4 DEF ProcessExits
  <2> QED BY <1>4, <2>1 DEF ProcessExits, Typed, TypeOK, TaskOK
<1>5. ASSUME NEW r \in Runs, TimePasses(r)
      PROVE  Typed'
  BY <1>5 DEF TimePasses, Typed, TypeOK, TaskOK
<1>6. CASE Crash
  <2>1. Absent \in Run /\ Sound(Idle) /\ Idle \in Task
    BY RecordLemma, SoundLemma, TaskLemma
  <2>2. ASSUME NEW r \in Runs
        PROVE  [disk[r] EXCEPT !.on = "lost session"] \in Run
    BY <1>1 DEF Run, Waitings
  <2>3. disk' \in [Runs -> Run]
    BY <1>1, <1>6, <2>2 DEF Crash
  <2>4. known' \subseteq Nodes
    BY <1>6, ConstantsAssumption DEF Crash
  <2>5. TypeOK'
    <3>1. /\ runs' \in [Runs -> Run] /\ task' \in [Tasks -> Task]
          /\ recovery' \in [read: BOOLEAN, rows: [Runs -> Run]]
      BY <1>6, <2>1 DEF Crash
    <3>2. /\ turns' \in [Sessions -> Nat]
          /\ proc' \in [Terminals -> {"none", "live", "dying", "exited"}]
      BY <1>6 DEF Crash
    <3>3. crashes \in Nat /\ crashes' = crashes + 1
      BY <1>6 DEF Crash, Typed, TypeOK
    <3>4. agentNews' = <<>> /\ termNews' = <<>> /\ UNCHANGED <<written, late>>
      BY <1>6 DEF Crash
    <3> QED BY <2>3, <2>4, <3>1, <3>2, <3>3, <3>4 DEF Typed, TypeOK
  <2>6. TaskOK'
    BY <1>6, <2>1 DEF Crash, TaskOK
  <2> QED BY <2>5, <2>6 DEF Typed
<1> QED
  BY <1>2, <1>3, <1>4, <1>5, <1>6 DEF Environment

LEMMA NextTyped == Typed /\ [Next]_vars => Typed'
<1> SUFFICES ASSUME Typed, [Next]_vars PROVE Typed'
  OBVIOUS
<1>1. CASE UNCHANGED vars
  BY <1>1 DEF vars, store, workers, Typed, TypeOK, TaskOK
<1>2. CASE Next
  BY <1>2, CarryTyped, NewsTyped, ResumeTyped, OperatorTyped, EnvironmentTyped DEF Next
<1> QED BY <1>1, <1>2

\* Every variable keeps its type, and every task is one the engine can be in.
THEOREM TypedInvariant == Spec => []Typed
BY InitTyped, NextTyped, PTL DEF Spec

THEOREM TypeInvariant == Spec => []TypeOK
<1>1. Typed => TypeOK
  BY DEF Typed
<1> QED BY <1>1, TypedInvariant, PTL
-----------------------------------------------------------------------------
(* A running run is being run.                                             *)
(*                                                                         *)
(* A task gives up a run only once the map says the run no longer runs, or *)
(* by handing it to the task it becomes; whoever puts a running copy in    *)
(* the map goes on to drive it; and forgetting takes only what has ended.  *)

\* A task that turns into one that still carries what runs leaves nothing behind.
LEMMA TurnCarries ==
    ASSUME Typed, NoRunIsAbandoned, NEW t \in Tasks, NEW next, Becomes(t, next),
           UNCHANGED runs,
           \A r \in Runs : runs[r].is = "running" /\ Carrying(task[t], r)
                              => Carrying(next, r)
    PROVE  NoRunIsAbandoned'
<1> SUFFICES ASSUME NEW r \in Runs, runs'[r].is = "running"
             PROVE  \E u \in Tasks : Carrying(task'[u], r)
  BY DEF NoRunIsAbandoned, Carries
<1>1. PICK u \in Tasks : Carrying(task[u], r)
  BY DEF NoRunIsAbandoned, Carries
<1>2. task'[t] = next /\ \A v \in Tasks \ {t} : task'[v] = task[v]
  BY DEF Becomes, Typed, TypeOK
<1> QED BY <1>1, <1>2

\* What does not carry anything may turn into whatever it likes.
LEMMA FreshTurnCarries ==
    ASSUME Typed, NoRunIsAbandoned, NEW t \in Tasks, NEW next, Becomes(t, next),
           UNCHANGED runs,
           task[t].pc \in {"idle", "sleep"}
    PROVE  NoRunIsAbandoned'
BY TurnCarries DEF Carrying

\* Putting a copy in the map, from a task that carries nothing but that run.
LEMMA RememberedCarries ==
    ASSUME Typed, NoRunIsAbandoned, NEW t \in Tasks, NEW r \in Runs, NEW run \in Run,
           NEW next, Remembered(r, run), Becomes(t, next),
           task[t].pc = "idle" \/ task[t].run = r,
           run.is = "running" => Carrying(next, r)
    PROVE  NoRunIsAbandoned'
<1> SUFFICES ASSUME NEW q \in Runs, runs'[q].is = "running"
             PROVE  \E u \in Tasks : Carrying(task'[u], q)
  BY DEF NoRunIsAbandoned, Carries
<1>1. task'[t] = next /\ \A v \in Tasks \ {t} : task'[v] = task[v]
  BY DEF Becomes, Typed, TypeOK
<1>2. \/ q # r /\ runs'[q] = runs[q]
      \/ q = r /\ runs'[q] = run
  BY RememberedLemma DEF Typed, Absent
<1>3. CASE q = r
  BY <1>1, <1>2, <1>3
<1>4. CASE q # r
  <2>1. PICK u \in Tasks : Carrying(task[u], q)
    BY <1>2, <1>4 DEF NoRunIsAbandoned, Carries
  <2>2. u # t
    BY <1>4, <2>1 DEF Carrying
  <2> QED BY <1>1, <2>1, <2>2
<1> QED BY <1>3, <1>4

LEMMA ExecuteCarries ==
    ASSUME Typed, NoRunIsAbandoned, NEW t \in Tasks, Execute(t)
    PROVE  NoRunIsAbandoned'
<1> DEFINE x == task[t]
<1>1. ASSUME NEW u \in Tasks, ExecuteDelay(t, u)
      PROVE  NoRunIsAbandoned'
  <2> SUFFICES ASSUME NEW r \in Runs, runs'[r].is = "running"
               PROVE  \E v \in Tasks : Carrying(task'[v], r)
    BY DEF NoRunIsAbandoned, Carries
  <2>1. PICK v \in Tasks : Carrying(task[v], r)
    BY <1>1 DEF NoRunIsAbandoned, Carries, ExecuteDelay
  <2>2. /\ u # t /\ task[u].pc = "idle"
        /\ task'[t] = Parking(x, "delay")
        /\ \A w \in Tasks \ {t, u} : task'[w] = task[w]
    BY <1>1 DEF ExecuteDelay, Free, Typed, TypeOK
  <2>3. CASE v = t
    <3>1. Carrying(task'[t], r)
      BY <2>1, <2>2, <2>3 DEF Carrying, Parking
    <3> QED BY <3>1
  <2>4. CASE v # t
    <3>1. v # u
      BY <2>1, <2>2 DEF Carrying
    <3> QED BY <2>1, <2>2, <2>4, <3>1
  <2> QED BY <2>3, <2>4
<1>2. CASE RunsOut(t) \/ StepMissing(t) \/ ExecuteEnd(t)
  <2>1. PICK outcome : Becomes(t, Finishing(x, outcome)) /\ UNCHANGED runs
    BY <1>2 DEF RunsOut, StepMissing, ExecuteEnd
  <2>2. \A r \in Runs : Carrying(x, r) => Carrying(Finishing(x, outcome), r)
    BY DEF Carrying, Finishing
  <2> QED BY <2>1, <2>2, TurnCarries
<1>3. ASSUME NEW on, Becomes(t, Parking(x, on)), UNCHANGED runs
      PROVE  NoRunIsAbandoned'
  <2>1. \A r \in Runs : Carrying(x, r) => Carrying(Parking(x, on), r)
    BY DEF Carrying, Parking
  <2> QED BY <1>3, <2>1, TurnCarries
<1>4. ASSUME NEW to, NEW ok, Becomes(t, Stepping(x.run, x.by, to, ok)), UNCHANGED runs
      PROVE  NoRunIsAbandoned'
  <2>1. \A r \in Runs : Carrying(x, r) => Carrying(Stepping(x.run, x.by, to, ok), r)
    BY DEF Carrying, Stepping
  <2> QED BY <1>4, <2>1, TurnCarries
<1>5. CASE ExecuteAction(t)
  <2>1. CASE Becomes(t, Finishing(x, "failed"))
    <3>1. \A r \in Runs : Carrying(x, r) => Carrying(Finishing(x, "failed"), r)
      BY DEF Carrying, Finishing
    <3>2. UNCHANGED runs
      BY <1>5 DEF ExecuteAction
    <3> QED BY <2>1, <3>1, <3>2, TurnCarries
  <2> QED BY <1>4, <1>5, <2>1 DEF ExecuteAction
<1>6. CASE ExecuteClose(t)
  <2>1. \A r \in Runs : Carrying(x, r) => Carrying(Working("open", x.run, x.held, x.by), r)
    BY DEF Carrying, Working
  <2> QED BY <1>6, <2>1, TurnCarries DEF ExecuteClose
<1>7. CASE ExecuteEmit(t) \/ ExecuteCondition(t)
  BY <1>4, <1>7 DEF ExecuteEmit, ExecuteCondition
<1>8. CASE ExecuteApproval(t) \/ ExecuteAgent(t) \/ ExecuteOpen(t)
  BY <1>3, <1>4, <1>8 DEF ExecuteApproval, ExecuteAgent, ExecuteOpen
<1> QED
  BY <1>1, <1>2, <1>5, <1>6, <1>7, <1>8 DEF Execute

LEMMA CarryCarries ==
    ASSUME Typed, NoRunIsAbandoned, NEW t \in Tasks, Carry(t)
    PROVE  NoRunIsAbandoned'
<1> DEFINE x == task[t]
           run == runs[x.run]
<1>1. Sound(x)
  BY DEF Typed, TaskOK
<1>2. CASE Advance(t)
  <2>1. \A r \in Runs : runs[r].is = "running" /\ Carrying(x, r) =>
          Carrying(IF Live(run) THEN Working("execute", x.run, run, x.by) ELSE Idle, r)
    BY DEF Carrying, Working, Live
  <2> QED BY <1>2, <2>1, TurnCarries DEF Advance
<1>3. CASE Execute(t)
  BY <1>3, ExecuteCarries
<1>4. CASE StepTo(t)
  <2>1. PICK next : /\ Becomes(t, next)
                    /\ \A r \in Runs : Carrying(x, r) => Carrying(next, r)
    BY <1>4 DEF StepTo, Carrying, Holding, Driving, Working
  <2> QED BY <1>4, <2>1, TurnCarries DEF StepTo
<1>5. CASE Park(t)
  <2>1. \A r \in Runs : runs[r].is = "running" /\ Carrying(x, r) =>
          Carrying(IF Live(run) THEN Holding(x, Parked(run, x.on)) ELSE Idle, r)
    BY DEF Carrying, Holding, Working, Live
  <2> QED BY <1>5, <2>1, TurnCarries DEF Park
<1>6. CASE Finish(t)
  <2>1. \A r \in Runs : runs[r].is = "running" /\ Carrying(x, r) =>
          Carrying(IF run.is = "absent" THEN Idle ELSE Holding(x, Ended(run, x.on)), r)
    BY DEF Carrying, Holding, Working
  <2> QED BY <1>6, <2>1, TurnCarries DEF Finish
<1>7. CASE Insert(t)
  <2>1. x.run \in Runs /\ x.held \in Run
    BY <1>1, <1>7 DEF Insert, Sound, Task
  <2>2. x.held.is = "running" => Carrying(Working("record", x.run, x.held, x.by), x.run)
    BY DEF Carrying, Working
  <2> QED BY <1>7, <2>1, <2>2, RememberedCarries DEF Insert
<1>8. CASE Record(t)
  <2>1. PICK next : /\ Becomes(t, next)
                    /\ \A r \in Runs : Carrying(x, r) => Carrying(next, r)
    BY <1>8 DEF Record, Carrying, Driving, Working
  <2> QED BY <1>8, <2>1, TurnCarries DEF Record
<1>9. CASE Begin(t)
  <2>1. \A r \in Runs : Carrying(x, r) => Carrying(Driving(x.run), r)
    BY DEF Carrying, Driving, Working
  <2> QED BY <1>9, <2>1, TurnCarries DEF Begin
<1>10. CASE Wake(t)
  BY <1>10, FreshTurnCarries DEF Wake
<1> QED
  BY <1>2, <1>3, <1>4, <1>5, <1>6, <1>7, <1>8, <1>9, <1>10 DEF Carry

LEMMA NewsCarries ==
    ASSUME Typed, NoRunIsAbandoned, NEW t \in Tasks, AgentFinished(t) \/ TerminalFinished(t)
    PROVE  NoRunIsAbandoned'
<1>1. task[t].pc = "idle" /\ UNCHANGED runs
  BY DEF AgentFinished, TerminalFinished, Free
<1>2. UNCHANGED task \/ \E next : Becomes(t, next)
  BY DEF AgentFinished, TerminalFinished, Released
<1>3. CASE UNCHANGED task
  BY <1>1, <1>3 DEF NoRunIsAbandoned, Carries
<1> QED BY <1>1, <1>2, <1>3, FreshTurnCarries

LEMMA ResumeCarries ==
    ASSUME Typed, NoRunIsAbandoned, Resume
    PROVE  NoRunIsAbandoned'
<1>1. /\ \A r \in Runs : recovery.rows[r] \in Run
      /\ runs \in [Runs -> Run] /\ task \in [Tasks -> Task]
  BY DEF Typed, TypeOK
<1>2. CASE ReadUnfinished
  BY <1>2 DEF ReadUnfinished, NoRunIsAbandoned, Carries
<1>3. ASSUME NEW r \in Runs, PickUpApproval(r)
      PROVE  NoRunIsAbandoned'
  BY <1>1, <1>3 DEF PickUpApproval, Waits, NoRunIsAbandoned, Carries
<1>4. ASSUME NEW t \in Tasks, NEW r \in Runs, PickUpGone(t, r)
      PROVE  NoRunIsAbandoned'
  <2> DEFINE run == Ended(recovery.rows[r], "failed")
  <2>1. run \in Run /\ run.is # "running"
    BY <1>1, RecordLemma DEF Outcomes, Ended
  <2> QED BY <1>4, <2>1, RememberedCarries DEF PickUpGone, Free
<1>5. ASSUME NEW t \in Tasks, NEW r \in Runs, PickUpStep(t, r) \/ PickUpDelay(t, r)
      PROVE  NoRunIsAbandoned'
  <2> SUFFICES ASSUME NEW q \in Runs, runs'[q].is = "running"
               PROVE  \E u \in Tasks : Carrying(task'[u], q)
    BY DEF NoRunIsAbandoned, Carries
  <2>1. /\ task[t].pc = "idle"
        /\ runs' = [runs EXCEPT ![r] = recovery.rows[r]]
        /\ \/ PickUpStep(t, r) /\ Becomes(t, Driving(r))
           \/ recovery.rows[r].is = "waiting" /\ \E next : Becomes(t, next)
    BY <1>5 DEF PickUpStep, PickUpDelay, Free, Waits
  <2>2. \A v \in Tasks \ {t} : task'[v] = task[v]
    BY <1>1, <2>1 DEF Becomes
  <2>3. CASE q = r
    <3>1. task'[t] = Driving(r)
      BY <1>1, <2>1, <2>3 DEF Becomes
    <3> QED BY <2>3, <3>1 DEF Carrying, Driving, Working
  <2>4. CASE q # r
    <3>1. PICK u \in Tasks : Carrying(task[u], q)
      BY <1>1, <2>1, <2>4 DEF NoRunIsAbandoned, Carries
    <3>2. u # t
      BY <2>1, <3>1 DEF Carrying
    <3> QED BY <2>2, <3>1, <3>2
  <2> QED BY <2>3, <2>4
<1> QED
  BY <1>2, <1>3, <1>4, <1>5 DEF Resume

LEMMA OperatorCarries ==
    ASSUME Typed, NoRunIsAbandoned, Operator, "slow call" \notin Allowed
    PROVE  NoRunIsAbandoned'
<1>1. PICK t \in Tasks, r \in Runs :
        \/ StartRun(t, r) \/ Cancel(t, r)
        \/ \E allow \in BOOLEAN : Answer(t, r, allow)
  BY DEF Operator, CallDropped
<1>2. CASE StartRun(t, r)
  <2>1. Carrying(Working("record", r, Beginning, "operator"), r)
    BY DEF Carrying, Working, Beginning
  <2> QED BY <1>2, <2>1, RecordLemma, RememberedCarries DEF StartRun, Called, Free
<1>3. CASE Cancel(t, r)
  BY <1>3, FreshTurnCarries DEF Cancel, Called, Free
<1>4. ASSUME NEW allow \in BOOLEAN, Answer(t, r, allow)
      PROVE  NoRunIsAbandoned'
  BY <1>4, FreshTurnCarries DEF Answer, Called, Free
<1> QED BY <1>1, <1>2, <1>3, <1>4

LEMMA EnvironmentCarries ==
    ASSUME Typed, NoRunIsAbandoned, Environment
    PROVE  NoRunIsAbandoned'
<1>1. CASE Crash
  BY <1>1 DEF Crash, NoRunIsAbandoned, Absent
<1>2. CASE UNCHANGED <<runs, task>>
  BY <1>2 DEF NoRunIsAbandoned, Carries
<1>3. Crash \/ UNCHANGED <<runs, task>>
  BY DEF Environment, AgentAsks, TurnEnds, ProcessExits, TimePasses
<1> QED BY <1>1, <1>2, <1>3

LEMMA InitCarries == Init => NoRunIsAbandoned
BY DEF Init, NoRunIsAbandoned, Absent

\* However many runs, tasks and workers there are, whatever the operator cancels or
\* answers, whatever is heard of the workers and in whatever order, however often
\* the process dies and whatever writes fail: a run that says it is running has a
\* task that will take it on.  Only a call dropped half-way takes a run with it,
\* as CallDropped says.
THEOREM RunsAreNeverAbandoned ==
    ASSUME "slow call" \notin Allowed
    PROVE  Spec => []NoRunIsAbandoned
<1>1. Init => NoRunIsAbandoned
  BY InitCarries
<1>2. Typed /\ NoRunIsAbandoned /\ [Next]_vars => NoRunIsAbandoned'
  <2> SUFFICES ASSUME Typed, NoRunIsAbandoned, [Next]_vars
               PROVE  NoRunIsAbandoned'
    OBVIOUS
  <2>1. CASE UNCHANGED vars
    BY <2>1 DEF vars, NoRunIsAbandoned, Carries
  <2>2. CASE Next
    BY <2>2, CarryCarries, NewsCarries, ResumeCarries, OperatorCarries, EnvironmentCarries
       DEF Next
  <2> QED BY <2>1, <2>2
<1> QED BY <1>1, <1>2, TypedInvariant, PTL DEF Spec
-----------------------------------------------------------------------------
(* No run is advanced by two tasks.                                        *)

\* What carries a run works on it.
LEMMA CarryingLemma ==
    \A x, r : Carrying(x, r) => x.run = r /\ x.pc \notin {"idle", "sleep"}
BY DEF Carrying

\* A task that goes on with its run, without touching the map, or gives up a
\* sleep or a call.
LEMMA TurnSolo ==
    ASSUME Typed, Solo, NEW t \in Tasks, NEW next, Becomes(t, next),
           UNCHANGED <<runs, recovery>>,
           task[t].pc # "idle", next.pc # "sleep",
           next.pc # "idle" => next.run = task[t].run,
           \A r \in Runs : Carrying(next, r) => Carrying(task[t], r),
           \A r \in Runs : Carrying(next, r) /\ runs[r].is = "waiting" => Taken(next, runs[r].on),
           ParksFor(task[t], "delay") /\ task[t].pc # "idle" =>
               (next.pc # "idle" /\ ParksFor(next, "delay")),
           Drives(next) => next.by = "none"
    PROVE  Solo'
<1>1. task'[t] = next /\ \A u \in Tasks \ {t} : task'[u] = task[u]
  BY DEF Becomes, Typed, TypeOK
<1>2. runs' = runs /\ recovery' = recovery
  OBVIOUS
<1>3. \A u \in Tasks, r \in Runs : Carrying(task'[u], r) => Carrying(task[u], r)
  BY <1>1
<1>4. OneDriver'
  BY <1>3, Zenon DEF Solo, OneDriver, Carries
<1>5. \A u \in Tasks : task'[u].pc = "sleep" => task[u] = task'[u]
  BY <1>1
<1>6. OneSleeper'
  BY <1>5, Zenon DEF Solo, OneSleeper
<1>7. SleeperWaits'
  <2> SUFFICES ASSUME NEW u \in Tasks, NEW r \in Runs, task'[u].pc = "sleep",
                      task'[u].run = r
               PROVE  Slept(r)'
    BY DEF SleeperWaits
  <2>1. task'[u] = task[u] /\ task[u].pc = "sleep" /\ task[u].run = r
    BY <1>5
  <2>2. Slept(r)
    BY <2>1 DEF Solo, SleeperWaits
  <2>3. CASE Waits(runs[r], "delay") /\ \A v \in Tasks : ~Carrying(task[v], r)
    <3>1. \A v \in Tasks : ~Carrying(task'[v], r)
      BY <1>3, <2>3
    <3> QED
      BY <1>2, <2>1, <2>3, <3>1 DEF Slept, Carries
  <2>4. ASSUME ~Waits(runs[r], "delay"), NEW v \in Tasks, Carrying(task[v], r),
               ParksFor(task[v], "delay")
        PROVE  Slept(r)'
    <3>1. Carrying(task'[v], r) /\ ParksFor(task'[v], "delay")
      <4>1. CASE v # t
        BY <1>1, <2>4, <4>1
      <4>2. CASE v = t
        <5>1. next.pc # "idle" /\ ParksFor(next, "delay") /\ next.run = r
          BY <2>4, <4>2 DEF Carrying
        <5>2. Carrying(next, r)
          BY <5>1 DEF Carrying, ParksFor
        <5> QED
          BY <1>1, <4>2, <5>1, <5>2
      <4> QED
        BY <4>1, <4>2
    <3> QED
      BY <1>2, <2>1, <2>4, <3>1 DEF Slept, Carries
  <2> QED
    BY <2>2, <2>3, <2>4 DEF Slept, Carries
<1>8. TakenFrom'
  <2> SUFFICES ASSUME NEW u \in Tasks, NEW r \in Runs, Carrying(task'[u], r),
                      runs[r].is = "waiting"
               PROVE  Taken(task'[u], runs[r].on)
    BY <1>2 DEF TakenFrom, Carries
  <2>1. CASE u = t
    BY <1>1, <2>1
  <2>2. CASE u # t
    BY <1>1, <2>2 DEF Solo, TakenFrom, Carries
  <2> QED
    BY <2>1, <2>2
<1>9. CarriedIsLive'
  BY <1>2, <1>3, Zenon DEF Solo, CarriedIsLive, Carries
<1>10. DriversOwn'
  BY <1>1 DEF Solo, DriversOwn
<1>11. Unpicked'
  <2>1. \A u \in Tasks : task'[u].pc # "idle" => task[u].pc # "idle" /\ task'[u].run = task[u].run
    BY <1>1
  <2> QED
    BY <1>2, <2>1 DEF Solo, Unpicked
<1>12. Unread'
  BY <1>2 DEF Solo, Unread
<1> QED
  BY <1>4, <1>6, <1>7, <1>8, <1>9, <1>10, <1>11, <1>12 DEF Solo

\* A free task, or the sleeper a run waits for, takes up a run that waits and
\* that nobody is on.
LEMMA TakeSolo ==
    ASSUME Typed, Solo, NEW t \in Tasks, NEW r \in Runs, NEW next, Becomes(t, next),
           UNCHANGED <<runs, recovery>>,
           task[t].pc = "idle" \/ (task[t].pc = "sleep" /\ task[t].run = r),
           runs[r].is = "waiting",
           \A u \in Tasks : ~Carries(u, r),
           \A u \in Tasks \ {t} : ~(task[u].pc = "sleep" /\ task[u].run = r),
           next.pc = "step", next.run = r, Taken(next, runs[r].on)
    PROVE  Solo'
<1>1. task'[t] = next /\ \A u \in Tasks \ {t} : task'[u] = task[u]
  BY DEF Becomes, Typed, TypeOK
<1>2. runs' = runs /\ recovery' = recovery
  OBVIOUS
<1>3. \A u \in Tasks, q \in Runs : Carrying(task'[u], q) =>
         \/ u = t /\ q = r
         \/ u # t /\ q # r /\ Carrying(task[u], q)
  <2> SUFFICES ASSUME NEW u \in Tasks, NEW q \in Runs, Carrying(task'[u], q)
               PROVE  \/ u = t /\ q = r
                      \/ u # t /\ q # r /\ Carrying(task[u], q)
    OBVIOUS
  <2>1. CASE u = t
    BY <1>1, <2>1 DEF Carrying
  <2>2. CASE u # t
    BY <1>1, <2>2 DEF Carries
  <2> QED
    BY <2>1, <2>2
<1>4. OneDriver'
  BY <1>3 DEF Solo, OneDriver, Carries
<1>5. \A u \in Tasks : task'[u].pc = "sleep" => u # t /\ task[u] = task'[u]
  BY <1>1
<1>6. OneSleeper'
  BY <1>5, Zenon DEF Solo, OneSleeper
<1>7. SleeperWaits'
  <2> SUFFICES ASSUME NEW u \in Tasks, NEW q \in Runs, task'[u].pc = "sleep",
                      task'[u].run = q
               PROVE  Slept(q)'
    BY DEF SleeperWaits
  <2>1. u # t /\ task'[u] = task[u] /\ task[u].pc = "sleep" /\ task[u].run = q /\ q # r
    BY <1>5
  <2>2. Slept(q)
    BY <2>1 DEF Solo, SleeperWaits
  <2>3. CASE Waits(runs[q], "delay") /\ \A v \in Tasks : ~Carrying(task[v], q)
    <3>1. \A v \in Tasks : ~Carrying(task'[v], q)
      BY <1>3, <2>1, <2>3
    <3> QED
      BY <1>2, <2>3, <3>1 DEF Slept, Carries
  <2>4. ASSUME ~Waits(runs[q], "delay"), NEW v \in Tasks, Carrying(task[v], q),
               ParksFor(task[v], "delay")
        PROVE  Slept(q)'
    <3>1. v # t
      BY <2>1, <2>4 DEF Carrying
    <3>2. Carrying(task'[v], q) /\ ParksFor(task'[v], "delay")
      BY <1>1, <2>4, <3>1
    <3> QED
      BY <1>2, <2>4, <3>2 DEF Slept, Carries
  <2> QED
    BY <2>2, <2>3, <2>4 DEF Slept, Carries
<1>8. TakenFrom'
  <2> SUFFICES ASSUME NEW u \in Tasks, NEW q \in Runs, Carrying(task'[u], q),
                      runs[q].is = "waiting"
               PROVE  Taken(task'[u], runs[q].on)
    BY <1>2 DEF TakenFrom, Carries
  <2>1. CASE u = t
    BY <1>1, <1>3, <2>1
  <2>2. CASE u # t
    BY <1>1, <2>2 DEF Solo, TakenFrom, Carries
  <2> QED
    BY <2>1, <2>2
<1>9. CarriedIsLive'
  BY <1>2, <1>3 DEF Solo, CarriedIsLive, Carries, Live
<1>10. DriversOwn'
  BY <1>1 DEF Solo, DriversOwn, Drives
<1>11. recovery.rows[r] = Absent /\ recovery.read
  <2>1. runs[r] # Absent
    BY DEF Absent
  <2> QED
    BY <2>1, Zenon DEF Solo, Unpicked, Unread
<1>12. Unpicked'
  BY <1>1, <1>2, <1>11 DEF Solo, Unpicked
<1>13. Unread'
  BY <1>2, <1>11 DEF Unread
<1> QED
  BY <1>4, <1>6, <1>7, <1>8, <1>9, <1>10, <1>12, <1>13 DEF Solo

\* What nobody carries and does not wait for a delay nobody sleeps on.
LEMMA NobodySleeps ==
    ASSUME Solo, NEW r \in Runs, \A u \in Tasks : ~Carries(u, r), ~Waits(runs[r], "delay")
    PROVE  \A u \in Tasks : ~(task[u].pc = "sleep" /\ task[u].run = r)
BY DEF Solo, SleeperWaits, Slept

\* A call of the operator's finds no other.
LEMMA NoCallElse ==
    ASSUME OneCallAtATime, Calls < MaxCalls
    PROVE  \A u \in Tasks : task[u].by # "operator"
<1> DEFINE C == {u \in Tasks : task[u].by = "operator"}
<1>1. IsFiniteSet(C) /\ Cardinality(C) \in Nat
  BY FS_Subset, FS_CardinalityType, TasksAssumption
<1>2. Cardinality(C) < MaxCalls /\ MaxCalls \in Nat /\ MaxCalls <= 1
  BY ConstantsAssumption DEF Calls, OneCallAtATime
<1>3. Cardinality(C) = 0
  BY <1>1, <1>2
<1>4. C = {}
  BY <1>1, <1>3, FS_EmptySet
<1> QED
  BY <1>4

\* The map with one run put in it: what it had of others stays, but for what is
\* forgotten because it has ended.
LEMMA RememberedOthers ==
    ASSUME TypeOK, NEW r \in Runs, NEW run \in Run, Remembered(r, run)
    PROVE  /\ runs' \in [Runs -> Run]
           /\ \A q \in Runs \ {r} : \/ runs'[q] = runs[q]
                                    \/ runs[q].is = "finished" /\ runs'[q] = Absent
           /\ runs'[r] = run \/ (run.is = "finished" /\ runs'[r] = Absent)
<1> DEFINE map == [runs EXCEPT ![r] = run]
<1>1. map \in [Runs -> Run] /\ \A q \in Runs : map[q] = IF q = r THEN run ELSE runs[q]
  BY DEF TypeOK
<1>2. CASE run.is = "finished"
  <2>1. runs' \in Pruned(map)
    BY <1>2 DEF Remembered
  <2> HIDE DEF map
  <2>2. /\ runs' \in [Runs -> Run]
        /\ \A q \in Runs : runs'[q] = map[q] \/ (map[q].is = "finished" /\ runs'[q] = Absent)
    BY <1>1, <2>1, PrunedLemma
  <2> QED
    BY <1>1, <1>2, <2>2
<1>3. CASE run.is # "finished"
  <2>1. runs' = map
    BY <1>3 DEF Remembered
  <2> QED
    BY <1>1, <2>1
<1> QED
  BY <1>2, <1>3

\* Putting the copy a task holds in the map: the task was on the run, and was
\* the only one.
LEMMA InsertSolo ==
    ASSUME Typed, Solo, NEW t \in Tasks, Insert(t)
    PROVE  Solo'
<1> DEFINE x == task[t]
           r == x.run
<1>1. /\ x.pc = "insert" /\ r \in Runs /\ x.held \in Run /\ task \in [Tasks -> Task]
      /\ runs \in [Runs -> Run] /\ TypeOK
  BY DEF Insert, Typed, TypeOK, TaskOK, Sound, Task
<1>2. Remembered(r, x.held) /\ recovery' = recovery /\ recovery.read
  BY <1>1 DEF Insert, Solo, Unread
<1>3. /\ task'[t] = Working("record", r, x.held, x.by)
      /\ \A u \in Tasks \ {t} : task'[u] = task[u]
  BY <1>1 DEF Insert, Becomes
<1>4. /\ \A q \in Runs \ {r} : \/ runs'[q] = runs[q]
                               \/ runs[q].is = "finished" /\ runs'[q] = Absent
      /\ runs'[r] = x.held \/ (x.held.is = "finished" /\ runs'[r] = Absent)
  BY <1>1, <1>2, RememberedOthers
<1> HIDE DEF x
<1>5. Carrying(task[t], r)
  BY <1>1 DEF Carrying, x
<1>6. \A u \in Tasks, q \in Runs : Carrying(task[u], q) /\ u # t => q # r
  BY <1>1, <1>5 DEF Solo, OneDriver, Carries
<1>7. \A u \in Tasks, q \in Runs : Carrying(task'[u], q) =>
         \/ u = t /\ q = r /\ x.held.is = "running"
         \/ u # t /\ q # r /\ Carrying(task[u], q)
  <2> SUFFICES ASSUME NEW u \in Tasks, NEW q \in Runs, Carrying(task'[u], q)
               PROVE  \/ u = t /\ q = r /\ x.held.is = "running"
                      \/ u # t /\ q # r /\ Carrying(task[u], q)
    OBVIOUS
  <2>1. CASE u = t
    BY <1>3, <2>1 DEF Carrying, Working
  <2>2. CASE u # t
    BY <1>3, <1>6, <2>2
  <2> QED
    BY <2>1, <2>2
<1>8. OneDriver'
  BY <1>7 DEF Solo, OneDriver, Carries
<1>9. \A u \in Tasks : task'[u].pc = "sleep" => u # t /\ task[u] = task'[u]
  BY <1>3 DEF Working
<1>10. OneSleeper'
  BY <1>9, Zenon DEF Solo, OneSleeper
<1>11. \A q \in Runs : (\E v \in Tasks : Carrying(task[v], q)) /\ q # r => runs'[q] = runs[q]
  BY <1>4 DEF Solo, CarriedIsLive, Carries, Live
<1>12. SleeperWaits'
  <2> SUFFICES ASSUME NEW u \in Tasks, NEW q \in Runs, task'[u].pc = "sleep",
                      task'[u].run = q
               PROVE  Slept(q)'
    BY DEF SleeperWaits
  <2>1. u # t /\ task'[u] = task[u] /\ task[u].pc = "sleep" /\ task[u].run = q
    BY <1>9
  <2>2. Slept(q)
    BY <2>1 DEF Solo, SleeperWaits
  <2>3. CASE q = r
    <3>1. ParksFor(task[t], "delay")
      BY <1>5, <1>6, <2>2, <2>3 DEF Slept, Carries
    <3>2. x.held.is = "waiting" /\ x.held.on = "delay"
      BY <1>1, <3>1 DEF ParksFor, x
    <3>3. Waits(runs'[r], "delay")
      BY <1>4, <3>2 DEF Waits
    <3>4. \A v \in Tasks : ~Carrying(task'[v], r)
      BY <1>1, <1>7, <3>2
    <3> QED
      BY <2>3, <3>3, <3>4 DEF Slept, Carries
  <2>4. CASE q # r /\ Waits(runs[q], "delay") /\ \A v \in Tasks : ~Carrying(task[v], q)
    <3>1. \A v \in Tasks : ~Carrying(task'[v], q)
      BY <1>7, <2>4
    <3>2. runs'[q] = runs[q]
      BY <1>4, <2>4 DEF Waits
    <3> QED
      BY <2>4, <3>1, <3>2 DEF Slept, Carries
  <2>5. ASSUME q # r, ~Waits(runs[q], "delay"), NEW v \in Tasks, Carrying(task[v], q),
               ParksFor(task[v], "delay")
        PROVE  Slept(q)'
    <3>1. v # t
      BY <1>5, <2>5 DEF Carrying
    <3>2. Carrying(task'[v], q) /\ ParksFor(task'[v], "delay") /\ runs'[q] = runs[q]
      BY <1>3, <1>11, <2>5, <3>1
    <3> QED
      BY <2>5, <3>2 DEF Slept, Carries
  <2> QED
    BY <2>2, <2>3, <2>4, <2>5 DEF Slept, Carries
<1>13. TakenFrom'
  <2> SUFFICES ASSUME NEW u \in Tasks, NEW q \in Runs, Carrying(task'[u], q),
                      runs'[q].is = "waiting"
               PROVE  Taken(task'[u], runs'[q].on)
    BY DEF TakenFrom, Carries
  <2>1. u # t /\ q # r /\ Carrying(task[u], q)
    BY <1>4, <1>7
  <2>2. runs'[q] = runs[q] /\ task'[u] = task[u]
    BY <1>3, <1>11, <2>1
  <2> QED
    BY <2>1, <2>2 DEF Solo, TakenFrom, Carries
<1>14. CarriedIsLive'
  <2> SUFFICES ASSUME NEW u \in Tasks, NEW q \in Runs, Carrying(task'[u], q)
               PROVE  Live(runs'[q])
    BY DEF CarriedIsLive, Carries
  <2>1. CASE q = r
    BY <1>4, <1>7, <2>1 DEF Live
  <2>2. CASE q # r
    BY <1>7, <1>11, <2>2 DEF Solo, CarriedIsLive, Carries
  <2> QED
    BY <2>1, <2>2
<1>15. DriversOwn'
  BY <1>3 DEF Solo, DriversOwn, Drives, Working
<1>16. recovery.rows[r] = Absent
  BY <1>1 DEF Solo, Unpicked, x
<1>17. Unpicked'
  <2> SUFFICES ASSUME NEW q \in Runs, recovery.rows[q] # Absent
               PROVE  /\ runs'[q] = Absent
                      /\ recovery.rows[q].on \notin Sessions /\ Live(recovery.rows[q])
                      /\ \A u \in Tasks : task'[u].pc # "idle" => task'[u].run # q
    BY <1>2 DEF Unpicked
  <2>1. /\ q # r /\ runs[q] = Absent
        /\ recovery.rows[q].on \notin Sessions /\ Live(recovery.rows[q])
        /\ \A u \in Tasks : task[u].pc # "idle" => task[u].run # q
    BY <1>16 DEF Solo, Unpicked
  <2>2. runs'[q] = Absent
    BY <1>4, <2>1
  <2>3. \A u \in Tasks : task'[u].pc # "idle" => task'[u].run # q
    BY <1>3, <2>1 DEF Working
  <2> QED
    BY <2>1, <2>2, <2>3
<1>18. Unread'
  BY <1>2 DEF Unread
<1> QED
  BY <1>8, <1>10, <1>12, <1>13, <1>14, <1>15, <1>17, <1>18 DEF Solo

\* A delay spawns its sleeper before it parks the run, which nobody sleeps on.
LEMMA DelaySolo ==
    ASSUME Typed, Solo, NEW t \in Tasks, NEW s \in Tasks, ExecuteDelay(t, s)
    PROVE  Solo'
<1> DEFINE x == task[t]
           r == x.run
<1>1. /\ x.pc = "execute" /\ r \in Runs /\ task \in [Tasks -> Task]
      /\ s # t /\ task[s].pc = "idle"
  BY DEF ExecuteDelay, Executes, Free, Typed, TypeOK, TaskOK, Sound, Task
<1>2. runs' = runs /\ recovery' = recovery /\ recovery.read
  BY <1>1 DEF ExecuteDelay, Solo, Unread
<1>3. /\ task'[t] = Parking(x, "delay") /\ task'[s] = Sleeping(r)
      /\ \A u \in Tasks \ {t, s} : task'[u] = task[u]
  BY <1>1 DEF ExecuteDelay
<1> HIDE DEF x
<1>4. Carrying(task[t], r) /\ ~Carrying(task[s], r)
  BY <1>1 DEF Carrying, x
<1>5. \A u \in Tasks, q \in Runs : Carrying(task[u], q) /\ u # t => q # r
  BY <1>1, <1>4 DEF Solo, OneDriver, Carries
<1>6. /\ Carrying(task'[t], r) /\ ParksFor(task'[t], "delay")
      /\ \A q \in Runs : Carrying(task'[t], q) => q = r
      /\ \A q \in Runs : ~Carrying(task'[s], q)
  BY <1>3 DEF Carrying, Parking, Sleeping, Working, ParksFor
<1>7. \A u \in Tasks, q \in Runs : Carrying(task'[u], q) =>
         \/ u = t /\ q = r
         \/ u \notin {t, s} /\ q # r /\ Carrying(task[u], q)
  BY <1>3, <1>5, <1>6
<1>8. OneDriver'
  BY <1>7 DEF Solo, OneDriver, Carries
<1>9. ~Waits(runs[r], "delay")
  BY <1>1, <1>4 DEF Solo, TakenFrom, Taken, Carries, Waits, x
<1>10. \A u \in Tasks : ~(task[u].pc = "sleep" /\ task[u].run = r)
  <2> SUFFICES ASSUME NEW u \in Tasks, task[u].pc = "sleep", task[u].run = r
               PROVE  FALSE
    OBVIOUS
  <2>1. Slept(r)
    BY <1>1 DEF Solo, SleeperWaits
  <2>2. PICK v \in Tasks : Carrying(task[v], r) /\ ParksFor(task[v], "delay")
    BY <1>9, <2>1 DEF Slept, Carries
  <2>3. v = t
    BY <1>1, <1>5, <2>2
  <2> QED
    BY <1>1, <2>2, <2>3 DEF ParksFor, x
<1>11. \A u \in Tasks : task'[u].pc = "sleep" =>
          \/ u = s /\ task'[u].run = r
          \/ u \notin {t, s} /\ task'[u] = task[u] /\ task[u].run # r
  BY <1>3, <1>10 DEF Parking, Sleeping, Working
<1>12. OneSleeper'
  BY <1>11, Zenon DEF Solo, OneSleeper
<1>13. SleeperWaits'
  <2> SUFFICES ASSUME NEW u \in Tasks, NEW q \in Runs, task'[u].pc = "sleep",
                      task'[u].run = q
               PROVE  Slept(q)'
    BY DEF SleeperWaits
  <2>1. CASE q = r
    BY <1>2, <1>6, <1>9, <2>1 DEF Slept, Carries
  <2>2. CASE q # r
    <3>1. u \notin {t, s} /\ task[u].pc = "sleep" /\ task[u].run = q
      BY <1>11, <2>2
    <3>2. Slept(q)
      BY <3>1 DEF Solo, SleeperWaits
    <3>3. CASE Waits(runs[q], "delay") /\ \A v \in Tasks : ~Carrying(task[v], q)
      <4>1. \A v \in Tasks : ~Carrying(task'[v], q)
        BY <1>7, <2>2, <3>3
      <4> QED
        BY <1>2, <3>3, <4>1 DEF Slept, Carries
    <3>4. ASSUME ~Waits(runs[q], "delay"), NEW v \in Tasks, Carrying(task[v], q),
                 ParksFor(task[v], "delay")
          PROVE  Slept(q)'
      <4>1. v # t /\ v # s
        BY <1>1, <1>4, <2>2, <3>4 DEF Carrying, x
      <4>2. task'[v] = task[v]
        BY <1>3, <4>1
      <4> QED
        BY <1>2, <3>4, <4>2 DEF Slept, Carries
    <3> QED
      BY <3>2, <3>3, <3>4 DEF Slept, Carries
  <2> QED
    BY <2>1, <2>2
<1>14. TakenFrom'
  <2> SUFFICES ASSUME NEW u \in Tasks, NEW q \in Runs, Carrying(task'[u], q),
                      runs[q].is = "waiting"
               PROVE  Taken(task'[u], runs[q].on)
    BY <1>2 DEF TakenFrom, Carries
  <2>1. CASE u = t
    <3>1. q = r
      BY <1>7, <2>1
    <3>2. Taken(x, runs[r].on)
      BY <1>4, <3>1 DEF Solo, TakenFrom, Carries, x
    <3> QED
      BY <1>3, <1>9, <2>1, <3>1, <3>2 DEF Taken, Parking, Waits
  <2>2. CASE u # t
    BY <1>3, <1>7, <2>2 DEF Solo, TakenFrom, Carries
  <2> QED
    BY <2>1, <2>2
<1>15. CarriedIsLive'
  BY <1>2, <1>4, <1>7 DEF Solo, CarriedIsLive, Carries
<1>16. x.by = "none"
  BY <1>1 DEF Solo, DriversOwn, Drives, x
<1>17. DriversOwn'
  <2> SUFFICES ASSUME NEW u \in Tasks, Drives(task'[u])
               PROVE  task'[u].by = "none"
    BY DEF DriversOwn
  <2>1. CASE u = t
    BY <1>3, <1>16, <2>1 DEF Parking
  <2>2. CASE u = s
    BY <1>3, <2>2 DEF Sleeping, Working
  <2>3. CASE u \notin {t, s}
    BY <1>3, <2>3 DEF Solo, DriversOwn
  <2> QED
    BY <2>1, <2>2, <2>3
<1>18. recovery.rows[r] = Absent
  BY <1>1 DEF Solo, Unpicked, x
<1>19. Unpicked'
  <2> SUFFICES ASSUME NEW q \in Runs, recovery.rows[q] # Absent
               PROVE  /\ runs[q] = Absent
                      /\ recovery.rows[q].on \notin Sessions /\ Live(recovery.rows[q])
                      /\ \A u \in Tasks : task'[u].pc # "idle" => task'[u].run # q
    BY <1>2 DEF Unpicked
  <2>1. /\ q # r /\ runs[q] = Absent
        /\ recovery.rows[q].on \notin Sessions /\ Live(recovery.rows[q])
        /\ \A u \in Tasks : task[u].pc # "idle" => task[u].run # q
    BY <1>18 DEF Solo, Unpicked
  <2>2. \A u \in Tasks : task'[u].pc # "idle" => task'[u].run # q
    BY <1>3, <2>1 DEF Parking, Sleeping, Working
  <2> QED
    BY <2>1, <2>2
<1>20. Unread'
  BY <1>2 DEF Unread
<1> QED
  BY <1>8, <1>12, <1>13, <1>14, <1>15, <1>17, <1>19, <1>20 DEF Solo

\* A run nobody works on comes into the map, and at most one free task takes it
\* up: it is new, or was read after a restart.
LEMMA EnterSolo ==
    ASSUME Typed, Solo, NEW r \in Runs, NEW next,
           recovery.read, recovery'.read = recovery.read,
           recovery'.rows[r] = Absent,
           \A q \in Runs \ {r} : recovery'.rows[q] = recovery.rows[q],
           \A u \in Tasks : task[u].pc # "idle" => task[u].run # r,
           \A q \in Runs \ {r} : \/ runs'[q] = runs[q]
                                 \/ runs[q].is = "finished" /\ runs'[q] = Absent,
           \A u \in Tasks : \/ task'[u] = task[u]
                            \/ task[u].pc = "idle" /\ task'[u] = next,
           \A u, v \in Tasks : task[u] # task'[u] /\ task[v] # task'[v] => u = v,
           next.pc # "idle" => next.run = r,
           next.pc = "sleep" => Waits(runs'[r], "delay"),
           Carrying(next, r) => Live(runs'[r]),
           Carrying(next, r) /\ runs'[r].is = "waiting" => Taken(next, runs'[r].on),
           Drives(next) => next.by = "none"
    PROVE  Solo'
<1>1. \A u \in Tasks : \/ task'[u] = task[u]
                       \/ task[u].pc = "idle" /\ task'[u] = next /\ task'[u] # task[u]
  OBVIOUS
<1>2. \A u \in Tasks, q \in Runs : Carrying(task'[u], q) =>
         \/ q # r /\ task'[u] = task[u] /\ Carrying(task[u], q)
         \/ q = r /\ task'[u] = next /\ task[u] # next
  <2> SUFFICES ASSUME NEW u \in Tasks, NEW q \in Runs, Carrying(task'[u], q)
               PROVE  \/ q # r /\ task'[u] = task[u] /\ Carrying(task[u], q)
                      \/ q = r /\ task'[u] = next /\ task[u] # next
    OBVIOUS
  <2>1. CASE task'[u] = task[u]
    BY <2>1 DEF Carrying
  <2>2. CASE task'[u] # task[u]
    BY <1>1, <2>2 DEF Carrying
  <2> QED
    BY <2>1, <2>2
<1>3. OneDriver'
  <2> SUFFICES ASSUME NEW u \in Tasks, NEW v \in Tasks, NEW q \in Runs,
                      Carrying(task'[u], q), Carrying(task'[v], q)
               PROVE  u = v
    BY DEF OneDriver, Carries
  <2>1. CASE q = r
    BY <1>2, <2>1
  <2>2. CASE q # r
    BY <1>2, <2>2 DEF Solo, OneDriver, Carries
  <2> QED
    BY <2>1, <2>2
<1>4. \A u \in Tasks : task'[u].pc = "sleep" =>
         \/ task'[u] = task[u] /\ task[u].run # r
         \/ task'[u] = next /\ task[u] # next /\ next.run = r
  BY <1>1
<1>5. OneSleeper'
  <2> SUFFICES ASSUME NEW u \in Tasks, NEW v \in Tasks, task'[u].pc = "sleep",
                      task'[v].pc = "sleep", task'[u].run = task'[v].run
               PROVE  u = v
    BY DEF OneSleeper
  <2>1. CASE task'[u].run = r
    <3>1. /\ task'[u] = task[u] => task[u].run = r
          /\ task'[v] = task[v] => task[v].run = r
      BY <2>1
    <3>2. task[u] # task'[u] /\ task[v] # task'[v]
      BY <1>4, <3>1
    <3> QED
      BY <3>2
  <2>2. CASE task'[u].run # r
    <3>1. task'[u] = task[u] /\ task'[v] = task[v]
      BY <1>4, <2>2
    <3> QED
      BY <3>1 DEF Solo, OneSleeper
  <2> QED
    BY <2>1, <2>2
<1>6. \A q \in Runs : (\E v \in Tasks : Carrying(task[v], q)) /\ q # r => runs'[q] = runs[q]
  BY DEF Solo, CarriedIsLive, Carries, Live
<1>7. SleeperWaits'
  <2> SUFFICES ASSUME NEW u \in Tasks, NEW q \in Runs, task'[u].pc = "sleep",
                      task'[u].run = q
               PROVE  Slept(q)'
    BY DEF SleeperWaits
  <2>1. CASE q = r
    <3>1. task'[u] = next /\ next.pc = "sleep" /\ Waits(runs'[r], "delay")
      BY <1>4, <2>1
    <3>2. ~Carrying(next, r)
      BY <3>1 DEF Carrying
    <3>3. \A v \in Tasks : ~Carrying(task'[v], r)
      BY <1>2, <3>2
    <3> QED
      BY <2>1, <3>1, <3>3 DEF Slept, Carries
  <2>2. CASE q # r
    <3>1. task[u].pc = "sleep" /\ task[u].run = q
      BY <1>4, <2>2
    <3>2. Slept(q)
      BY <3>1 DEF Solo, SleeperWaits
    <3>3. CASE Waits(runs[q], "delay") /\ \A v \in Tasks : ~Carrying(task[v], q)
      <4>1. \A v \in Tasks : ~Carrying(task'[v], q)
        BY <1>2, <2>2, <3>3
      <4>2. runs'[q] = runs[q]
        BY <2>2, <3>3 DEF Waits
      <4> QED
        BY <3>3, <4>1, <4>2 DEF Slept, Carries
    <3>4. ASSUME ~Waits(runs[q], "delay"), NEW v \in Tasks, Carrying(task[v], q),
                 ParksFor(task[v], "delay")
          PROVE  Slept(q)'
      <4>1. task'[v] = task[v]
        BY <3>4 DEF Carrying
      <4>2. runs'[q] = runs[q]
        BY <1>6, <2>2, <3>4
      <4> QED
        BY <3>4, <4>1, <4>2 DEF Slept, Carries
    <3> QED
      BY <3>2, <3>3, <3>4 DEF Slept, Carries
  <2> QED
    BY <2>1, <2>2
<1>8. TakenFrom'
  <2> SUFFICES ASSUME NEW u \in Tasks, NEW q \in Runs, Carrying(task'[u], q),
                      runs'[q].is = "waiting"
               PROVE  Taken(task'[u], runs'[q].on)
    BY DEF TakenFrom, Carries
  <2>1. CASE q = r
    BY <1>2, <2>1
  <2>2. CASE q # r
    <3>1. task'[u] = task[u] /\ Carrying(task[u], q)
      BY <1>2, <2>2
    <3>2. runs'[q] = runs[q]
      BY <1>6, <2>2, <3>1
    <3> QED
      BY <3>1, <3>2 DEF Solo, TakenFrom, Carries
  <2> QED
    BY <2>1, <2>2
<1>9. CarriedIsLive'
  <2> SUFFICES ASSUME NEW u \in Tasks, NEW q \in Runs, Carrying(task'[u], q)
               PROVE  Live(runs'[q])
    BY DEF CarriedIsLive, Carries
  <2>1. CASE q = r
    BY <1>2, <2>1
  <2>2. CASE q # r
    <3>1. task'[u] = task[u] /\ Carrying(task[u], q)
      BY <1>2, <2>2
    <3>2. runs'[q] = runs[q]
      BY <1>6, <2>2, <3>1
    <3> QED
      BY <3>1, <3>2 DEF Solo, CarriedIsLive, Carries
  <2> QED
    BY <2>1, <2>2
<1>10. DriversOwn'
  BY <1>1 DEF Solo, DriversOwn
<1>11. Unpicked'
  <2> SUFFICES ASSUME NEW q \in Runs, recovery'.rows[q] # Absent
               PROVE  /\ runs'[q] = Absent
                      /\ recovery'.rows[q].on \notin Sessions /\ Live(recovery'.rows[q])
                      /\ \A u \in Tasks : task'[u].pc # "idle" => task'[u].run # q
    BY DEF Unpicked
  <2>1. /\ q # r /\ runs[q] = Absent /\ recovery'.rows[q] = recovery.rows[q]
        /\ recovery.rows[q].on \notin Sessions /\ Live(recovery.rows[q])
        /\ \A u \in Tasks : task[u].pc # "idle" => task[u].run # q
    BY DEF Solo, Unpicked
  <2>2. \A u \in Tasks : task'[u].pc # "idle" => task'[u].run # q
    BY <1>1, <2>1
  <2> QED
    BY <2>1, <2>2 DEF Absent
<1>12. Unread'
  BY DEF Unread
<1> QED
  BY <1>3, <1>5, <1>7, <1>8, <1>9, <1>10, <1>11, <1>12 DEF Solo

LEMMA ExecuteSolo ==
    ASSUME Typed, Solo, NEW t \in Tasks, Execute(t)
    PROVE  Solo'
<1> DEFINE x == task[t]
           r == x.run
<1>1. CASE \E s \in Tasks : ExecuteDelay(t, s)
  BY <1>1, DelaySolo
<1>2. ~(\E s \in Tasks : ExecuteDelay(t, s)) =>
        /\ x.pc \in {"execute", "open"}
        /\ UNCHANGED <<runs, recovery>>
        /\ \E next : /\ Becomes(t, next)
                     /\ \/ \E outcome : next = Finishing(x, outcome)
                        \/ \E on : next = Parking(x, on)
                        \/ \E to, ok : next = Stepping(r, x.by, to, ok)
                        \/ next = Working("open", r, x.held, x.by)
  BY DEF Execute, RunsOut, StepMissing, ExecuteEmit, ExecuteEnd, ExecuteCondition,
         ExecuteApproval, ExecuteAction, ExecuteAgent, ExecuteClose, ExecuteOpen, Executes
<1>3. CASE ~(\E s \in Tasks : ExecuteDelay(t, s))
  <2>1. x.pc \in {"execute", "open"} /\ UNCHANGED <<runs, recovery>>
    BY <1>2, <1>3
  <2>2. PICK next : /\ Becomes(t, next)
                    /\ \/ \E outcome : next = Finishing(x, outcome)
                       \/ \E on : next = Parking(x, on)
                       \/ \E to, ok : next = Stepping(r, x.by, to, ok)
                       \/ next = Working("open", r, x.held, x.by)
    BY <1>2, <1>3, Zenon
  <2>3. x.by = "none" /\ r \in Runs
    BY <2>1 DEF Solo, DriversOwn, Drives, Typed, TaskOK, Sound
  <2>4. next.pc \in {"finish", "park", "step", "open"} /\ next.run = r /\ next.by = "none"
    BY <2>2, <2>3 DEF Finishing, Parking, Stepping, Working
  <2>5. \A q \in Runs : Carrying(next, q) => Carrying(x, q)
    BY <2>1, <2>4 DEF Carrying
  <2>6. ~ParksFor(x, "delay")
    BY <2>1 DEF ParksFor
  <2>7. ASSUME NEW q \in Runs, Carrying(next, q), runs[q].is = "waiting"
        PROVE  Taken(next, runs[q].on)
    <3>1. Taken(x, runs[q].on)
      BY <2>5, <2>7 DEF Solo, TakenFrom, Carries
    <3> QED
      BY <2>1, <2>3, <2>4, <3>1 DEF Taken
  <2> QED
    BY <2>1, <2>2, <2>4, <2>5, <2>6, <2>7, TurnSolo
<1> QED
  BY <1>1, <1>3

LEMMA WakeSolo ==
    ASSUME Typed, Solo, NEW t \in Tasks, Wake(t)
    PROVE  Solo'
<1> DEFINE x == task[t]
           r == x.run
           next == Stepping(r, x.by, Graph[runs[r].at].next, runs[r].ok)
<1>1. x.pc = "sleep" /\ r \in Runs /\ UNCHANGED <<runs, recovery>>
  BY DEF Wake, Typed, TaskOK, Sound
<1>2. \/ Becomes(t, Idle)
      \/ Waits(runs[r], "delay") /\ Becomes(t, next)
  BY DEF Wake
<1>3. CASE Becomes(t, Idle)
  <2>1. Idle.pc = "idle" /\ ~Drives(Idle) /\ \A q \in Runs : ~Carrying(Idle, q)
    BY DEF Idle, Working, Drives, Carrying
  <2>2. ~ParksFor(x, "delay")
    BY <1>1 DEF ParksFor
  <2> QED
    BY <1>1, <1>3, <2>1, <2>2, TurnSolo
<1>4. CASE Waits(runs[r], "delay") /\ Becomes(t, next)
  <2>1. \A u \in Tasks : ~Carries(u, r)
    BY <1>1, <1>4 DEF Solo, SleeperWaits, Slept
  <2>2. \A u \in Tasks \ {t} : ~(task[u].pc = "sleep" /\ task[u].run = r)
    BY <1>1 DEF Solo, OneSleeper
  <2>3. next.pc = "step" /\ next.run = r
    BY DEF Stepping
  <2>4. Taken(next, runs[r].on)
    BY <1>4, <2>3, WaitingAssumption DEF Taken, Waits
  <2> QED
    BY <1>1, <1>4, <2>1, <2>2, <2>3, <2>4, TakeSolo DEF Waits
<1> QED
  BY <1>2, <1>3, <1>4

\* What a task does once it has written the row.
LEMMA RecordTurns ==
    ASSUME NEW t \in Tasks, Record(t)
    PROVE  \E next : /\ Becomes(t, next)
                     /\ \/ next = Idle
                        \/ next = Driving(task[t].run)
                           /\ (task[t].pc = "record" => task[t].held.is = "running")
                        \/ /\ next = Working("begin", task[t].run, Absent, task[t].by)
                           /\ task[t].pc = "record" /\ task[t].held.is = "running"
<1> DEFINE x == task[t]
<1>1. x.pc = "record"
  BY DEF Record
<1>2. CASE x.held.is # "running"
  <2>0. x.held # Beginning
    BY <1>2 DEF Beginning
  <2>1. Becomes(t, Idle)
    BY <1>2, <2>0, Zenon DEF Record
  <2> QED
    BY <2>1
<1>3. CASE x.held = Beginning
  <2>1. x.held.is = "running"
    BY <1>3 DEF Beginning
  <2>2. Becomes(t, Working("begin", x.run, Absent, x.by))
    BY <1>3, <2>1, Zenon DEF Record
  <2> QED
    BY <1>1, <2>1, <2>2
<1>4. CASE x.held.is = "running" /\ x.held # Beginning
  <2>1. Becomes(t, Driving(x.run))
    BY <1>4, Zenon DEF Record
  <2> QED
    BY <1>4, <2>1
<1> QED
  BY <1>2, <1>3, <1>4

LEMMA CarrySolo ==
    ASSUME Typed, Solo, NEW t \in Tasks, Carry(t)
    PROVE  Solo'
<1> DEFINE x == task[t]
           r == x.run
<1>1. Idle.pc = "idle" /\ ~Drives(Idle) /\ \A q \in Runs : ~Carrying(Idle, q)
  BY DEF Idle, Working, Drives, Carrying
<1>2. x.pc # "idle" => r \in Runs
  BY DEF Typed, TaskOK, Sound
<1>3. Carrying(x, r) /\ r \in Runs => Live(runs[r])
  BY DEF Solo, CarriedIsLive, Carries
<1>4. Carrying(x, r) /\ r \in Runs /\ runs[r].is = "waiting" => Taken(x, runs[r].on)
  BY DEF Solo, TakenFrom, Carries
<1>5. CASE Advance(t)
  <2> DEFINE next == Working("execute", r, runs[r], x.by)
  <2>1. x.pc = "loop" /\ UNCHANGED <<runs, recovery>> /\ r \in Runs
    BY <1>2, <1>5 DEF Advance
  <2>2. Becomes(t, next)
    BY <1>3, <1>5, <2>1 DEF Advance, Carrying
  <2>3. x.by = "none"
    BY <2>1 DEF Solo, DriversOwn, Drives
  <2>4. next.pc = "execute" /\ next.run = r /\ next.by = "none"
    BY <2>3 DEF Working
  <2>5. \A q \in Runs : Carrying(next, q) => q = r /\ Carrying(x, q)
    BY <2>1, <2>4 DEF Carrying
  <2>6. \A q \in Runs : Carrying(next, q) /\ runs[q].is = "waiting" => Taken(next, runs[q].on)
    BY <1>4, <2>1, <2>3, <2>4, <2>5 DEF Taken
  <2>7. ~ParksFor(x, "delay")
    BY <2>1 DEF ParksFor
  <2> QED
    BY <2>1, <2>2, <2>4, <2>5, <2>6, <2>7, TurnSolo
<1>6. CASE Execute(t)
  BY <1>6, ExecuteSolo
<1>7. CASE StepTo(t)
  <2> DEFINE next == Holding(x, Moved(runs[r], x.to, x.ok))
  <2>1. x.pc = "step" /\ UNCHANGED <<runs, recovery>> /\ r \in Runs
    BY <1>2, <1>7 DEF StepTo
  <2>2. Becomes(t, next)
    BY <1>3, <1>7, <2>1 DEF StepTo, Carrying
  <2>3. /\ next.pc = "insert" /\ next.run = r /\ next.by = x.by
        /\ next.held.is = "running"
    BY DEF Holding, Working, Moved
  <2>4. \A q \in Runs : Carrying(next, q) => q = r /\ Carrying(x, q)
    BY <2>1, <2>3 DEF Carrying
  <2>5. \A q \in Runs : Carrying(next, q) /\ runs[q].is = "waiting" => Taken(next, runs[q].on)
    BY <1>4, <2>1, <2>3, <2>4 DEF Taken
  <2>6. ~ParksFor(x, "delay") /\ ~Drives(next)
    BY <2>1, <2>3 DEF ParksFor, Drives
  <2> QED
    BY <2>1, <2>2, <2>3, <2>4, <2>5, <2>6, TurnSolo
<1>8. CASE Park(t)
  <2> DEFINE next == Holding(x, Parked(runs[r], x.on))
  <2>1. x.pc = "park" /\ UNCHANGED <<runs, recovery>> /\ r \in Runs
    BY <1>2, <1>8 DEF Park
  <2>2. Becomes(t, next)
    BY <1>3, <1>8, <2>1 DEF Park, Carrying
  <2>3. x.by = "none"
    BY <2>1 DEF Solo, DriversOwn, Drives
  <2>4. /\ next.pc = "insert" /\ next.run = r /\ next.by = "none"
        /\ next.held.is = "waiting" /\ next.held.on = x.on
    BY <2>3 DEF Holding, Working, Parked
  <2>5. \A q \in Runs : Carrying(next, q) => q = r /\ Carrying(x, q)
    BY <2>1, <2>4 DEF Carrying
  <2>6. ASSUME NEW q \in Runs, Carrying(next, q), runs[q].is = "waiting"
        PROVE  Taken(next, runs[q].on)
    <3>1. Taken(x, runs[q].on)
      BY <1>4, <2>1, <2>5, <2>6
    <3> QED
      BY <2>1, <2>3, <2>4, <3>1 DEF Taken
  <2>7. ParksFor(x, "delay") => ParksFor(next, "delay")
    BY <2>1, <2>4 DEF ParksFor
  <2> QED
    BY <2>1, <2>2, <2>4, <2>5, <2>6, <2>7, TurnSolo
<1>9. CASE Finish(t)
  <2> DEFINE next == Holding(x, Ended(runs[r], x.on))
  <2>1. x.pc = "finish" /\ UNCHANGED <<runs, recovery>> /\ r \in Runs
    BY <1>2, <1>9 DEF Finish
  <2>2. Becomes(t, next)
    BY <1>3, <1>9, <2>1 DEF Finish, Carrying, Live
  <2>3. x.by = "none"
    BY <2>1 DEF Solo, DriversOwn, Drives
  <2>4. next.pc = "insert" /\ next.run = r /\ next.by = "none" /\ next.held.is = "finished"
    BY <2>3 DEF Holding, Working, Ended
  <2>5. \A q \in Runs : Carrying(next, q) => q = r /\ Carrying(x, q)
    BY <2>1, <2>4 DEF Carrying
  <2>6. ASSUME NEW q \in Runs, Carrying(next, q), runs[q].is = "waiting"
        PROVE  Taken(next, runs[q].on)
    <3>1. Taken(x, runs[q].on)
      BY <1>4, <2>1, <2>5, <2>6
    <3> QED
      BY <2>1, <2>3, <2>4, <3>1 DEF Taken
  <2>7. ~ParksFor(x, "delay")
    BY <2>1 DEF ParksFor
  <2> QED
    BY <2>1, <2>2, <2>4, <2>5, <2>6, <2>7, TurnSolo
<1>10. CASE Insert(t)
  BY <1>10, InsertSolo
<1>11. CASE Record(t) \/ Begin(t)
  <2>1. x.pc \in {"record", "begin"} /\ UNCHANGED <<runs, recovery>> /\ r \in Runs
    BY <1>2, <1>11 DEF Record, Begin
  <2>2. PICK next : /\ Becomes(t, next)
                    /\ \/ next = Idle
                       \/ next = Driving(r) /\ (x.pc = "record" => x.held.is = "running")
                       \/ /\ next = Working("begin", r, Absent, x.by)
                          /\ x.pc = "record" /\ x.held.is = "running"
    <3>1. CASE Begin(t)
      BY <2>1, <3>1 DEF Begin
    <3>2. CASE Record(t)
      BY <3>2, RecordTurns
    <3> QED
      BY <1>11, <3>1, <3>2
  <2>3. /\ next.pc \in {"idle", "loop", "begin"}
        /\ next.pc # "idle" => next.run = r
        /\ Drives(next) => next.by = "none"
    BY <2>2 DEF Idle, Driving, Working, Drives
  <2>4. next.pc # "idle" => x.pc = "begin" \/ x.held.is = "running"
    BY <2>1, <2>2 DEF Idle, Working
  <2>5. \A q \in Runs : Carrying(next, q) => q = r /\ Carrying(x, q)
    BY <2>1, <2>3, <2>4 DEF Carrying
  <2>6. \A q \in Runs : Carrying(next, q) => runs[q].is # "waiting"
    BY <1>4, <2>1, <2>5 DEF Taken
  <2>7. ~ParksFor(x, "delay")
    BY <2>1 DEF ParksFor
  <2> QED
    BY <2>1, <2>2, <2>3, <2>5, <2>6, <2>7, TurnSolo
<1>12. CASE Wake(t)
  BY <1>12, WakeSolo
<1> QED
  BY <1>5, <1>6, <1>7, <1>8, <1>9, <1>10, <1>11, <1>12 DEF Carry

\* What is heard of a worker moves on a run that nobody is on.
LEMMA ReleasedSolo ==
    ASSUME Typed, Solo, NEW t \in Tasks, NEW worker \in Sessions \cup Terminals, NEW ok,
           NEW by, Released(t, worker, ok, by), task[t].pc = "idle",
           UNCHANGED <<runs, recovery, disk>>,
           worker \in Sessions => by = "agents",
           \A r \in Runs : Waits(runs[r], worker) => \A u \in Tasks : ~Carries(u, r)
    PROVE  Solo'
<1>1. CASE UNCHANGED task
  <2>1. runs' = runs /\ recovery' = recovery /\ disk' = disk /\ task' = task
    BY <1>1
  <2> QED
    BY <2>1 DEF Solo, OneDriver, OneSleeper, SleeperWaits, Slept, TakenFrom, CarriedIsLive,
                DriversOwn, Unpicked, Unread, Carries
<1>2. CASE ~UNCHANGED task
  <2>1. PICK r \in Runs : /\ Waits(runs[r], worker)
                          /\ \E to : Becomes(t, Stepping(r, by, to, ok))
    BY <1>2 DEF Released
  <2>2. PICK to : Becomes(t, Stepping(r, by, to, ok))
    BY <2>1
  <2> DEFINE next == Stepping(r, by, to, ok)
  <2>3. next.pc = "step" /\ next.run = r /\ next.by = by
    BY DEF Stepping
  <2>4. runs[r].is = "waiting" /\ runs[r].on = worker /\ ~Waits(runs[r], "delay")
    BY <2>1, WaitingAssumption DEF Waits
  <2>5. \A u \in Tasks : ~Carries(u, r)
    BY <2>1
  <2>6. \A u \in Tasks \ {t} : ~(task[u].pc = "sleep" /\ task[u].run = r)
    BY <2>4, <2>5, NobodySleeps
  <2>7. Taken(next, runs[r].on)
    BY <2>3, <2>4, WaitingAssumption DEF Taken
  <2> HIDE DEF next
  <2>8. Becomes(t, next)
    BY <2>2 DEF next
  <2> QED
    BY <2>3, <2>4, <2>5, <2>6, <2>7, <2>8, TakeSolo
<1> QED
  BY <1>1, <1>2

LEMMA NewsSolo ==
    ASSUME Typed, Solo, ExitsAreOwn, NEW t \in Tasks, AgentFinished(t) \/ TerminalFinished(t)
    PROVE  Solo'
<1>1. /\ agentNews \in Seq([session: Sessions,
                             state: {"completed", "failed", "waiting_approval"}])
      /\ termNews \in Seq([terminal: Terminals, ok: BOOLEAN])
  BY DEF Typed, TypeOK
<1>2. CASE AgentFinished(t)
  <2> DEFINE worker == Head(agentNews).session
             ok == Head(agentNews).state = "completed"
  <2>1. worker \in Sessions
    <3>1. agentNews # <<>>
      BY <1>2 DEF AgentFinished
    <3>2. Head(agentNews) \in [session: Sessions,
                             state: {"completed", "failed", "waiting_approval"}]
      BY <1>1, <3>1, HeadTailProperties
    <3> QED
      BY <3>2
  <2>2. Released(t, worker, ok, "agents") /\ task[t].pc = "idle" /\ ~Busy("agents")
    BY <1>2 DEF AgentFinished, Free
  <2>3. UNCHANGED <<runs, recovery, disk>>
    BY <1>2 DEF AgentFinished, store
  <2> HIDE DEF worker, ok
  <2>4. ASSUME NEW r \in Runs, Waits(runs[r], worker), NEW u \in Tasks, Carries(u, r)
        PROVE  FALSE
    <3>1. Taken(task[u], worker)
      BY <2>4 DEF Solo, TakenFrom, Waits
    <3> QED
      BY <2>1, <2>2, <3>1 DEF Taken, Busy
  <2> QED
    BY <2>1, <2>2, <2>3, <2>4, ReleasedSolo
<1>3. CASE TerminalFinished(t)
  <2> DEFINE worker == Head(termNews).terminal
             ok == Head(termNews).ok
  <2>1. termNews # <<>> /\ worker \in Terminals /\ 1 \in DOMAIN termNews
        /\ worker = termNews[1].terminal
    <3>1. termNews # <<>>
      BY <1>3 DEF TerminalFinished
    <3>2. Head(termNews) \in [terminal: Terminals, ok: BOOLEAN]
      BY <1>1, <3>1, HeadTailProperties
    <3>3. 1 \in DOMAIN termNews /\ Head(termNews) = termNews[1]
      BY <1>1, <3>1
    <3> QED
      BY <3>1, <3>2, <3>3
  <2>2. Released(t, worker, ok, "terminals") /\ task[t].pc = "idle" /\ ~Busy("terminals")
    BY <1>3 DEF TerminalFinished, Free
  <2>3. UNCHANGED <<runs, recovery, disk>>
    BY <1>3 DEF TerminalFinished, store
  <2> HIDE DEF worker, ok
  <2>4. ASSUME NEW r \in Runs, Waits(runs[r], worker), NEW u \in Tasks, Carries(u, r)
        PROVE  FALSE
    <3>1. runs[r].is = "waiting" /\ runs[r].on = worker
      BY <2>4 DEF Waits
    <3>2. task[u].by # "terminals"
      BY <2>2 DEF Busy
    <3> QED
      BY <2>1, <2>4, <3>1, <3>2 DEF ExitsAreOwn
  <2>5. worker \notin Sessions
    BY <2>1, WaitingAssumption
  <2> QED
    BY <2>1, <2>2, <2>3, <2>4, <2>5, ReleasedSolo
<1> QED
  BY <1>2, <1>3

LEMMA OperatorSolo ==
    ASSUME Typed, Solo, NothingCancels, RowsComeFirst, OneCallAtATime, Operator
    PROVE  Solo'
<1>1. ASSUME NEW t \in Tasks, CallDropped(t)
      PROVE  Solo'
  <2>1. task[t].by = "operator" /\ Becomes(t, Idle) /\ UNCHANGED <<runs, recovery>>
    BY <1>1 DEF CallDropped
  <2>2. Idle.pc = "idle" /\ ~Drives(Idle) /\ \A q \in Runs : ~Carrying(Idle, q)
    BY DEF Idle, Working, Drives, Carrying
  <2>3. CASE task[t].pc # "idle"
    <3>1. ~ParksFor(task[t], "delay")
      BY <2>1 DEF Solo, DriversOwn, Drives, ParksFor
    <3> QED
      BY <2>1, <2>2, <2>3, <3>1, TurnSolo
  <2>4. CASE task[t].pc = "idle"
    <3>1. /\ \A u \in Tasks, q \in Runs : Carrying(task'[u], q) <=> Carrying(task[u], q)
          /\ \A u \in Tasks : task'[u].pc # "idle" => task'[u] = task[u]
          /\ \A u \in Tasks : task[u].pc # "idle" => task'[u] = task[u]
          /\ task'[t].by = "none"
          /\ runs' = runs /\ recovery' = recovery
      BY <2>1, <2>2, <2>4 DEF Becomes, Typed, TypeOK, Carrying, Idle, Working
    <3> HIDE DEF Becomes
    <3>2. OneDriver' /\ OneSleeper' /\ CarriedIsLive'
      BY <3>1 DEF Solo, OneDriver, OneSleeper, CarriedIsLive, Carries
    <3>3. SleeperWaits'
      <4>1. ASSUME NEW q \in Runs, Slept(q)
            PROVE  Slept(q)'
        <5>1. CASE Waits(runs[q], "delay") /\ \A v \in Tasks : ~Carrying(task[v], q)
          BY <3>1, <5>1 DEF Slept, Carries
        <5>2. ASSUME ~Waits(runs[q], "delay"), NEW v \in Tasks, Carrying(task[v], q),
                     ParksFor(task[v], "delay")
              PROVE  Slept(q)'
          <6>1. task'[v] = task[v]
            BY <3>1, <5>2 DEF Carrying
          <6> QED
            BY <3>1, <5>2, <6>1 DEF Slept, Carries
        <5> QED
          BY <4>1, <5>1, <5>2 DEF Slept, Carries
      <4>2. \A u \in Tasks : task'[u].pc = "sleep" => task'[u] = task[u]
        BY <3>1
      <4> QED
        BY <4>1, <4>2 DEF Solo, SleeperWaits
    <3>4. TakenFrom'
      <4>1. \A u \in Tasks, q \in Runs : Carrying(task'[u], q) => task'[u] = task[u]
        BY <3>1 DEF Carrying
      <4> QED
        BY <3>1, <4>1 DEF Solo, TakenFrom, Carries
    <3>5. DriversOwn'
      <4>1. \A u \in Tasks : Drives(task'[u]) => task'[u] = task[u]
        BY <3>1 DEF Drives
      <4> QED
        BY <4>1 DEF Solo, DriversOwn
    <3>6. Unpicked' /\ Unread'
      <4>1. Unpicked'
        BY <3>1 DEF Solo, Unpicked
      <4>2. disk' = disk \/ recovery.read
        BY <1>1, <2>4 DEF CallDropped
      <4>3. Unread'
        BY <3>1, <4>2 DEF Solo, Unread
      <4> QED
        BY <4>1, <4>3
    <3> QED
      BY <3>2, <3>3, <3>4, <3>5, <3>6 DEF Solo
  <2> QED
    BY <2>3, <2>4
<1>2. ASSUME NEW t \in Tasks, NEW r \in Runs, StartRun(t, r)
      PROVE  Solo'
  <2> DEFINE next == Working("record", r, Beginning, "operator")
  <2>1. /\ task[t].pc = "idle" /\ Fresh(r) /\ Recovered /\ Becomes(t, next)
        /\ Remembered(r, Beginning) /\ recovery' = recovery
    BY <1>2 DEF StartRun, Called, Free, RowsComeFirst
  <2>2. /\ Beginning \in Run /\ Beginning.is = "running"
        /\ next.pc = "record" /\ next.run = r
    BY RecordLemma DEF Beginning, Working
  <2>3. /\ \A q \in Runs \ {r} : \/ runs'[q] = runs[q]
                                 \/ runs[q].is = "finished" /\ runs'[q] = Absent
        /\ runs'[r] = Beginning
    BY <2>1, <2>2, RememberedOthers DEF Typed
  <2>4. task'[t] = next /\ \A u \in Tasks \ {t} : task'[u] = task[u]
    BY <2>1 DEF Becomes, Typed, TypeOK
  <2>5. /\ recovery.read
        /\ recovery.rows[r] = Absent
        /\ \A u \in Tasks : task[u].run # r
    BY <2>1 DEF Recovered, Fresh
  <2>6. Live(runs'[r]) /\ runs'[r].is # "waiting" /\ ~Drives(next)
    BY <2>2, <2>3 DEF Live, Drives
  <2> HIDE DEF next
  <2> QED
    BY <2>1, <2>2, <2>3, <2>4, <2>5, <2>6, EnterSolo
<1>3. ASSUME NEW t \in Tasks, NEW r \in Runs, NEW allow \in BOOLEAN, Answer(t, r, allow)
      PROVE  Solo'
  <2> DEFINE to == IF allow THEN Graph[runs[r].at].next ELSE Graph[runs[r].at].alt
             next == Stepping(r, "operator", to, allow)
  <2>1. /\ task[t].pc = "idle" /\ Calls < MaxCalls /\ Becomes(t, next)
        /\ Waits(runs[r], "approval") /\ UNCHANGED <<runs, recovery>>
    BY <1>3 DEF Answer, Called, Free
  <2>2. \A u \in Tasks : task[u].by # "operator"
    BY <2>1, NoCallElse
  <2>3. ~Waits(runs[r], "delay") /\ runs[r].is = "waiting" /\ runs[r].on = "approval"
    BY <2>1 DEF Waits
  <2>4. \A u \in Tasks : ~Carries(u, r)
    BY <2>2, <2>3 DEF Solo, TakenFrom, Taken
  <2>5. \A u \in Tasks \ {t} : ~(task[u].pc = "sleep" /\ task[u].run = r)
    BY <2>3, <2>4, NobodySleeps
  <2>6. next.pc = "step" /\ next.run = r /\ next.by = "operator"
    BY DEF Stepping
  <2>7. Taken(next, runs[r].on)
    BY <2>3, <2>6, WaitingAssumption DEF Taken
  <2> HIDE DEF next
  <2> QED
    BY <2>1, <2>3, <2>4, <2>5, <2>6, <2>7, TakeSolo
<1> QED
  BY <1>1, <1>2, <1>3 DEF Operator, Cancel, NothingCancels

\* resume has read what was unfinished, and nothing is going on yet.
LEMMA ReadSolo ==
    ASSUME Typed, Solo, ReadUnfinished
    PROVE  Solo'
<1>1. ~recovery.read /\ UNCHANGED <<runs, task, disk>>
  BY DEF ReadUnfinished, store
<1>2. /\ \A t \in Tasks : task[t].pc = "idle"
      /\ \A r \in Runs : /\ runs[r] = Absent /\ recovery.rows[r] = Absent
                         /\ disk[r].on \notin Sessions
  BY <1>1 DEF Solo, Unread
<1>3. recovery'.read = TRUE
      /\ \A r \in Runs : \/ recovery'.rows[r] = Absent
                         \/ recovery'.rows[r] = disk[r] /\ Live(disk[r])
  <2>1. CASE recovery' = [read |-> TRUE,
                          rows |-> [r \in Runs |-> IF Live(disk[r]) THEN disk[r] ELSE Absent]]
    BY <2>1
  <2>2. CASE recovery' = [read |-> TRUE, rows |-> recovery.rows]
    BY <1>2, <2>2
  <2> QED
    BY <2>1, <2>2 DEF ReadUnfinished
<1>4. Unpicked'
  <2> SUFFICES ASSUME NEW r \in Runs, recovery'.rows[r] # Absent
               PROVE  /\ runs'[r] = Absent
                      /\ recovery'.rows[r].on \notin Sessions /\ Live(recovery'.rows[r])
                      /\ \A t \in Tasks : task'[t].pc # "idle" => task'[t].run # r
    BY DEF Unpicked
  <2> QED
    BY <1>1, <1>2, <1>3
<1>5. Unread'
  BY <1>3 DEF Unread
<1>6. OneDriver' /\ OneSleeper' /\ SleeperWaits' /\ TakenFrom' /\ CarriedIsLive' /\ DriversOwn'
  <2>1. task' = task /\ runs' = runs
    BY <1>1
  <2> QED
    BY <2>1 DEF Solo, OneDriver, OneSleeper, SleeperWaits, Slept, TakenFrom, CarriedIsLive,
                DriversOwn, Carries
<1> QED
  BY <1>4, <1>5, <1>6 DEF Solo

LEMMA ResumeSolo ==
    ASSUME Typed, Solo, Resume
    PROVE  Solo'
<1>1. CASE ReadUnfinished
  BY <1>1, ReadSolo
<1>2. ASSUME NEW r \in Runs, PicksUp(r)
      PROVE  /\ recovery.rows[r] # Absent /\ recovery.read
             /\ recovery'.read = recovery.read /\ recovery'.rows[r] = Absent
             /\ \A q \in Runs \ {r} : recovery'.rows[q] = recovery.rows[q]
             /\ \A u \in Tasks : task[u].pc # "idle" => task[u].run # r
             /\ recovery.rows[r].on \notin Sessions /\ Live(recovery.rows[r])
             /\ recovery.rows[r] \in Run
  <2>1. /\ recovery.rows[r] # Absent
        /\ recovery' = [read |-> recovery.read, rows |-> [recovery.rows EXCEPT ![r] = Absent]]
        /\ recovery.rows \in [Runs -> Run] /\ recovery.read \in BOOLEAN
    BY <1>2 DEF PicksUp, Typed, TypeOK
  <2>2. recovery.read
    BY <2>1 DEF Solo, Unread
  <2>3. /\ \A u \in Tasks : task[u].pc # "idle" => task[u].run # r
        /\ recovery.rows[r].on \notin Sessions /\ Live(recovery.rows[r])
    BY <2>1 DEF Solo, Unpicked
  <2>4. /\ recovery'.read = recovery.read /\ recovery'.rows[r] = Absent
        /\ \A q \in Runs \ {r} : recovery'.rows[q] = recovery.rows[q]
    BY <2>1
  <2> QED
    BY <2>1, <2>2, <2>3, <2>4
<1>3. ASSUME NEW r \in Runs, PickUpApproval(r)
      PROVE  Solo'
  <2>1. /\ PicksUp(r) /\ runs' = [runs EXCEPT ![r] = recovery.rows[r]] /\ task' = task
    BY <1>3 DEF PickUpApproval
  <2>2. \A q \in Runs \ {r} : runs'[q] = runs[q]
    BY <2>1 DEF Typed, TypeOK
  <2>3. Idle.pc = "idle" /\ ~Drives(Idle) /\ ~Carrying(Idle, r)
    BY DEF Idle, Working, Drives, Carrying
  <2>4. /\ recovery.read /\ recovery'.read = recovery.read /\ recovery'.rows[r] = Absent
        /\ \A q \in Runs \ {r} : recovery'.rows[q] = recovery.rows[q]
        /\ \A u \in Tasks : task[u].pc # "idle" => task[u].run # r
    BY <1>2, <2>1
  <2> QED
    BY <2>1, <2>2, <2>3, <2>4, EnterSolo
<1>4. ASSUME NEW t \in Tasks, NEW r \in Runs, NEW next, PicksUp(r), task[t].pc = "idle",
             runs' = [runs EXCEPT ![r] = recovery.rows[r]], Becomes(t, next),
             next.run = r, next.by = "none",
             \/ next.pc = "loop" /\ ~Waits(recovery.rows[r], "approval")
                                 /\ ~Waits(recovery.rows[r], "delay")
             \/ next.pc = "sleep" /\ Waits(recovery.rows[r], "delay")
      PROVE  Solo'
  <2>1. /\ recovery.read /\ recovery'.read = recovery.read /\ recovery'.rows[r] = Absent
        /\ \A q \in Runs \ {r} : recovery'.rows[q] = recovery.rows[q]
        /\ \A u \in Tasks : task[u].pc # "idle" => task[u].run # r
        /\ recovery.rows[r].on \notin Sessions /\ Live(recovery.rows[r])
    BY <1>2, <1>4
  <2>2. runs'[r] = recovery.rows[r] /\ \A q \in Runs \ {r} : runs'[q] = runs[q]
    BY <1>4 DEF Typed, TypeOK
  <2>3. task'[t] = next /\ \A u \in Tasks \ {t} : task'[u] = task[u]
    BY <1>4 DEF Becomes, Typed, TypeOK
  <2>4. next.pc = "sleep" => Waits(runs'[r], "delay")
    BY <1>4, <2>2
  <2>5. Carrying(next, r) /\ runs'[r].is = "waiting" => Taken(next, runs'[r].on)
    BY <1>4, <2>1, <2>2 DEF Taken, Waits, Carrying
  <2> QED
    BY <1>4, <2>1, <2>2, <2>3, <2>4, <2>5, EnterSolo
<1>5. ASSUME NEW t \in Tasks, NEW r \in Runs, PickUpStep(t, r) \/ PickUpDelay(t, r)
      PROVE  Solo'
  <2>1. /\ Driving(r).pc = "loop" /\ Driving(r).run = r /\ Driving(r).by = "none"
        /\ Sleeping(r).pc = "sleep" /\ Sleeping(r).run = r /\ Sleeping(r).by = "none"
    BY DEF Driving, Sleeping, Working
  <2> QED
    BY <1>4, <1>5, <2>1 DEF PickUpStep, PickUpDelay, Free
<1>6. ASSUME NEW t \in Tasks, NEW r \in Runs, PickUpGone(t, r)
      PROVE  Solo'
  <2> DEFINE run == Ended(recovery.rows[r], "failed")
             next == Working("record", r, run, "resume")
  <2>1. PicksUp(r) /\ task[t].pc = "idle" /\ Remembered(r, run) /\ Becomes(t, next)
    BY <1>6 DEF PickUpGone, Free
  <2>2. /\ recovery.read /\ recovery'.read = recovery.read /\ recovery'.rows[r] = Absent
        /\ \A q \in Runs \ {r} : recovery'.rows[q] = recovery.rows[q]
        /\ \A u \in Tasks : task[u].pc # "idle" => task[u].run # r
        /\ recovery.rows[r] \in Run
    BY <1>2, <2>1
  <2>3. run \in Run
    BY <2>2, RecordLemma DEF Outcomes
  <2>4. next.pc = "record" /\ next.run = r /\ ~Drives(next) /\ ~Carrying(next, r)
    BY DEF Working, Drives, Carrying, Ended
  <2> HIDE DEF run, next
  <2>5. \A q \in Runs \ {r} : \/ runs'[q] = runs[q]
                              \/ runs[q].is = "finished" /\ runs'[q] = Absent
    BY <2>1, <2>3, RememberedOthers DEF Typed
  <2>6. task'[t] = next /\ \A u \in Tasks \ {t} : task'[u] = task[u]
    BY <2>1 DEF Becomes, Typed, TypeOK
  <2> QED
    BY <2>1, <2>2, <2>4, <2>5, <2>6, EnterSolo
<1> QED
  BY <1>1, <1>3, <1>5, <1>6 DEF Resume

LEMMA IdleCarriesNothing ==
    Idle.pc = "idle" /\ ~Drives(Idle) /\ \A r : ~Carrying(Idle, r)
BY DEF Idle, Working, Drives, Carrying

LEMMA EnvironmentSolo ==
    ASSUME Typed, Solo, Environment
    PROVE  Solo'
<1>1. CASE Crash
  <2>1. /\ \A t \in Tasks : task'[t] = Idle
        /\ \A r \in Runs : runs'[r] = Absent /\ recovery'.rows[r] = Absent
    BY <1>1 DEF Crash
  <2>2. \A r \in Runs : disk'[r].on \notin Sessions
    <3> SUFFICES ASSUME NEW r \in Runs
                 PROVE  disk'[r].on \notin Sessions
      OBVIOUS
    <3>1. disk[r] \in Run
      BY DEF Typed, TypeOK
    <3>2. disk'[r] = IF disk[r].on \in Sessions
                     THEN [disk[r] EXCEPT !.on = "lost session"] ELSE disk[r]
      BY <1>1 DEF Crash
    <3> QED
      BY <3>1, <3>2, WaitingAssumption DEF Run
  <2>3. \A t \in Tasks : task'[t].pc = "idle" /\ ~Drives(task'[t])
                       /\ \A r \in Runs : ~Carrying(task'[t], r)
    BY <2>1, IdleCarriesNothing
  <2> QED
    BY <2>1, <2>2, <2>3 DEF Solo, OneDriver, OneSleeper, SleeperWaits, TakenFrom,
                            CarriedIsLive, DriversOwn, Unpicked, Unread, Carries
<1>2. CASE UNCHANGED <<runs, task, disk, recovery>>
  <2>1. runs' = runs /\ task' = task /\ disk' = disk /\ recovery' = recovery
    BY <1>2
  <2> QED
    BY <2>1 DEF Solo, OneDriver, OneSleeper, SleeperWaits, Slept, TakenFrom, CarriedIsLive,
                DriversOwn, Unpicked, Unread, Carries
<1>3. Crash \/ UNCHANGED <<runs, task, disk, recovery>>
  BY DEF Environment, AgentAsks, TurnEnds, ProcessExits, TimePasses, store
<1> QED
  BY <1>1, <1>2, <1>3

LEMMA InitSolo == Init => Solo
<1> SUFFICES ASSUME Init PROVE Solo
  OBVIOUS
<1>1. \A t \in Tasks : task[t].pc = "idle" /\ ~Drives(task[t])
                       /\ \A r \in Runs : ~Carrying(task[t], r)
  BY IdleCarriesNothing DEF Init
<1>2. \A r \in Runs : /\ runs[r] = Absent /\ recovery.rows[r] = Absent
                      /\ disk[r].on \notin Sessions
  <2>1. Absent.on = None /\ None \notin Sessions
    BY ConstantsAssumption DEF Absent
  <2> QED
    BY <2>1 DEF Init
<1> QED
  BY <1>1, <1>2 DEF Solo, OneDriver, OneSleeper, SleeperWaits, TakenFrom,
                    CarriedIsLive, DriversOwn, Unpicked, Unread, Carries

\* Nobody comes to be on a run somebody is on.
LEMMA NextSolo ==
    ASSUME Typed, Solo, ExitsAreOwn, NothingCancels, RowsComeFirst, OneCallAtATime,
           [Next]_vars
    PROVE  Solo'
<1>1. CASE UNCHANGED vars
  <2>1. runs' = runs /\ task' = task /\ disk' = disk /\ recovery' = recovery
    BY <1>1 DEF vars, store
  <2> QED
    BY <2>1 DEF Solo, OneDriver, OneSleeper, SleeperWaits, Slept, TakenFrom, CarriedIsLive,
                DriversOwn, Unpicked, Unread, Carries
<1>2. CASE Next
  BY <1>2, CarrySolo, NewsSolo, ResumeSolo, OperatorSolo, EnvironmentSolo DEF Next
<1> QED
  BY <1>1, <1>2

\* A step that leaves the terminals alone: whoever carries a waiting run was
\* there before, or works for the terminals, or nothing runs.
LEMMA EntriesStay ==
    ASSUME Typed, EnteredAlone, UNCHANGED <<proc, termNews>>,
           \A t \in Tasks, r \in Runs :
               Carrying(task'[t], r) /\ runs'[r].is = "waiting" /\ runs'[r].on \in Terminals =>
                 \/ task'[t].by = "terminals"
                 \/ /\ Carrying(task[t], r) /\ runs[r] = runs'[r]
                    /\ task'[t].by = task[t].by
                    /\ ParksFor(task[t], runs[r].on) => ParksFor(task'[t], runs[r].on)
                 \/ MaxCrashes # 0 /\ NothingRuns
    PROVE  EnteredAlone'
<1>1. proc' = proc /\ termNews' = termNews
  OBVIOUS
<1> SUFFICES ASSUME NEW t \in Tasks, NEW r \in Runs,
                    Carrying(task'[t], r), runs'[r].is = "waiting", runs'[r].on \in Terminals,
                    NEW x, x = task'[t], NEW p, p = runs'[r].on
             PROVE  Alone(x, p)'
  BY DEF EnteredAlone, Carries, Alone, Unheard, OpenedBy
<1>2. CASE x.by = "terminals"
  BY <1>2 DEF Alone
<1>3. CASE MaxCrashes # 0 /\ NothingRuns
  BY <1>1, <1>3 DEF Alone, NothingRuns, Unheard, OpenedBy
<1>4. CASE /\ Carrying(task[t], r) /\ runs[r] = runs'[r] /\ x.by = task[t].by
           /\ ParksFor(task[t], p) => ParksFor(x, p)
  <2>1. Alone(task[t], p)
    BY <1>4 DEF EnteredAlone, Carries
  <2> QED
    BY <1>1, <1>4, <2>1 DEF Alone, Unheard, OpenedBy
<1> QED
  BY <1>2, <1>3, <1>4

\* What resume has read is no more than it was, and the rows it has not read are
\* the ones that were there.
LEMMA QuietStays ==
    ASSUME PickedUpQuietly, UNCHANGED <<crashes, proc, termNews>>,
           \A r \in Runs : recovery'.rows[r] # Absent => recovery.rows[r] # Absent,
           recovery'.read \/ (~recovery.read /\ disk' = disk)
    PROVE  PickedUpQuietly'
<1>1. crashes' = crashes /\ proc' = proc /\ termNews' = termNews
  OBVIOUS
<1>2. NothingRuns => NothingRuns'
  BY <1>1 DEF NothingRuns
<1> QED
  BY <1>1, <1>2 DEF PickedUpQuietly

\* Once somebody works, resume has read the rows.
LEMMA WorkedIsRead ==
    ASSUME Solo, NEW t \in Tasks, task[t].pc # "idle"
    PROVE  recovery.read
BY DEF Solo, Unread

\* A task that goes on with its run works for whom it worked.
LEMMA TurnEntries ==
    ASSUME Typed, Solo, Entries, NEW t \in Tasks, NEW next, Becomes(t, next),
           UNCHANGED <<runs, recovery, proc, termNews, crashes>>, task[t].pc # "idle",
           \A r \in Runs : Carrying(next, r) /\ runs[r].is = "waiting"
                             /\ runs[r].on \in Terminals =>
                \/ next.by = "terminals"
                \/ /\ Carrying(task[t], r) /\ next.by = task[t].by
                   /\ ParksFor(task[t], runs[r].on) => ParksFor(next, runs[r].on)
    PROVE  Entries'
<1>1. task'[t] = next /\ \A u \in Tasks \ {t} : task'[u] = task[u]
  BY DEF Becomes, Typed, TypeOK
<1>2. runs' = runs /\ recovery' = recovery /\ recovery.read
  BY WorkedIsRead
<1>3. ASSUME NEW u \in Tasks, NEW r \in Runs, Carrying(task'[u], r),
             runs'[r].is = "waiting", runs'[r].on \in Terminals
      PROVE  \/ task'[u].by = "terminals"
             \/ /\ Carrying(task[u], r) /\ runs[r] = runs'[r]
                /\ task'[u].by = task[u].by
                /\ ParksFor(task[u], runs[r].on) => ParksFor(task'[u], runs[r].on)
  <2>1. CASE u = t
    BY <1>1, <1>2, <1>3, <2>1
  <2>2. CASE u # t
    BY <1>1, <1>2, <1>3, <2>2
  <2> QED
    BY <2>1, <2>2
<1>4. EnteredAlone'
  BY <1>3, EntriesStay DEF Entries
<1>5. PickedUpQuietly'
  BY <1>2, QuietStays DEF Entries
<1> QED
  BY <1>4, <1>5 DEF Entries

\* Putting a copy back in the map.
LEMMA InsertEntries ==
    ASSUME Typed, Solo, Entries, NEW t \in Tasks, Insert(t)
    PROVE  Entries'
<1> DEFINE x == task[t]
           r == x.run
<1>1. /\ x.pc = "insert" /\ r \in Runs /\ x.held \in Run /\ Remembered(r, x.held)
      /\ TypeOK /\ UNCHANGED <<recovery, proc, termNews, crashes>>
  BY DEF Insert, Typed, TypeOK, TaskOK, Sound, Task, workers, world
<1>2. /\ \A q \in Runs \ {r} : \/ runs'[q] = runs[q]
                               \/ runs[q].is = "finished" /\ runs'[q] = Absent
      /\ runs'[r] = x.held \/ (x.held.is = "finished" /\ runs'[r] = Absent)
  BY <1>1, RememberedOthers
<1>3. /\ task'[t] = Working("record", r, x.held, x.by)
      /\ \A u \in Tasks \ {t} : task'[u] = task[u]
  BY DEF Insert, Becomes, Typed, TypeOK
<1>4. ASSUME NEW u \in Tasks, NEW q \in Runs, Carrying(task'[u], q),
             runs'[q].is = "waiting"
      PROVE  u # t /\ Carrying(task[u], q) /\ runs[q] = runs'[q] /\ task'[u] = task[u]
  <2>1. CASE u = t
    <3>1. q = r /\ x.held.is = "running"
      BY <1>3, <1>4, <2>1 DEF Working, Carrying
    <3> QED
      BY <1>2, <1>4, <3>1
  <2>2. CASE u # t
    <3>1. task'[u] = task[u] /\ Carrying(task[u], q)
      BY <1>3, <1>4, <2>2
    <3>2. q # r
      <4>1. Carrying(x, r)
        BY <1>1 DEF Carrying
      <4> QED
        BY <1>1, <2>2, <3>1, <4>1 DEF Solo, OneDriver, Carries
    <3>3. runs'[q] = runs[q]
      BY <1>2, <1>4, <3>2 DEF Absent
    <3> QED
      BY <2>2, <3>1, <3>3
  <2> QED
    BY <2>1, <2>2
<1>5. EnteredAlone'
  BY <1>1, <1>4, EntriesStay DEF Entries
<1>6. PickedUpQuietly'
  <2>1. recovery' = recovery /\ recovery.read
    BY <1>1, WorkedIsRead
  <2> QED
    BY <1>1, <2>1, QuietStays DEF Entries
<1> QED
  BY <1>5, <1>6 DEF Entries

\* Whoever is about to do what a step says works for nobody: it was entered
\* again, and nothing is heard of its terminal until it has opened it.
LEMMA ExecuteEntries ==
    ASSUME Typed, Solo, Entries, NothingIsShared, NEW t \in Tasks, Execute(t)
    PROVE  Entries'
<1> DEFINE x == task[t]
           r == x.run
<1>1. /\ x.pc \in {"execute", "open"} /\ r \in Runs
      /\ UNCHANGED <<runs, recovery, termNews, crashes>>
  BY DEF Execute, RunsOut, StepMissing, ExecuteEmit, ExecuteEnd, ExecuteCondition,
         ExecuteApproval, ExecuteAction, ExecuteAgent, ExecuteClose, ExecuteOpen, Executes,
         ExecuteDelay, Typed, TaskOK, Sound, workers, world
<1>2. x.by = "none" /\ Carrying(x, r) /\ recovery.read
  BY <1>1, WorkedIsRead DEF Solo, DriversOwn, Drives, Carrying
<1>3. \/ proc' = proc
      \/ \E w \in Terminals :
            /\ \A p \in Terminals \ {w} : proc'[p] = proc[p]
            /\ \/ proc[w] = "none" /\ ParksFor(task'[t], w) /\ proc'[w] = "live"
               \/ proc[w] # "none"
               \/ proc'[w] = "none"
  <2>1. CASE ExecuteClose(t)
    <3>1. Graph[x.held.at].worker \in Terminals
      <4>1. x.held.at \in Nodes /\ Graph[x.held.at].kind = "terminal"
        BY <2>1 DEF ExecuteClose, Executes, Typed, TaskOK, Sound, Task, Run
      <4> QED
        BY <4>1, NamesAssumption
    <3> DEFINE w == Graph[x.held.at].worker
    <3>2. proc' = [proc EXCEPT ![w] = IF @ = "live" THEN "dying" ELSE @]
      BY <2>1 DEF ExecuteClose, Here
    <3> HIDE DEF w
    <3>3. /\ \A p \in Terminals \ {w} : proc'[p] = proc[p]
          /\ proc[w] # "none" \/ proc'[w] = "none"
      BY <3>1, <3>2 DEF Typed, TypeOK
    <3> QED
      BY <3>1, <3>3 DEF w
  <2>2. CASE ExecuteOpen(t)
    <3>1. Graph[x.held.at].worker \in Terminals
      <4>1. x.held.at \in Nodes /\ Graph[x.held.at].kind = "terminal"
        BY <2>2 DEF ExecuteOpen, Typed, TaskOK, Sound, Task, Run
      <4> QED
        BY <4>1, NamesAssumption
    <3> DEFINE w == Graph[x.held.at].worker
    <3>2. \/ proc' = proc
          \/ /\ proc[w] = "none"
             /\ proc' = [proc EXCEPT ![w] = "live"]
             /\ Becomes(t, Parking(x, w))
      BY <2>2 DEF ExecuteOpen, Here
    <3> HIDE DEF w
    <3>3. ASSUME proc[w] = "none", proc' = [proc EXCEPT ![w] = "live"],
                 Becomes(t, Parking(x, w))
          PROVE  /\ \A p \in Terminals \ {w} : proc'[p] = proc[p]
                 /\ proc[w] = "none" /\ ParksFor(task'[t], w) /\ proc'[w] = "live"
      <4>1. task'[t] = Parking(x, w)
        BY <3>3 DEF Becomes, Typed, TypeOK
      <4>2. ParksFor(task'[t], w)
        BY <4>1 DEF ParksFor, Parking
      <4> QED
        BY <3>1, <3>3, <4>2 DEF Typed, TypeOK, w
    <3> QED
      BY <3>1, <3>2, <3>3 DEF w
  <2>3. ~ExecuteClose(t) /\ ~ExecuteOpen(t) => proc' = proc
    BY DEF Execute, RunsOut, StepMissing, ExecuteEmit, ExecuteEnd, ExecuteCondition,
           ExecuteApproval, ExecuteAction, ExecuteAgent, ExecuteDelay, workers
  <2> QED
    BY <2>1, <2>2, <2>3
<1>4. /\ task'[t].by = x.by /\ task'[t].run = r
      /\ \A u \in Tasks \ {t} : task'[u] = task[u] \/ task'[u].pc = "sleep"
  <2>1. CASE \E s \in Tasks : ExecuteDelay(t, s)
    <3>1. PICK s \in Tasks : ExecuteDelay(t, s)
      BY <2>1
    <3>2. /\ s # t
          /\ task' = [task EXCEPT ![t] = Parking(x, "delay"), ![s] = Sleeping(r)]
      BY <3>1 DEF ExecuteDelay
    <3>3. /\ task'[t] = Parking(x, "delay") /\ task'[s] = Sleeping(r)
          /\ \A u \in Tasks \ {t, s} : task'[u] = task[u]
      BY <3>2 DEF Typed, TypeOK
    <3> QED
      BY <3>3 DEF Parking, Sleeping, Working
  <2>2. CASE ~(\E s \in Tasks : ExecuteDelay(t, s))
    <3>1. \E next : /\ Becomes(t, next)
                    /\ \/ \E outcome : next = Finishing(x, outcome)
                       \/ \E on : next = Parking(x, on)
                       \/ \E to, ok : next = Stepping(r, x.by, to, ok)
                       \/ next = Working("open", r, x.held, x.by)
      BY <2>2 DEF Execute, RunsOut, StepMissing, ExecuteEmit, ExecuteEnd, ExecuteCondition,
             ExecuteApproval, ExecuteAction, ExecuteAgent, ExecuteClose, ExecuteOpen
    <3>2. PICK next : /\ Becomes(t, next)
                      /\ \/ \E outcome : next = Finishing(x, outcome)
                         \/ \E on : next = Parking(x, on)
                         \/ \E to, ok : next = Stepping(r, x.by, to, ok)
                         \/ next = Working("open", r, x.held, x.by)
      BY <3>1, Zenon
    <3>3. next.by = x.by /\ next.run = r
      BY <3>2 DEF Finishing, Parking, Stepping, Working
    <3>4. task'[t] = next /\ \A u \in Tasks \ {t} : task'[u] = task[u]
      BY <3>2 DEF Becomes, Typed, TypeOK
    <3> QED
      BY <3>3, <3>4
  <2> QED
    BY <2>1, <2>2
<1>5. runs' = runs /\ recovery' = recovery /\ termNews' = termNews /\ crashes' = crashes
  BY <1>1
<1>6. EnteredAlone'
  <2> SUFFICES ASSUME NEW u \in Tasks, NEW q \in Runs, Carrying(task'[u], q),
                      runs[q].is = "waiting", runs[q].on \in Terminals,
                      NEW y, y = task'[u], NEW p, p = runs[q].on
               PROVE  Alone(y, p)'
    BY <1>5 DEF EnteredAlone, Carries, Alone, Unheard, OpenedBy
  <2>1. CASE u = t
    <3>1. q = r
      BY <1>4, <2>1 DEF Carrying
    <3>2. Alone(x, p)
      BY <1>2, <3>1 DEF Entries, EnteredAlone, Carries
    <3>3. MaxCrashes # 0 /\ Unheard(p) /\ proc[p] = "none"
      BY <1>1, <1>2, <3>2 DEF Alone, OpenedBy, ParksFor
    <3>4. proc'[p] = "none" \/ (proc'[p] = "live" /\ ParksFor(y, p))
      BY <1>3, <2>1, <3>3
    <3> QED
      BY <1>5, <3>3, <3>4 DEF Alone, Unheard, OpenedBy
  <2>2. CASE u # t
    <3>1. y = task[u] /\ Carrying(task[u], q)
      BY <1>4, <2>2 DEF Carrying
    <3>2. Alone(y, p)
      BY <3>1 DEF Entries, EnteredAlone, Carries
    <3>3. MaxCrashes = 0
      <4>1. q = r => u = t
        BY <1>1, <1>2, <3>1 DEF Solo, OneDriver, Carries
      <4> QED
        BY <1>1, <2>2, <4>1 DEF NothingIsShared
    <3> QED
      BY <3>2, <3>3 DEF Alone
  <2> QED
    BY <2>1, <2>2
<1>7. PickedUpQuietly'
  <2>1. ASSUME NEW q \in Runs, recovery.rows[q] # Absent
        PROVE  FALSE
    <3>1. MaxCrashes # 0
      BY <2>1 DEF Entries, PickedUpQuietly
    <3>2. q = r
      BY <1>1, <3>1 DEF NothingIsShared
    <3> QED
      BY <1>1, <2>1, <3>2 DEF Solo, Unpicked
  <2> QED
    BY <1>2, <1>5, <2>1 DEF Entries, PickedUpQuietly
<1> QED
  BY <1>6, <1>7 DEF Entries

LEMMA CarryEntries ==
    ASSUME Typed, Solo, Entries, NothingIsShared, NEW t \in Tasks, Carry(t)
    PROVE  Entries'
<1> DEFINE x == task[t]
           r == x.run
<1>1. \A q : ~Carrying(Idle, q)
  BY IdleCarriesNothing
<1>2. x.pc # "idle" => r \in Runs
  BY DEF Typed, TaskOK, Sound
<1>3. Carrying(x, r) /\ r \in Runs => Live(runs[r])
  BY DEF Solo, CarriedIsLive, Carries
<1>4. Carrying(x, r) /\ r \in Runs /\ runs[r].is = "waiting" => Taken(x, runs[r].on)
  BY DEF Solo, TakenFrom, Carries
<1>5. ASSUME NEW next, Becomes(t, next), x.pc # "idle",
             UNCHANGED <<runs, recovery, workers, world>>,
             next.run = r, next.by = x.by, Carrying(x, r),
             \A on : ParksFor(x, on) => ParksFor(next, on)
      PROVE  Entries'
  <2>1. UNCHANGED <<runs, recovery, proc, termNews, crashes>>
    BY <1>5 DEF workers, world
  <2>2. \A q : Carrying(next, q) => q = r
    BY <1>5 DEF Carrying
  <2>3. ASSUME NEW q \in Runs, Carrying(next, q), runs[q].is = "waiting",
               runs[q].on \in Terminals
        PROVE  /\ Carrying(x, q) /\ next.by = x.by
               /\ ParksFor(x, runs[q].on) => ParksFor(next, runs[q].on)
    BY <1>5, <2>2, <2>3
  <2> QED
    BY <1>5, <2>1, <2>3, TurnEntries
<1>6. ASSUME NEW next, Becomes(t, next), x.pc # "idle",
             UNCHANGED <<runs, recovery, workers, world>>,
             \A q \in Runs : Carrying(next, q) =>
                 runs[q].is # "waiting" \/ runs[q].on \notin Terminals
      PROVE  Entries'
  <2>1. UNCHANGED <<runs, recovery, proc, termNews, crashes>>
    BY <1>6 DEF workers, world
  <2> QED
    BY <1>6, <2>1, TurnEntries
<1>7. CASE Advance(t)
  <2> DEFINE next == Working("execute", r, runs[r], x.by)
  <2>1. x.pc = "loop" /\ UNCHANGED <<runs, recovery, workers, world>> /\ r \in Runs
    BY <1>2, <1>7 DEF Advance
  <2>2. Carrying(x, r)
    BY <2>1 DEF Carrying
  <2>3. Becomes(t, next)
    BY <1>3, <1>7, <2>1, <2>2 DEF Advance
  <2>4. next.run = r /\ next.by = x.by /\ \A on : ~ParksFor(x, on)
    BY <2>1 DEF Working, ParksFor
  <2> HIDE DEF next
  <2> QED
    BY <1>5, <2>1, <2>2, <2>3, <2>4
<1>8. CASE Execute(t)
  BY <1>8, ExecuteEntries
<1>9. CASE StepTo(t)
  <2> DEFINE next == Holding(x, Moved(runs[r], x.to, x.ok))
  <2>1. x.pc = "step" /\ UNCHANGED <<runs, recovery, workers, world>> /\ r \in Runs
    BY <1>2, <1>9 DEF StepTo
  <2>2. Carrying(x, r)
    BY <2>1 DEF Carrying
  <2>3. Becomes(t, next)
    BY <1>3, <1>9, <2>1, <2>2 DEF StepTo
  <2>4. next.run = r /\ next.by = x.by /\ \A on : ~ParksFor(x, on)
    BY <2>1 DEF Working, Holding, ParksFor
  <2> HIDE DEF next
  <2> QED
    BY <1>5, <2>1, <2>2, <2>3, <2>4
<1>10. CASE Park(t)
  <2> DEFINE next == Holding(x, Parked(runs[r], x.on))
  <2>1. x.pc = "park" /\ UNCHANGED <<runs, recovery, workers, world>> /\ r \in Runs
    BY <1>2, <1>10 DEF Park
  <2>2. Carrying(x, r)
    BY <2>1 DEF Carrying
  <2>3. Becomes(t, next)
    BY <1>3, <1>10, <2>1, <2>2 DEF Park
  <2>4. /\ next.run = r /\ next.by = x.by
        /\ next.pc = "insert" /\ next.held.is = "waiting" /\ next.held.on = x.on
    BY DEF Working, Holding, Parked
  <2>5. \A on : ParksFor(x, on) => ParksFor(next, on)
    BY <2>1, <2>4 DEF ParksFor
  <2> HIDE DEF next
  <2> QED
    BY <1>5, <2>1, <2>2, <2>3, <2>4, <2>5
<1>11. CASE Finish(t)
  <2> DEFINE next == Holding(x, Ended(runs[r], x.on))
  <2>1. x.pc = "finish" /\ UNCHANGED <<runs, recovery, workers, world>> /\ r \in Runs
    BY <1>2, <1>11 DEF Finish
  <2>2. Carrying(x, r)
    BY <2>1 DEF Carrying
  <2>3. Becomes(t, next)
    BY <1>3, <1>11, <2>1, <2>2 DEF Finish, Live
  <2>4. next.run = r /\ next.by = x.by /\ \A on : ~ParksFor(x, on)
    BY <2>1 DEF Working, Holding, ParksFor
  <2> HIDE DEF next
  <2> QED
    BY <1>5, <2>1, <2>2, <2>3, <2>4
<1>12. CASE Insert(t)
  BY <1>12, InsertEntries
<1>13. CASE Record(t) \/ Begin(t)
  <2>1. x.pc \in {"record", "begin"} /\ UNCHANGED <<runs, recovery, workers, world>> /\ r \in Runs
    BY <1>2, <1>13 DEF Record, Begin
  <2>2. PICK next : /\ Becomes(t, next)
                    /\ \/ next = Idle
                       \/ next = Driving(r) /\ (x.pc = "record" => x.held.is = "running")
                       \/ /\ next = Working("begin", r, Absent, x.by)
                          /\ x.pc = "record" /\ x.held.is = "running"
    <3>1. CASE Begin(t)
      BY <2>1, <3>1 DEF Begin
    <3>2. CASE Record(t)
      BY <3>2, RecordTurns
    <3> QED
      BY <1>13, <3>1, <3>2
  <2>3. ASSUME NEW q \in Runs, Carrying(next, q)
        PROVE  runs[q].is # "waiting"
    <3>1. next # Idle /\ next.run = q
      BY <1>1, <2>3 DEF Carrying
    <3>2. q = r /\ Carrying(x, r)
      BY <2>1, <2>2, <3>1 DEF Driving, Working, Carrying
    <3> QED
      BY <1>4, <2>1, <3>2 DEF Taken
  <2> QED
    BY <1>6, <2>1, <2>2, <2>3
<1>14. CASE Wake(t)
  <2> DEFINE next == Stepping(r, x.by, Graph[runs[r].at].next, runs[r].ok)
  <2>1. /\ x.pc = "sleep" /\ UNCHANGED <<runs, recovery, workers, world>>
        /\ Becomes(t, Idle) \/ (Becomes(t, next) /\ Waits(runs[r], "delay"))
    BY <1>14 DEF Wake
  <2>2. CASE Becomes(t, Idle)
    BY <1>1, <1>6, <2>1, <2>2
  <2>3. CASE Becomes(t, next) /\ Waits(runs[r], "delay")
    <3>1. \A q : Carrying(next, q) => q = r
      BY DEF Stepping, Carrying
    <3>2. runs[r].on \notin Terminals
      BY <2>3, WaitingAssumption DEF Waits
    <3> HIDE DEF next
    <3> QED
      BY <1>6, <2>1, <2>3, <3>1, <3>2
  <2> QED
    BY <2>1, <2>2, <2>3
<1> QED
  BY <1>7, <1>8, <1>9, <1>10, <1>11, <1>12, <1>13, <1>14 DEF Carry

LEMMA ReleasedTurns ==
    ASSUME NEW t \in Tasks, NEW worker, NEW ok, NEW by, Released(t, worker, ok, by)
    PROVE  \/ UNCHANGED task
           \/ \E r \in Runs : /\ Waits(runs[r], worker)
                              /\ \E to \in {Graph[runs[r].at].next, Graph[runs[r].at].alt} :
                                    Becomes(t, Stepping(r, by, to, ok))
BY DEF Released

\* A run the news moves on is in the news' hands from then on.
LEMMA NewsEntries ==
    ASSUME Typed, Solo, Entries, NEW t \in Tasks, AgentFinished(t) \/ TerminalFinished(t)
    PROVE  Entries'
<1>1. /\ agentNews \in Seq([session: Sessions,
                             state: {"completed", "failed", "waiting_approval"}])
      /\ termNews \in Seq([terminal: Terminals, ok: BOOLEAN])
  BY DEF Typed, TypeOK
<1>2. CASE AgentFinished(t)
  <2> DEFINE worker == Head(agentNews).session
             ok == Head(agentNews).state = "completed"
  <2>1. worker \in Sessions
    <3>1. agentNews # <<>>
      BY <1>2 DEF AgentFinished
    <3>2. Head(agentNews) \in [session: Sessions,
                             state: {"completed", "failed", "waiting_approval"}]
      BY <1>1, <3>1, HeadTailProperties
    <3> QED
      BY <3>2
  <2>2. Released(t, worker, ok, "agents")
        /\ UNCHANGED <<runs, disk, recovery, proc, termNews, crashes>>
    BY <1>2 DEF AgentFinished, store, world
  <2> HIDE DEF worker, ok
  <2>3. PickedUpQuietly'
    BY <2>2, QuietStays DEF Entries, PickedUpQuietly
  <2>4. CASE UNCHANGED task
    <3>1. task' = task /\ runs' = runs
      BY <2>2, <2>4
    <3>2. EnteredAlone'
      BY <2>2, <3>1, EntriesStay DEF Entries
    <3> QED
      BY <2>3, <3>2 DEF Entries
  <2>5. ASSUME NEW r \in Runs, NEW to, Waits(runs[r], worker),
               Becomes(t, Stepping(r, "agents", to, ok))
        PROVE  Entries'
    <3>1. /\ task'[t].run = r
          /\ \A u \in Tasks \ {t} : task'[u] = task[u]
      BY <2>5 DEF Becomes, Typed, TypeOK, Stepping
    <3>2. runs' = runs /\ runs[r].on \notin Terminals
      BY <2>1, <2>2, <2>5, WaitingAssumption DEF Waits
    <3>3. ASSUME NEW u \in Tasks, NEW q \in Runs, Carrying(task'[u], q),
                 runs'[q].is = "waiting", runs'[q].on \in Terminals
          PROVE  u # t /\ task'[u] = task[u] /\ runs'[q] = runs[q]
      BY <3>1, <3>2, <3>3 DEF Carrying
    <3>4. EnteredAlone'
      BY <2>2, <3>3, EntriesStay DEF Entries
    <3> QED
      BY <2>3, <3>4 DEF Entries
  <2> QED
    BY <2>2, <2>4, <2>5, ReleasedTurns
<1>3. CASE TerminalFinished(t)
  <2> DEFINE worker == Head(termNews).terminal
             ok == Head(termNews).ok
  <2>1. termNews # <<>> /\ worker \in Terminals /\ worker = termNews[1].terminal
        /\ 1 \in DOMAIN termNews
    <3>1. termNews # <<>>
      BY <1>3 DEF TerminalFinished
    <3>2. Head(termNews) \in [terminal: Terminals, ok: BOOLEAN]
      BY <1>1, <3>1, HeadTailProperties
    <3>3. 1 \in DOMAIN termNews /\ Head(termNews) = termNews[1]
      BY <1>1, <3>1
    <3> QED
      BY <3>1, <3>2, <3>3
  <2>2. /\ Released(t, worker, ok, "terminals") /\ task[t].pc = "idle"
        /\ UNCHANGED <<runs, recovery, crashes>>
        /\ termNews' = Tail(termNews) /\ proc' = [proc EXCEPT ![worker] = "none"]
    BY <1>3 DEF TerminalFinished, Free, world
  <2>3. \A i \in DOMAIN termNews' : i + 1 \in DOMAIN termNews /\ termNews'[i] = termNews[i + 1]
    BY <1>1, <2>1, <2>2
  <2>4. \A p \in Terminals \ {worker} : proc'[p] = proc[p]
    BY <2>2 DEF Typed, TypeOK
  <2> HIDE DEF worker, ok
  <2>5. ASSUME NEW y, NEW p \in Terminals, Alone(y, p)
        PROVE  Alone(y, p)'
    <3>1. CASE y.by = "terminals"
      BY <3>1 DEF Alone
    <3>2. CASE MaxCrashes # 0 /\ Unheard(p) /\ OpenedBy(y, p)
      <4>1. p # worker
        BY <2>1, <3>2 DEF Unheard
      <4>2. \A i \in DOMAIN termNews' : termNews'[i].terminal # p
        BY <2>3, <3>2 DEF Unheard
      <4>3. proc'[p] = proc[p]
        BY <2>4, <4>1
      <4> QED
        BY <3>2, <4>2, <4>3 DEF Alone, Unheard, OpenedBy
    <3> QED
      BY <2>5, <3>1, <3>2 DEF Alone
  <2>6. ASSUME NEW u \in Tasks, NEW q \in Runs, Carrying(task'[u], q)
        PROVE  task'[u].by = "terminals" \/ task'[u] = task[u]
    <3>1. CASE UNCHANGED task
      BY <3>1
    <3>2. CASE ~UNCHANGED task
      <4>1. \E r \in Runs : \E to : Becomes(t, Stepping(r, "terminals", to, ok))
        BY <2>2, <3>2, ReleasedTurns
      <4>2. task'[t].by = "terminals" /\ \A v \in Tasks \ {t} : task'[v] = task[v]
        BY <4>1 DEF Becomes, Typed, TypeOK, Stepping
      <4> QED
        BY <4>2
    <3> QED
      BY <3>1, <3>2
  <2>7. EnteredAlone'
    <3> SUFFICES ASSUME NEW u \in Tasks, NEW q \in Runs, Carrying(task'[u], q),
                        runs[q].is = "waiting", runs[q].on \in Terminals,
                        NEW y, y = task'[u], NEW p, p = runs[q].on
                 PROVE  Alone(y, p)'
      BY <2>2 DEF EnteredAlone, Carries, Alone, Unheard, OpenedBy
    <3>1. CASE y.by = "terminals"
      BY <3>1 DEF Alone
    <3>2. CASE y = task[u]
      <4>1. Alone(y, p)
        BY <3>2 DEF Entries, EnteredAlone, Carries
      <4> QED
        BY <2>5, <4>1
    <3> QED
      BY <2>6, <3>1, <3>2
  <2>8. PickedUpQuietly'
    <3>1. ~NothingRuns
      BY <2>1 DEF NothingRuns
    <3>2. recovery' = recovery /\ crashes' = crashes
      BY <2>2
    <3> QED
      BY <3>1, <3>2 DEF Entries, PickedUpQuietly
  <2> QED
    BY <2>7, <2>8 DEF Entries
<1> QED
  BY <1>2, <1>3

\* What is picked up is picked up while nothing runs.
LEMMA ResumeEntries ==
    ASSUME Typed, Solo, Entries, Resume
    PROVE  Entries'
<1>1. UNCHANGED <<disk, proc, termNews, crashes>>
  BY DEF Resume, ReadUnfinished, PickUpApproval, PickUpGone, PickUpStep, PickUpDelay,
         store, workers, world
<1>2. CASE ReadUnfinished
  <2>1. ~recovery.read /\ task' = task /\ runs' = runs
    BY <1>2 DEF ReadUnfinished
  <2>2. EnteredAlone'
    BY <1>1, <2>1, EntriesStay DEF Entries
  <2>3. NothingRuns /\ \A r \in Runs : disk[r] # Absent => MaxCrashes # 0
    BY <2>1 DEF Entries, PickedUpQuietly
  <2>4. /\ recovery'.read = TRUE
        /\ \A r \in Runs : recovery'.rows[r] \in {disk[r], recovery.rows[r], Absent}
    <3>1. CASE recovery' = [read |-> TRUE,
                            rows |-> [r \in Runs |-> IF Live(disk[r]) THEN disk[r] ELSE Absent]]
      BY <3>1
    <3>2. CASE recovery' = [read |-> TRUE, rows |-> recovery.rows]
      BY <3>2
    <3> QED
      BY <1>2, <3>1, <3>2 DEF ReadUnfinished
  <2>5. NothingRuns' /\ crashes' = crashes
    BY <1>1, <2>3 DEF NothingRuns
  <2>6. PickedUpQuietly'
    <3>1. \A r \in Runs : recovery.rows[r] # Absent => MaxCrashes # 0
      BY DEF Entries, PickedUpQuietly
    <3>2. \A r \in Runs : recovery'.rows[r] # Absent => MaxCrashes # 0
      BY <2>3, <2>4, <3>1
    <3> QED
      BY <2>4, <2>5, <3>2 DEF Entries, PickedUpQuietly
  <2> QED
    BY <2>2, <2>6 DEF Entries
<1>3. ASSUME NEW r \in Runs, PicksUp(r)
      PROVE  PickedUpQuietly' /\ MaxCrashes # 0 /\ NothingRuns
             /\ recovery.rows[r] \in Run
             /\ \A u \in Tasks : task[u].pc # "idle" => task[u].run # r
  <2>1. /\ recovery.rows[r] # Absent
        /\ recovery' = [read |-> recovery.read, rows |-> [recovery.rows EXCEPT ![r] = Absent]]
        /\ recovery.rows \in [Runs -> Run]
    BY <1>3 DEF PicksUp, Typed, TypeOK
  <2>2. recovery'.read = recovery.read /\ disk' = disk
        /\ \A q \in Runs : recovery'.rows[q] # Absent => recovery.rows[q] # Absent
    BY <1>1, <2>1
  <2>3. PickedUpQuietly'
    BY <1>1, <2>2, QuietStays DEF Entries
  <2> QED
    BY <2>1, <2>3 DEF Entries, PickedUpQuietly, Solo, Unpicked
<1>4. ASSUME NEW r \in Runs, PickUpApproval(r)
      PROVE  Entries'
  <2>1. PicksUp(r) /\ task' = task /\ runs' = [runs EXCEPT ![r] = recovery.rows[r]]
    BY <1>4 DEF PickUpApproval
  <2>2. PickedUpQuietly' /\ MaxCrashes # 0 /\ NothingRuns
    BY <1>3, <2>1
  <2>3. EnteredAlone'
    BY <1>1, <2>2, EntriesStay DEF Entries
  <2> QED
    BY <2>2, <2>3 DEF Entries
<1>5. ASSUME NEW t \in Tasks, NEW r \in Runs,
             PickUpStep(t, r) \/ PickUpDelay(t, r) \/ PickUpGone(t, r)
      PROVE  Entries'
  <2>1. PicksUp(r)
    BY <1>5 DEF PickUpStep, PickUpDelay, PickUpGone
  <2>2. PickedUpQuietly' /\ MaxCrashes # 0 /\ NothingRuns
    BY <1>3, <2>1
  <2>3. EnteredAlone'
    BY <1>1, <2>2, EntriesStay DEF Entries
  <2> QED
    BY <2>2, <2>3 DEF Entries
<1> QED
  BY <1>2, <1>4, <1>5 DEF Resume

LEMMA OperatorEntries ==
    ASSUME Typed, Solo, Entries, NothingCancels, Operator
    PROVE  Entries'
<1>1. UNCHANGED <<recovery, proc, termNews, crashes>>
  BY DEF Operator, StartRun, Cancel, Answer, CallDropped, workers, world
<1>2. ASSUME NEW t \in Tasks, CallDropped(t)
      PROVE  Entries'
  <2>1. task'[t] = Idle /\ \A u \in Tasks \ {t} : task'[u] = task[u]
    BY <1>2 DEF CallDropped, Becomes, Typed, TypeOK
  <2>2. runs' = runs
    BY <1>2 DEF CallDropped
  <2>3. \A u \in Tasks, q \in Runs : Carrying(task'[u], q) => task'[u] = task[u]
    BY <2>1, IdleCarriesNothing
  <2>4. EnteredAlone'
    BY <1>1, <2>2, <2>3, EntriesStay DEF Entries
  <2>5. recovery.read \/ disk' = disk
    <3>1. task[t].pc = "record" => recovery.read
      BY WorkedIsRead
    <3>2. task[t].pc # "record" => disk' = disk
      BY <1>2 DEF CallDropped
    <3> QED
      BY <3>1, <3>2
  <2>6. PickedUpQuietly'
    BY <1>1, <2>5, QuietStays DEF Entries
  <2> QED
    BY <2>4, <2>6 DEF Entries
<1>3. ASSUME NEW t \in Tasks, NEW r \in Runs, StartRun(t, r)
      PROVE  Entries'
  <2>1. /\ task[t].pc = "idle" /\ Remembered(r, Beginning) /\ disk' = disk
        /\ Becomes(t, Working("record", r, Beginning, "operator"))
    BY <1>3 DEF StartRun, Called, Free, store
  <2>2. /\ runs'[r] = Beginning
        /\ \A q \in Runs \ {r} : \/ runs'[q] = runs[q]
                                 \/ runs[q].is = "finished" /\ runs'[q] = Absent
    BY <2>1, RecordLemma, RememberedOthers DEF Typed, Beginning
  <2>3. task'[t].run = r /\ \A u \in Tasks \ {t} : task'[u] = task[u]
    BY <2>1 DEF Becomes, Typed, TypeOK, Working
  <2>4. ASSUME NEW u \in Tasks, NEW q \in Runs, Carrying(task'[u], q),
               runs'[q].is = "waiting"
        PROVE  task'[u] = task[u] /\ runs'[q] = runs[q]
    <3>1. q # r
      BY <2>2, <2>4 DEF Beginning
    <3>2. u # t
      BY <2>3, <2>4, <3>1 DEF Carrying
    <3> QED
      BY <2>2, <2>3, <2>4, <3>1, <3>2 DEF Absent
  <2>5. EnteredAlone'
    BY <1>1, <2>4, EntriesStay DEF Entries
  <2>6. PickedUpQuietly'
    BY <1>1, <2>1, QuietStays DEF Entries
  <2> QED
    BY <2>5, <2>6 DEF Entries
<1>4. ASSUME NEW t \in Tasks, NEW r \in Runs, NEW allow \in BOOLEAN, Answer(t, r, allow)
      PROVE  Entries'
  <2> DEFINE to == IF allow THEN Graph[runs[r].at].next ELSE Graph[runs[r].at].alt
             next == Stepping(r, "operator", to, allow)
  <2>1. /\ Becomes(t, next) /\ Waits(runs[r], "approval") /\ runs' = runs /\ disk' = disk
    BY <1>4 DEF Answer, store
  <2>2. next.run = r
    BY DEF Stepping
  <2> HIDE DEF next
  <2>3. task'[t].run = r /\ \A u \in Tasks \ {t} : task'[u] = task[u]
    BY <2>1, <2>2 DEF Becomes, Typed, TypeOK
  <2>4. runs[r].on \notin Terminals
    BY <2>1, WaitingAssumption DEF Waits
  <2>5. ASSUME NEW u \in Tasks, NEW q \in Runs, Carrying(task'[u], q),
               runs'[q].is = "waiting", runs'[q].on \in Terminals
        PROVE  task'[u] = task[u] /\ runs'[q] = runs[q]
    BY <2>1, <2>3, <2>4, <2>5 DEF Carrying
  <2>6. EnteredAlone'
    BY <1>1, <2>5, EntriesStay DEF Entries
  <2>7. PickedUpQuietly'
    BY <1>1, <2>1, QuietStays DEF Entries
  <2> QED
    BY <2>6, <2>7 DEF Entries
<1> QED
  BY <1>2, <1>3, <1>4 DEF Operator, Cancel, NothingCancels

\* Once nobody is told to wait for a worker that is done at once, no terminal a
\* run has just opened exits before the run is parked.
LEMMA EnvironmentEntries ==
    ASSUME Typed, Solo, Entries, NothingIsShared, Environment
    PROVE  Entries'
<1>1. CASE Crash
  <2>1. /\ \A t \in Tasks : task'[t] = Idle
        /\ \A r \in Runs : recovery'.rows[r] = Absent
        /\ termNews' = <<>> /\ \A p \in Terminals : proc'[p] = "none"
        /\ crashes' = crashes + 1 /\ crashes < MaxCrashes
    BY <1>1 DEF Crash
  <2>2. MaxCrashes # 0 /\ crashes' <= MaxCrashes /\ crashes' \in Nat
    BY <2>1, ConstantsAssumption DEF Entries, PickedUpQuietly
  <2>3. EnteredAlone'
    BY <2>1, IdleCarriesNothing DEF EnteredAlone, Carries
  <2>4. PickedUpQuietly'
    BY <2>1, <2>2 DEF PickedUpQuietly, NothingRuns
  <2> QED
    BY <2>3, <2>4 DEF Entries
<1>2. ASSUME NEW w \in Terminals, NEW ok \in BOOLEAN, ProcessExits(w, ok)
      PROVE  Entries'
  <2>1. /\ proc[w] \in {"live", "dying"} /\ InTime(w)
        /\ \A p \in Terminals \ {w} : proc'[p] = proc[p]
        /\ termNews' = Append(termNews, [terminal |-> w, ok |-> ok])
        /\ runs' = runs /\ task' = task /\ recovery' = recovery /\ disk' = disk
        /\ crashes' = crashes
    BY <1>2 DEF ProcessExits, Typed, TypeOK, world, store
  <2>2. \A i \in DOMAIN termNews' : termNews'[i].terminal = w
                                    \/ (i \in DOMAIN termNews /\ termNews'[i] = termNews[i])
    <3>1. termNews \in Seq([terminal: Terminals, ok: BOOLEAN])
      BY DEF Typed, TypeOK
    <3> DEFINE new == [terminal |-> w, ok |-> ok]
    <3>2. new.terminal = w /\ new \in [terminal: Terminals, ok: BOOLEAN]
      OBVIOUS
    <3> HIDE DEF new
    <3>3. \A i \in DOMAIN Append(termNews, new) :
              \/ Append(termNews, new)[i] = new
              \/ i \in DOMAIN termNews /\ Append(termNews, new)[i] = termNews[i]
      BY <3>1, <3>2
    <3> QED
      BY <2>1, <3>2, <3>3 DEF new
  <2>3. PickedUpQuietly'
    <3>1. ~NothingRuns
      BY <2>1 DEF NothingRuns
    <3> QED
      BY <2>1, <3>1 DEF Entries, PickedUpQuietly
  <2>4. EnteredAlone'
    <3> SUFFICES ASSUME NEW u \in Tasks, NEW q \in Runs, Carrying(task[u], q),
                        runs[q].is = "waiting", runs[q].on \in Terminals,
                        NEW y, y = task[u], NEW p, p = runs[q].on
                 PROVE  Alone(y, p)'
      BY <2>1 DEF EnteredAlone, Carries, Alone, Unheard, OpenedBy
    <3>1. Alone(y, p)
      BY DEF Entries, EnteredAlone, Carries
    <3>2. CASE y.by = "terminals"
      BY <3>2 DEF Alone
    <3>3. CASE MaxCrashes # 0 /\ Unheard(p) /\ OpenedBy(y, p)
      <4>1. ASSUME p = w PROVE FALSE
        <5>1. ParksFor(y, w)
          BY <2>1, <3>3, <4>1 DEF OpenedBy
        <5>2. Awaited(w)
          BY <5>1 DEF ParksFor, Awaited
        <5> QED
          BY <2>1, <3>3, <5>2, Zenon DEF InTime, NothingIsShared
      <4>2. Unheard(p)'
        BY <2>2, <3>3, <4>1 DEF Unheard
      <4>3. proc'[p] = proc[p]
        BY <2>1, <4>1
      <4> QED
        BY <3>3, <4>2, <4>3 DEF Alone, OpenedBy
    <3> QED
      BY <3>1, <3>2, <3>3 DEF Alone
  <2> QED
    BY <2>3, <2>4 DEF Entries
<1>3. CASE UNCHANGED <<runs, task, disk, recovery, proc, termNews, crashes>>
  <2>1. runs' = runs /\ task' = task /\ disk' = disk /\ recovery' = recovery
    BY <1>3
  <2>2. EnteredAlone'
    BY <1>3, <2>1, EntriesStay DEF Entries
  <2>3. PickedUpQuietly'
    BY <1>3, <2>1, QuietStays DEF Entries, PickedUpQuietly
  <2> QED
    BY <2>2, <2>3 DEF Entries
<1>4. \/ Crash \/ UNCHANGED <<runs, task, disk, recovery, proc, termNews, crashes>>
      \/ \E w \in Terminals, ok \in BOOLEAN : ProcessExits(w, ok)
  BY DEF Environment, AgentAsks, TurnEnds, TimePasses, store, workers, world
<1> QED
  BY <1>1, <1>2, <1>3, <1>4

LEMMA InitEntries == Init => Entries
<1> SUFFICES ASSUME Init PROVE Entries
  OBVIOUS
<1>1. \A t \in Tasks : task[t] = Idle
  BY DEF Init
<1>2. EnteredAlone
  BY <1>1, IdleCarriesNothing DEF EnteredAlone, Carries
<1>3. /\ \A r \in Runs : disk[r] = Absent /\ recovery.rows[r] = Absent
      /\ termNews = <<>> /\ \A p \in Terminals : proc[p] = "none"
      /\ crashes = 0
  BY DEF Init
<1>4. PickedUpQuietly
  BY <1>3, ConstantsAssumption DEF PickedUpQuietly, NothingRuns
<1> QED
  BY <1>2, <1>4 DEF Entries

LEMMA NextEntries ==
    ASSUME Typed, Solo, Entries, NothingCancels, NothingIsShared, [Next]_vars
    PROVE  Entries'
<1>1. CASE UNCHANGED vars
  <2>1. /\ runs' = runs /\ task' = task /\ disk' = disk /\ recovery' = recovery
        /\ UNCHANGED <<proc, termNews, crashes>>
    BY <1>1 DEF vars
  <2>2. EnteredAlone'
    BY <2>1, EntriesStay DEF Entries
  <2>3. PickedUpQuietly'
    BY <2>1, QuietStays DEF Entries, PickedUpQuietly
  <2> QED
    BY <2>2, <2>3 DEF Entries
<1>2. CASE Next
  BY <1>2, CarryEntries, NewsEntries, ResumeEntries, OperatorEntries, EnvironmentEntries
     DEF Next
<1> QED
  BY <1>1, <1>2

LEMMA EntriesAreOwn == Entries => ExitsAreOwn
BY DEF Entries, EnteredAlone, ExitsAreOwn, Alone, Unheard

\* The words a run waits or ends on are the names of no terminal.
LEMMA FreeLemma ==
    /\ FreeRun(Absent) /\ FreeRun(Beginning)
    /\ FreeTask(Idle) /\ \A r : FreeTask(Driving(r)) /\ FreeTask(Sleeping(r))
    /\ \A r, by, to, ok : FreeTask(Stepping(r, by, to, ok))
    /\ \A pc, r, run, by : FreeRun(run) => FreeTask(Working(pc, r, run, by))
    /\ \A x, run : FreeRun(run) => FreeTask(Holding(x, run))
    /\ \A x, on : on \notin Terminals => FreeTask(Parking(x, on)) /\ FreeTask(Finishing(x, on))
    /\ \A run, to, ok : FreeRun(Moved(run, to, ok))
    /\ \A run, on : on \notin Terminals => FreeRun(Parked(run, on)) /\ FreeRun(Ended(run, on))
    /\ \A on \in Sessions \cup Outcomes \cup {"lost session", "approval", "delay", None} :
           on \notin Terminals
<1>1. Absent.on = None /\ Beginning.on = None /\ None \notin Terminals
  BY ConstantsAssumption DEF Absent, Beginning
<1>2. \A pc, r, run, by : FreeRun(run) => FreeTask(Working(pc, r, run, by))
  BY <1>1 DEF FreeRun, FreeTask, Working
<1>3. FreeRun(Absent) /\ FreeRun(Beginning)
  BY <1>1 DEF FreeRun
<1>4. FreeTask(Idle) /\ \A r : FreeTask(Driving(r)) /\ FreeTask(Sleeping(r))
  BY <1>2, <1>3 DEF Idle, Driving, Sleeping
<1>5. \A r, by, to, ok : FreeTask(Stepping(r, by, to, ok))
  BY <1>1 DEF FreeTask, Stepping
<1>6. \A x, run : FreeRun(run) => FreeTask(Holding(x, run))
  BY <1>2 DEF Holding
<1>7. \A x, on : on \notin Terminals => FreeTask(Parking(x, on)) /\ FreeTask(Finishing(x, on))
  BY <1>1 DEF FreeTask, Parking, Finishing
<1>8. \A run, to, ok : FreeRun(Moved(run, to, ok))
  BY <1>1 DEF FreeRun, Moved
<1>9. \A run, on : on \notin Terminals => FreeRun(Parked(run, on)) /\ FreeRun(Ended(run, on))
  BY DEF FreeRun, Parked, Ended
<1>10. \A on \in Sessions \cup Outcomes \cup {"lost session", "approval", "delay", None} :
           on \notin Terminals
  BY <1>1, WaitingAssumption
<1> QED
  BY <1>2, <1>3, <1>4, <1>5, <1>6, <1>7, <1>8, <1>9, <1>10

LEMMA ExecuteFree ==
    ASSUME Typed, TerminalFree, NoTerminalSteps, NEW t \in Tasks, Execute(t)
    PROVE  \A u \in Tasks : FreeTask(task'[u])
<1> DEFINE x == task[t]
<1>1. /\ task \in [Tasks -> Task] /\ x.held \in Run /\ x.held.at \in Nodes
      /\ x.pc = "open" => Graph[x.held.at].kind = "terminal"
  BY DEF Typed, TypeOK, TaskOK, Sound, Task, Run
<1>2. \A u \in Tasks : FreeTask(task[u])
  BY DEF TerminalFree
<1>3. ASSUME NEW next, Becomes(t, next), FreeTask(next)
      PROVE  \A u \in Tasks : FreeTask(task'[u])
  BY <1>1, <1>2, <1>3 DEF Becomes
<1>4. ASSUME NEW s \in Tasks, ExecuteDelay(t, s)
      PROVE  \A u \in Tasks : FreeTask(task'[u])
  <2>1. task' = [task EXCEPT ![t] = Parking(x, "delay"), ![s] = Sleeping(x.run)]
    BY <1>4 DEF ExecuteDelay
  <2>2. FreeTask(Parking(x, "delay")) /\ FreeTask(Sleeping(x.run))
    BY FreeLemma
  <2> QED
    BY <1>1, <1>2, <2>1, <2>2
<1>5. CASE RunsOut(t) \/ StepMissing(t) \/ ExecuteApproval(t)
  <2>1. \/ Becomes(t, Finishing(x, "exhausted")) \/ Becomes(t, Finishing(x, "failed"))
        \/ Becomes(t, Parking(x, "approval"))
    BY <1>5 DEF RunsOut, StepMissing, ExecuteApproval
  <2>2. /\ FreeTask(Finishing(x, "exhausted")) /\ FreeTask(Finishing(x, "failed"))
        /\ FreeTask(Parking(x, "approval"))
    BY FreeLemma DEF Outcomes
  <2> QED
    BY <1>3, <2>1, <2>2
<1>6. CASE ExecuteEmit(t) \/ ExecuteCondition(t)
  BY <1>3, <1>6, FreeLemma DEF ExecuteEmit, ExecuteCondition
<1>7. CASE ExecuteEnd(t)
  <2>1. Here(t).outcome \in Outcomes
    BY <1>1, ConstantsAssumption DEF Here
  <2>2. FreeTask(Finishing(x, Here(t).outcome))
    BY <2>1, FreeLemma
  <2> QED
    BY <1>3, <1>7, <2>2 DEF ExecuteEnd
<1>8. CASE ExecuteAction(t)
  <2>1. FreeTask(Finishing(x, "failed"))
    BY FreeLemma DEF Outcomes
  <2> QED
    BY <1>3, <1>8, <2>1, FreeLemma DEF ExecuteAction
<1>9. CASE ExecuteAgent(t)
  <2>1. Here(t).worker \in Sessions
    BY <1>1, <1>9, NamesAssumption DEF ExecuteAgent, Executes, Here
  <2>2. FreeTask(Parking(x, Here(t).worker))
    BY <2>1, FreeLemma
  <2> QED
    BY <1>3, <1>9, <2>2, FreeLemma DEF ExecuteAgent
<1>10. ~ExecuteClose(t) /\ ~ExecuteOpen(t)
  BY <1>1 DEF ExecuteClose, ExecuteOpen, Executes, NoTerminalSteps
<1> QED
  BY <1>4, <1>5, <1>6, <1>7, <1>8, <1>9, <1>10 DEF Execute

LEMMA CarryFree ==
    ASSUME Typed, TerminalFree, NoTerminalSteps, NEW t \in Tasks, Carry(t)
    PROVE  TerminalFree'
<1> DEFINE x == task[t]
           r == x.run
<1>1. /\ x.pc # "idle" => r \in Runs
      /\ task \in [Tasks -> Task] /\ disk \in [Runs -> Run] /\ TypeOK
      /\ x.held \in Run
  BY DEF Typed, TypeOK, TaskOK, Sound, Task
<1>2. /\ \A q \in Runs : FreeRun(runs[q]) /\ FreeRun(disk[q]) /\ FreeRun(recovery.rows[q])
      /\ \A u \in Tasks : FreeTask(task[u])
      /\ FreeRun(x.held)
  BY DEF TerminalFree, FreeTask, FreeRun
<1>3. recovery' = recovery
  BY DEF Carry, Execute, RunsOut, StepMissing, ExecuteEmit, ExecuteEnd, ExecuteCondition,
         ExecuteApproval, ExecuteAction, ExecuteAgent, ExecuteClose, ExecuteOpen,
         ExecuteDelay, Advance, StepTo, Park, Finish, Insert, Record, Begin, Wake
<1>4. \A q \in Runs : FreeRun(runs'[q])
  <2>1. CASE Insert(t)
    <3>1. Remembered(r, x.held) /\ r \in Runs
      BY <1>1, <2>1 DEF Insert
    <3> QED
      BY <1>1, <1>2, <3>1, RememberedLemma, FreeLemma
  <2>2. CASE ~Insert(t)
    <3>1. runs' = runs
      BY <2>2 DEF Carry, Execute, RunsOut, StepMissing, ExecuteEmit, ExecuteEnd,
             ExecuteCondition, ExecuteApproval, ExecuteAction, ExecuteAgent, ExecuteClose,
             ExecuteOpen, ExecuteDelay, Advance, StepTo, Park, Finish, Record, Begin, Wake
    <3> QED
      BY <1>2, <3>1
  <2> QED
    BY <2>1, <2>2
<1>5. \A q \in Runs : FreeRun(disk'[q])
  <2>1. CASE Record(t)
    <3>1. disk' = disk \/ disk' = [disk EXCEPT ![r] = x.held]
      BY <2>1 DEF Record, Saved
    <3> QED
      BY <1>1, <1>2, <3>1
  <2>2. CASE ~Record(t)
    <3>1. disk' = disk
      BY <2>2 DEF Carry, Execute, RunsOut, StepMissing, ExecuteEmit, ExecuteEnd,
             ExecuteCondition, ExecuteApproval, ExecuteAction, ExecuteAgent, ExecuteClose,
             ExecuteOpen, ExecuteDelay, Advance, StepTo, Park, Finish, Insert, Begin, Wake,
             store
    <3> QED
      BY <1>2, <3>1
  <2> QED
    BY <2>1, <2>2
<1>6. \A u \in Tasks : FreeTask(task'[u])
  <2>1. CASE Execute(t)
    BY <2>1, ExecuteFree
  <2>2. ASSUME NEW next, Becomes(t, next), FreeTask(next)
        PROVE  \A u \in Tasks : FreeTask(task'[u])
    BY <1>1, <1>2, <2>2 DEF Becomes
  <2>3. CASE Advance(t) \/ Insert(t) \/ Wake(t)
    <3>1. CASE Advance(t)
      <4>1. Becomes(t, Working("execute", r, runs[r], x.by)) \/ Becomes(t, Idle)
        BY <3>1 DEF Advance
      <4>2. r \in Runs
        BY <1>1, <3>1 DEF Advance
      <4> QED
        BY <1>2, <2>2, <4>1, <4>2, FreeLemma
    <3>2. CASE Insert(t)
      <4>1. Becomes(t, Working("record", r, x.held, x.by))
        BY <3>2 DEF Insert
      <4> QED
        BY <1>2, <2>2, <4>1, FreeLemma
    <3>3. CASE Wake(t)
      <4>1. Becomes(t, Stepping(r, x.by, Graph[runs[r].at].next, runs[r].ok)) \/ Becomes(t, Idle)
        BY <3>3 DEF Wake
      <4> QED
        BY <2>2, <4>1, FreeLemma
    <3> QED
      BY <2>3, <3>1, <3>2, <3>3
  <2>4. CASE StepTo(t)
    <3>1. Becomes(t, Holding(x, Moved(runs[r], x.to, x.ok))) \/ Becomes(t, Driving(r))
      BY <2>4 DEF StepTo
    <3> QED
      BY <2>2, <3>1, FreeLemma
  <2>5. CASE Park(t) \/ Finish(t)
    <3>1. \/ Becomes(t, Holding(x, Parked(runs[r], x.on))) \/ Becomes(t, Idle)
          \/ Becomes(t, Holding(x, Ended(runs[r], x.on)))
      BY <2>5 DEF Park, Finish
    <3>2. FreeTask(Holding(x, Parked(runs[r], x.on))) /\ FreeTask(Holding(x, Ended(runs[r], x.on)))
      <4>1. x.on \notin Terminals
        BY <1>2 DEF FreeTask
      <4> QED
        BY <4>1, FreeLemma
    <3>3. FreeTask(Idle)
      BY FreeLemma
    <3> QED
      BY <2>2, <3>1, <3>2, <3>3
  <2>6. CASE Record(t) \/ Begin(t)
    <3>1. \/ Becomes(t, Idle) \/ Becomes(t, Driving(r))
          \/ Becomes(t, Working("begin", r, Absent, x.by))
      <4>1. CASE Begin(t)
        BY <4>1 DEF Begin
      <4>2. CASE Record(t)
        BY <4>2, RecordTurns
      <4> QED
        BY <2>6, <4>1, <4>2
    <3> QED
      BY <2>2, <3>1, FreeLemma
  <2> QED
    BY <2>1, <2>3, <2>4, <2>5, <2>6 DEF Carry
<1> QED
  BY <1>2, <1>3, <1>4, <1>5, <1>6 DEF TerminalFree

LEMMA OthersFree ==
    ASSUME Typed, TerminalFree,
           \/ \E t \in Tasks : AgentFinished(t) \/ TerminalFinished(t)
           \/ Resume \/ Operator
    PROVE  TerminalFree'
<1>1. /\ task \in [Tasks -> Task] /\ disk \in [Runs -> Run] /\ TypeOK
      /\ runs \in [Runs -> Run] /\ recovery.rows \in [Runs -> Run]
  BY DEF Typed, TypeOK
<1>2. /\ \A q \in Runs : FreeRun(runs[q]) /\ FreeRun(disk[q]) /\ FreeRun(recovery.rows[q])
      /\ \A u \in Tasks : FreeTask(task[u]) /\ FreeRun(task[u].held)
  BY DEF TerminalFree, FreeTask, FreeRun
<1>3. ASSUME NEW t \in Tasks, NEW next, Becomes(t, next), FreeTask(next)
      PROVE  \A u \in Tasks : FreeTask(task'[u])
  BY <1>1, <1>2, <1>3 DEF Becomes
<1>4. ASSUME NEW t \in Tasks, AgentFinished(t) \/ TerminalFinished(t)
      PROVE  TerminalFree'
  <2>1. runs' = runs /\ disk' = disk /\ recovery' = recovery
    BY <1>4 DEF AgentFinished, TerminalFinished, store
  <2>2. \E worker, ok, by : Released(t, worker, ok, by)
    BY <1>4 DEF AgentFinished, TerminalFinished
  <2>3. PICK worker, ok, by : Released(t, worker, ok, by)
    BY <2>2
  <2>4. task' = task \/ \E r \in Runs : \E to : Becomes(t, Stepping(r, by, to, ok))
    BY <2>3, ReleasedTurns
  <2>5. \A u \in Tasks : FreeTask(task'[u])
    BY <1>2, <1>3, <2>4, FreeLemma
  <2> QED
    BY <1>2, <2>1, <2>5 DEF TerminalFree
<1>5. CASE Operator
  <2>1. recovery' = recovery
    BY <1>5 DEF Operator, StartRun, Cancel, Answer, CallDropped
  <2>2. ASSUME NEW t \in Tasks, CallDropped(t)
        PROVE  TerminalFree'
    <3>1. runs' = runs /\ Becomes(t, Idle)
          /\ (disk' = disk \/ disk' = [disk EXCEPT ![task[t].run] = task[t].held])
      BY <2>2 DEF CallDropped, Saved
    <3>2. \A q \in Runs : FreeRun(disk'[q])
      BY <1>1, <1>2, <3>1
    <3>3. \A u \in Tasks : FreeTask(task'[u])
      BY <1>3, <3>1, FreeLemma
    <3> QED
      BY <1>2, <2>1, <3>1, <3>2, <3>3 DEF TerminalFree
  <2>3. ASSUME NEW t \in Tasks, NEW r \in Runs, StartRun(t, r)
        PROVE  TerminalFree'
    <3>1. /\ Remembered(r, Beginning) /\ disk' = disk
          /\ Becomes(t, Working("record", r, Beginning, "operator"))
      BY <2>3 DEF StartRun, store
    <3>2. \A q \in Runs : FreeRun(runs'[q])
      <4>1. Beginning \in Run
        BY RecordLemma
      <4>2. \A q \in Runs : runs'[q] \in {runs[q], Beginning, Absent}
        BY <1>1, <3>1, <4>1, RememberedLemma
      <4> QED
        BY <1>2, <4>2, FreeLemma
    <3>3. \A u \in Tasks : FreeTask(task'[u])
      BY <1>3, <3>1, FreeLemma
    <3> QED
      BY <1>2, <2>1, <3>1, <3>2, <3>3 DEF TerminalFree
  <2>4. ASSUME NEW t \in Tasks, NEW r \in Runs, Cancel(t, r)
        PROVE  TerminalFree'
    <3>1. /\ runs' = runs /\ disk' = disk
          /\ Becomes(t, Working("insert", r, Ended(runs[r], "cancelled"), "operator"))
      BY <2>4 DEF Cancel, store
    <3>2. FreeTask(Working("insert", r, Ended(runs[r], "cancelled"), "operator"))
      <4>1. "cancelled" \notin Terminals
        BY FreeLemma DEF Outcomes
      <4> QED
        BY <4>1, FreeLemma
    <3>3. \A u \in Tasks : FreeTask(task'[u])
      BY <1>3, <3>1, <3>2
    <3> QED
      BY <1>2, <2>1, <3>1, <3>3 DEF TerminalFree
  <2>5. ASSUME NEW t \in Tasks, NEW r \in Runs, NEW allow \in BOOLEAN, Answer(t, r, allow)
        PROVE  TerminalFree'
    <3>1. runs' = runs /\ disk' = disk /\ \E to : Becomes(t, Stepping(r, "operator", to, allow))
      BY <2>5 DEF Answer, store
    <3>2. \A u \in Tasks : FreeTask(task'[u])
      BY <1>3, <3>1, FreeLemma
    <3> QED
      BY <1>2, <2>1, <3>1, <3>2 DEF TerminalFree
  <2> QED
    BY <1>5, <2>2, <2>3, <2>4, <2>5 DEF Operator
<1>6. CASE Resume
  <2>1. CASE ReadUnfinished
    <3>1. runs' = runs /\ task' = task /\ disk' = disk
      BY <2>1 DEF ReadUnfinished, store
    <3>2. \A r \in Runs : recovery'.rows[r] \in {disk[r], recovery.rows[r], Absent}
      <4>1. CASE recovery' = [read |-> TRUE,
                              rows |-> [r \in Runs |-> IF Live(disk[r]) THEN disk[r] ELSE Absent]]
        BY <4>1
      <4>2. CASE recovery' = [read |-> TRUE, rows |-> recovery.rows]
        BY <4>2
      <4> QED
        BY <2>1, <4>1, <4>2 DEF ReadUnfinished
    <3>3. \A r \in Runs : FreeRun(recovery'.rows[r])
      BY <1>2, <3>2, FreeLemma
    <3> QED
      BY <1>2, <3>1, <3>3 DEF TerminalFree
  <2>2. ASSUME NEW r \in Runs, PicksUp(r)
        PROVE  \A q \in Runs : FreeRun(recovery'.rows[q])
    <3>1. recovery' = [read |-> recovery.read,
                       rows |-> [recovery.rows EXCEPT ![r] = Absent]]
      BY <2>2 DEF PicksUp
    <3>2. \A q \in Runs : recovery'.rows[q] \in {recovery.rows[q], Absent}
      BY <1>1, <3>1
    <3> QED
      BY <1>2, <3>2, FreeLemma
  <2>3. ASSUME NEW r \in Runs, runs' = [runs EXCEPT ![r] = recovery.rows[r]]
        PROVE  \A q \in Runs : FreeRun(runs'[q])
    BY <1>1, <1>2, <2>3
  <2>4. ASSUME NEW r \in Runs, PickUpApproval(r)
        PROVE  TerminalFree'
    <3>1. task' = task /\ disk' = disk /\ PicksUp(r)
          /\ runs' = [runs EXCEPT ![r] = recovery.rows[r]]
      BY <2>4 DEF PickUpApproval, store
    <3> QED
      BY <1>2, <2>2, <2>3, <3>1 DEF TerminalFree
  <2>5. ASSUME NEW t \in Tasks, NEW r \in Runs, PickUpStep(t, r) \/ PickUpDelay(t, r)
        PROVE  TerminalFree'
    <3>1. /\ disk' = disk /\ PicksUp(r) /\ runs' = [runs EXCEPT ![r] = recovery.rows[r]]
          /\ Becomes(t, Driving(r)) \/ Becomes(t, Sleeping(r))
      BY <2>5 DEF PickUpStep, PickUpDelay, store
    <3>2. \A u \in Tasks : FreeTask(task'[u])
      BY <1>3, <3>1, FreeLemma
    <3>3. \A q \in Runs : FreeRun(runs'[q]) /\ FreeRun(recovery'.rows[q]) /\ FreeRun(disk'[q])
      BY <1>2, <2>2, <2>3, <3>1
    <3> QED
      BY <3>2, <3>3 DEF TerminalFree
  <2>6. ASSUME NEW t \in Tasks, NEW r \in Runs, PickUpGone(t, r)
        PROVE  TerminalFree'
    <3> DEFINE run == Ended(recovery.rows[r], "failed")
    <3>1. /\ disk' = disk /\ PicksUp(r) /\ Remembered(r, run)
          /\ Becomes(t, Working("record", r, run, "resume"))
      BY <2>6 DEF PickUpGone, store
    <3>2. run \in Run /\ FreeRun(run)
      <4>1. "failed" \notin Terminals /\ "failed" \in Outcomes
        BY FreeLemma DEF Outcomes
      <4> QED
        BY <1>1, <4>1, RecordLemma, FreeLemma
    <3> HIDE DEF run
    <3>3. \A q \in Runs : FreeRun(runs'[q])
      BY <1>1, <1>2, <3>1, <3>2, RememberedLemma, FreeLemma
    <3>4. FreeTask(Working("record", r, run, "resume"))
      BY <3>2, FreeLemma
    <3>5. \A u \in Tasks : FreeTask(task'[u])
      BY <1>3, <3>1, <3>4
    <3>6. \A q \in Runs : FreeRun(recovery'.rows[q]) /\ FreeRun(disk'[q])
      BY <1>2, <2>2, <3>1
    <3> QED
      BY <3>3, <3>5, <3>6 DEF TerminalFree
  <2> QED
    BY <1>6, <2>1, <2>4, <2>5, <2>6 DEF Resume
<1> QED
  BY <1>4, <1>5, <1>6

LEMMA NextFree ==
    ASSUME Typed, TerminalFree, NoTerminalSteps, [Next]_vars
    PROVE  TerminalFree'
<1>1. CASE UNCHANGED <<runs, task, disk, recovery>>
  <2>1. runs' = runs /\ task' = task /\ disk' = disk /\ recovery' = recovery
    BY <1>1
  <2> QED
    BY <2>1 DEF TerminalFree
<1>2. CASE Crash
  <2>1. /\ \A t \in Tasks : task'[t] = Idle
        /\ \A r \in Runs : runs'[r] = Absent /\ recovery'.rows[r] = Absent
    BY <1>2 DEF Crash
  <2>2. ASSUME NEW r \in Runs
        PROVE  FreeRun(disk'[r])
    <3>1. disk[r] \in Run /\ FreeRun(disk[r])
      BY DEF Typed, TypeOK, TerminalFree
    <3>2. disk'[r] = IF disk[r].on \in Sessions
                     THEN [disk[r] EXCEPT !.on = "lost session"] ELSE disk[r]
      BY <1>2 DEF Crash
    <3>3. "lost session" \notin Terminals
      BY FreeLemma
    <3> QED
      BY <3>1, <3>2, <3>3 DEF FreeRun, Run
  <2> QED
    BY <2>1, <2>2, FreeLemma DEF TerminalFree
<1>3. CASE Environment
  <2>1. Crash \/ UNCHANGED <<runs, task, disk, recovery>>
    BY <1>3 DEF Environment, AgentAsks, TurnEnds, ProcessExits, TimePasses, store
  <2> QED
    BY <1>1, <1>2, <2>1
<1>4. UNCHANGED vars => UNCHANGED <<runs, task, disk, recovery>>
  BY DEF vars
<1> QED
  BY <1>1, <1>3, <1>4, CarryFree, OthersFree DEF Next

LEMMA InitFree == Init => TerminalFree
<1> SUFFICES ASSUME Init PROVE TerminalFree
  OBVIOUS
<1>1. /\ \A r \in Runs : /\ runs[r] = Absent /\ disk[r] = Absent
                         /\ recovery.rows[r] = Absent
      /\ \A t \in Tasks : task[t] = Idle
  BY DEF Init
<1> QED
  BY <1>1, FreeLemma DEF TerminalFree

LEMMA FreeExitsAreOwn == TerminalFree => ExitsAreOwn
BY DEF TerminalFree, FreeRun, ExitsAreOwn

LEMMA SoloInvariant ==
    ASSUME NothingCancels, RowsComeFirst, OneCallAtATime,
           NothingIsShared \/ NoTerminalSteps
    PROVE  Spec => [](Typed /\ Solo)
<1> DEFINE Inv1 == Typed /\ Solo /\ Entries
           Inv2 == Typed /\ Solo /\ TerminalFree
<1>1. Init => Inv1 /\ Inv2
  BY InitTyped, InitSolo, InitEntries, InitFree
<1>2. CASE NothingIsShared
  <2>1. Inv1 /\ [Next]_vars => Inv1'
    BY <1>2, NextTyped, NextSolo, NextEntries, EntriesAreOwn
  <2> QED
    BY <1>1, <2>1, PTL DEF Spec
<1>3. CASE NoTerminalSteps
  <2>1. Inv2 /\ [Next]_vars => Inv2'
    BY <1>3, NextTyped, NextSolo, NextFree, FreeExitsAreOwn
  <2> QED
    BY <1>1, <2>1, PTL DEF Spec
<1> QED
  BY <1>2, <1>3

\* No run is advanced by two tasks at once (engine.rs: advance, step_to, park and
\* finish work on a copy of the run and put it back, so two of them on one run
\* would run its steps twice).  It holds for any number of runs and tasks, of
\* operator calls one at a time, and whatever the agents, the terminals, the
\* clock and the store do, as long as nothing is cancelled, no run is started
\* before resume has picked up the rows, and the terminal a run opens is its own
\* across restarts.
THEOREM OneDriverARun ==
    ASSUME NothingCancels, RowsComeFirst, OneCallAtATime,
           NothingIsShared \/ NoTerminalSteps
    PROVE  Spec => []OneDriver
<1>1. Typed /\ Solo => OneDriver
  BY DEF Solo
<1> QED
  BY <1>1, SoloInvariant, PTL
-----------------------------------------------------------------------------
(* No run takes more steps than it may, and none leaves its workflow.      *)

LEMMA WithinLemma ==
    /\ Within(Absent) /\ Within(Beginning) /\ Within(Idle.held)
    /\ \A r : Within(Driving(r).held) /\ Within(Sleeping(r).held)
    /\ \A x, on : Within(Parking(x, on).held) /\ Within(Finishing(x, on).held)
    /\ \A r, by, to, ok : Within(Stepping(r, by, to, ok).held)
    /\ \A run, on : Within(run) => Within(Ended(run, on))
    /\ \A run, on : Within(run) /\ run.steps < MaxSteps => Within(Parked(run, on))
    /\ \A run \in Run : \A to, ok : run.steps < MaxSteps => Within(Moved(run, to, ok))
<1>1. Within(Absent) /\ Within(Beginning)
  BY ConstantsAssumption DEF Within, Absent, Beginning
<1>2. /\ Idle.held = Absent
      /\ \A r : Driving(r).held = Absent /\ Sleeping(r).held = Absent
      /\ \A x, on : Parking(x, on).held = Absent /\ Finishing(x, on).held = Absent
      /\ \A r, by, to, ok : Stepping(r, by, to, ok).held = Absent
  BY DEF Idle, Driving, Sleeping, Working, Parking, Finishing, Stepping
<1>3. \A run, on : Within(run) => Within(Ended(run, on))
  BY DEF Within, Ended
<1>4. \A run, on : Within(run) /\ run.steps < MaxSteps => Within(Parked(run, on))
  BY DEF Within, Parked
<1>5. ASSUME NEW run \in Run, NEW to, NEW ok, run.steps < MaxSteps
      PROVE  Within(Moved(run, to, ok))
  <2>1. run.steps \in Nat
    BY DEF Run
  <2>2. Moved(run, to, ok).steps = run.steps + 1 /\ Moved(run, to, ok).is = "running"
    BY DEF Moved
  <2> QED
    BY <1>5, <2>1, <2>2, ConstantsAssumption DEF Within
<1> QED
  BY <1>1, <1>2, <1>3, <1>4, <1>5

\* The tasks beside the one that acts stay on track, for their runs stay as they
\* were.
LEMMA PacedStays ==
    ASSUME Typed, Paced, NEW t \in Tasks,
           \A u \in Tasks \ {t} : \/ task'[u] = task[u]
                                  \/ task'[u].pc = "sleep" /\ Within(task'[u].held),
           \A u \in Tasks \ {t}, r \in Runs : Carries(u, r) => runs'[r] = runs[r],
           OnTrack(task'[t], runs'[task'[t].run])
    PROVE  Paced'
<1> SUFFICES ASSUME NEW u \in Tasks
             PROVE  OnTrack(task'[u], runs'[task'[u].run])
  BY DEF Paced, OnTrack, Within
<1>1. CASE u = t
  BY <1>1
<1>2. CASE u # t /\ task'[u].pc = "sleep" /\ Within(task'[u].held)
  BY <1>2 DEF OnTrack
<1>3. CASE u # t /\ task'[u] = task[u]
  <2>1. OnTrack(task[u], runs[task[u].run])
    BY DEF Paced
  <2>2. CASE task[u].pc \in {"execute", "open", "park", "step"}
    <3>1. task[u].run \in Runs /\ Carries(u, task[u].run)
      BY <2>2 DEF Typed, TaskOK, Sound, Carries, Carrying
    <3>2. runs'[task[u].run] = runs[task[u].run]
      BY <1>3, <3>1
    <3> QED
      BY <1>3, <2>1, <3>2
  <2>3. CASE task[u].pc \notin {"execute", "open", "park", "step"}
    BY <1>3, <2>1, <2>3 DEF OnTrack
  <2> QED
    BY <2>2, <2>3
<1> QED
  BY <1>1, <1>2, <1>3

LEMMA TurnPaced ==
    ASSUME Typed, Paced, NEW t \in Tasks, NEW next, Becomes(t, next), UNCHANGED runs,
           OnTrack(next, runs[next.run])
    PROVE  Paced'
<1>1. task'[t] = next /\ \A u \in Tasks \ {t} : task'[u] = task[u]
  BY DEF Becomes, Typed, TypeOK
<1>2. runs' = runs
  OBVIOUS
<1>3. OnTrack(task'[t], runs'[task'[t].run])
  BY <1>1, <1>2
<1> QED
  BY <1>1, <1>2, <1>3, PacedStays

\* A task that only waits, loops, ends or takes its leave is on track.
LEMMA EasilyOnTrack ==
    ASSUME NEW x, NEW run, Within(x.held), x.pc \notin {"execute", "open", "park", "step"}
    PROVE  OnTrack(x, run)
BY DEF OnTrack

LEMMA SteppingOnTrack ==
    ASSUME NEW r, NEW by, NEW to, NEW ok, NEW run, run.steps < MaxSteps,
           to \in {Graph[run.at].next, Graph[run.at].alt}
    PROVE  OnTrack(Stepping(r, by, to, ok), run) /\ Stepping(r, by, to, ok).run = r
<1>1. /\ Stepping(r, by, to, ok).pc = "step" /\ Stepping(r, by, to, ok).to = to
      /\ Stepping(r, by, to, ok).run = r /\ Within(Stepping(r, by, to, ok).held)
  BY WithinLemma DEF Stepping
<1> QED
  BY <1>1 DEF OnTrack

\* What a step does leaves the run where it is, with a step left unless it ends,
\* and leads where the step leads.
LEMMA ExecutePaced ==
    ASSUME Typed, Solo, Tracked, NEW t \in Tasks, Execute(t)
    PROVE  Paced'
<1> DEFINE x == task[t]
           r == x.run
<1>1. /\ x.pc \in {"execute", "open"} /\ r \in Runs /\ runs' = runs
      /\ x.held \in Run /\ x.held.at \in Nodes /\ x.held.steps \in Nat
  BY DEF Execute, RunsOut, StepMissing, ExecuteEmit, ExecuteEnd, ExecuteCondition,
         ExecuteApproval, ExecuteAction, ExecuteAgent, ExecuteClose, ExecuteOpen, Executes,
         ExecuteDelay, Typed, TaskOK, Sound, Task, Run
<1>2. /\ Within(x.held) /\ x.held = runs[r]
      /\ x.pc = "open" => runs[r].steps < MaxSteps
  BY <1>1 DEF Tracked, Paced, OnTrack
<1>3. RunsOut(t) \/ StepMissing(t) \/ runs[r].steps < MaxSteps
  <2>1. CASE x.pc = "open"
    BY <1>2, <2>1
  <2>2. CASE x.pc = "execute"
    <3>1. RunsOut(t) \/ StepMissing(t) \/ ~Exhausted(r, x.held)
      BY <2>2 DEF Execute, ExecuteEmit, ExecuteEnd, ExecuteCondition, ExecuteApproval,
           ExecuteAction, ExecuteAgent, ExecuteClose, ExecuteOpen, Executes, ExecuteDelay
    <3> QED
      BY <1>1, <1>2, <3>1, ConstantsAssumption DEF Exhausted
  <2> QED
    BY <1>1, <2>1, <2>2
<1>4. \A on : OnTrack(Finishing(x, on), runs[r]) /\ Finishing(x, on).run = r
  <2>1. \A on : /\ Finishing(x, on).pc = "finish" /\ Finishing(x, on).run = r
                /\ Within(Finishing(x, on).held)
    BY WithinLemma DEF Finishing
  <2> QED
    BY <2>1 DEF OnTrack
<1>5. CASE \E on : Becomes(t, Finishing(x, on))
  <2>1. PICK on : Becomes(t, Finishing(x, on))
    BY <1>5
  <2> QED
    BY <1>1, <1>4, <2>1, TurnPaced DEF Tracked
<1>6. CASE runs[r].steps < MaxSteps
  <2>1. \A on : OnTrack(Parking(x, on), runs[r]) /\ Parking(x, on).run = r
    <3>1. \A on : /\ Parking(x, on).pc = "park" /\ Parking(x, on).run = r
                  /\ Within(Parking(x, on).held)
      BY WithinLemma DEF Parking
    <3> QED
      BY <1>6, <3>1 DEF OnTrack
  <2>2. \A to, ok : to \in {Graph[x.held.at].next, Graph[x.held.at].alt} =>
            /\ OnTrack(Stepping(r, x.by, to, ok), runs[r])
            /\ Stepping(r, x.by, to, ok).run = r
    BY <1>2, <1>6, SteppingOnTrack
  <2>3. CASE \E s \in Tasks : ExecuteDelay(t, s)
    <3>1. PICK s \in Tasks : ExecuteDelay(t, s)
      BY <2>3
    <3>2. /\ s # t
          /\ task' = [task EXCEPT ![t] = Parking(x, "delay"), ![s] = Sleeping(r)]
      BY <3>1 DEF ExecuteDelay
    <3>3. /\ task'[t] = Parking(x, "delay") /\ task'[s] = Sleeping(r)
          /\ \A u \in Tasks \ {t, s} : task'[u] = task[u]
      BY <3>2 DEF Typed, TypeOK
    <3>4. task'[s].pc = "sleep" /\ Within(task'[s].held)
      BY <3>3, WithinLemma DEF Sleeping, Working
    <3>5. OnTrack(task'[t], runs'[task'[t].run])
      BY <1>1, <2>1, <3>3
    <3> QED
      BY <1>1, <3>3, <3>4, <3>5, PacedStays DEF Tracked
  <2>4. CASE ExecuteEmit(t) \/ ExecuteCondition(t) \/ ExecuteAction(t) \/ ExecuteAgent(t)
             \/ ExecuteOpen(t) \/ ExecuteApproval(t)
    <3>1. \/ \E on : Becomes(t, Finishing(x, on)) \/ Becomes(t, Parking(x, on))
          \/ \E to \in {Graph[x.held.at].next, Graph[x.held.at].alt}, ok \in BOOLEAN :
                Becomes(t, Stepping(r, x.by, to, ok))
      <4>1. CASE ExecuteEmit(t)
        <5>1. Becomes(t, Stepping(r, x.by, Here(t).next, TRUE))
          BY <4>1 DEF ExecuteEmit
        <5>2. Here(t).next \in {Graph[x.held.at].next, Graph[x.held.at].alt}
          BY DEF Here
        <5> QED
          BY <5>1, <5>2
      <4>2. CASE ExecuteCondition(t)
        <5> DEFINE to == IF Holds(x.held.at, x.held) THEN Here(t).next ELSE Here(t).alt
        <5>1. Becomes(t, Stepping(r, x.by, to, x.held.ok))
          BY <4>2 DEF ExecuteCondition
        <5>2. to \in {Graph[x.held.at].next, Graph[x.held.at].alt}
          BY DEF Here
        <5>3. x.held.ok \in BOOLEAN
          BY <1>1 DEF Run
        <5> QED
          BY <5>1, <5>2, <5>3
      <4>3. CASE ExecuteAction(t)
        BY <4>3 DEF ExecuteAction, Here
      <4>4. CASE ExecuteAgent(t) \/ ExecuteOpen(t)
        <5>1. \/ \E on : Becomes(t, Parking(x, on))
              \/ Becomes(t, Stepping(r, x.by, Here(t).alt, FALSE))
          BY <4>4 DEF ExecuteAgent, ExecuteOpen
        <5>2. Here(t).alt \in {Graph[x.held.at].next, Graph[x.held.at].alt}
          BY DEF Here
        <5> QED
          BY <5>1, <5>2
      <4>5. CASE ExecuteApproval(t)
        BY <4>5 DEF ExecuteApproval
      <4> QED
        BY <2>4, <4>1, <4>2, <4>3, <4>4, <4>5
    <3>2. ASSUME NEW on, Becomes(t, Parking(x, on))
          PROVE  Paced'
      BY <1>1, <2>1, <3>2, TurnPaced DEF Tracked
    <3>3. ASSUME NEW to, NEW ok, to \in {Graph[x.held.at].next, Graph[x.held.at].alt},
                 Becomes(t, Stepping(r, x.by, to, ok))
          PROVE  Paced'
      BY <1>1, <2>2, <3>3, TurnPaced DEF Tracked
    <3> QED
      BY <1>5, <3>1, <3>2, <3>3
  <2>5. CASE ExecuteClose(t)
    <3> DEFINE next == Working("open", r, x.held, x.by)
    <3>1. Becomes(t, next)
      BY <2>5 DEF ExecuteClose
    <3>2. next.pc = "open" /\ next.run = r /\ next.held = x.held
      BY DEF Working
    <3> HIDE DEF next
    <3>3. OnTrack(next, runs[r])
      BY <1>2, <1>6, <3>2 DEF OnTrack
    <3> QED
      BY <1>1, <3>1, <3>2, <3>3, TurnPaced DEF Tracked
  <2>6. CASE ExecuteEnd(t)
    BY <1>5, <2>6 DEF ExecuteEnd
  <2>7. CASE RunsOut(t) \/ StepMissing(t)
    BY <1>5, <2>7 DEF RunsOut, StepMissing
  <2> QED
    BY <2>3, <2>4, <2>5, <2>6, <2>7 DEF Execute
<1>7. CASE RunsOut(t) \/ StepMissing(t)
  BY <1>5, <1>7 DEF RunsOut, StepMissing
<1> QED
  BY <1>3, <1>6, <1>7

\* The task that puts a copy back is alone on its run.
LEMMA InsertPaced ==
    ASSUME Typed, Solo, Tracked, NEW t \in Tasks, Insert(t)
    PROVE  Paced' /\ \A q \in Runs : Within(runs'[q])
<1> DEFINE x == task[t]
           r == x.run
<1>1. /\ x.pc = "insert" /\ r \in Runs /\ x.held \in Run /\ Remembered(r, x.held)
      /\ TypeOK /\ Carries(t, r)
  BY DEF Insert, Typed, TypeOK, TaskOK, Sound, Task, Carries, Carrying
<1>2. /\ \A q \in Runs \ {r} : \/ runs'[q] = runs[q]
                               \/ runs[q].is = "finished" /\ runs'[q] = Absent
      /\ runs'[r] = x.held \/ (x.held.is = "finished" /\ runs'[r] = Absent)
  BY <1>1, RememberedOthers
<1>3. /\ task'[t] = Working("record", r, x.held, x.by)
      /\ \A u \in Tasks \ {t} : task'[u] = task[u]
  BY DEF Insert, Becomes, Typed, TypeOK
<1>4. Within(x.held) /\ \A q \in Runs : Within(runs[q])
  BY DEF Tracked, Paced, OnTrack, RunsWithin
<1>5. ASSUME NEW u \in Tasks \ {t}, NEW q \in Runs, Carries(u, q)
      PROVE  runs'[q] = runs[q]
  <2>1. q # r /\ Live(runs[q])
    BY <1>1, <1>5 DEF Solo, OneDriver, CarriedIsLive
  <2> QED
    BY <1>2, <2>1 DEF Live
<1>6. OnTrack(task'[t], runs'[task'[t].run])
  <2>1. task'[t].pc = "record" /\ Within(task'[t].held)
    BY <1>3, <1>4 DEF Working
  <2> QED
    BY <2>1, EasilyOnTrack
<1>7. Paced'
  BY <1>3, <1>5, <1>6, PacedStays DEF Tracked
<1>8. \A q \in Runs : runs'[q] \in {runs[q], x.held, Absent}
  BY <1>2
<1> QED
  BY <1>4, <1>7, <1>8, WithinLemma

\* What is written of a run is an edge of its workflow.
LEMMA AppendedFollows ==
    ASSUME Typed, HistoryFollowsGraph, NEW r \in Runs, NEW from, NEW to,
           Appended(r, from, to),
           \/ from = None /\ to = Start
           \/ from \in Nodes /\ to \in {Graph[from].next, Graph[from].alt}
    PROVE  HistoryFollowsGraph'
<1>1. CASE UNCHANGED written
  BY <1>1 DEF HistoryFollowsGraph
<1>2. CASE written' = [written EXCEPT ![r] = @ \cup {<<from, to>>}]
  <2>1. \A q \in Runs : written'[q] = IF q = r THEN written[q] \cup {<<from, to>>} ELSE written[q]
    BY <1>2 DEF Typed, TypeOK
  <2> SUFFICES ASSUME NEW q \in Runs, NEW edge \in written'[q]
               PROVE  \/ edge = <<None, Start>>
                      \/ /\ edge[1] \in Nodes
                         /\ edge[2] \in {Graph[edge[1]].next, Graph[edge[1]].alt}
    BY DEF HistoryFollowsGraph
  <2>2. CASE edge \in written[q]
    BY <2>2 DEF HistoryFollowsGraph
  <2>3. CASE edge = <<from, to>>
    BY <2>3
  <2> QED
    BY <2>1, <2>2, <2>3
<1> QED
  BY <1>1, <1>2 DEF Appended

LEMMA CarryHistory ==
    ASSUME Typed, Solo, Tracked, NEW t \in Tasks, Carry(t)
    PROVE  HistoryFollowsGraph'
<1> DEFINE x == task[t]
           r == x.run
<1>1. x.pc # "idle" => r \in Runs /\ runs[r].at \in Nodes
  BY DEF Typed, TypeOK, TaskOK, Sound, Run
<1>2. CASE StepTo(t)
  <2>1. x.pc = "step" /\ r \in Runs /\ Carries(t, r)
    BY <1>1, <1>2 DEF StepTo, Carries, Carrying
  <2>2. Live(runs[r])
    BY <2>1 DEF Solo, CarriedIsLive
  <2>3. Appended(r, runs[r].at, x.to)
    BY <1>2, <2>2 DEF StepTo
  <2>4. x.to \in {Graph[runs[r].at].next, Graph[runs[r].at].alt}
    BY <2>1 DEF Tracked, Paced, OnTrack
  <2> QED
    BY <1>1, <2>1, <2>3, <2>4, AppendedFollows DEF Tracked
<1>3. CASE Begin(t)
  <2>1. r \in Runs /\ Appended(r, None, Start)
    BY <1>1, <1>3 DEF Begin
  <2> QED
    BY <2>1, AppendedFollows DEF Tracked
<1>4. CASE ~StepTo(t) /\ ~Begin(t)
  <2>1. written' = written
    BY <1>4 DEF Carry, Execute, RunsOut, StepMissing, ExecuteEmit, ExecuteEnd,
           ExecuteCondition, ExecuteApproval, ExecuteAction, ExecuteAgent, ExecuteClose,
           ExecuteOpen, ExecuteDelay, Advance, Park, Finish, Insert, Record, Wake, store
  <2> QED
    BY <2>1 DEF Tracked, HistoryFollowsGraph
<1> QED
  BY <1>2, <1>3, <1>4

LEMMA CarryWithin ==
    ASSUME Typed, Solo, Tracked, NEW t \in Tasks, Carry(t)
    PROVE  RunsWithin'
<1> DEFINE x == task[t]
           r == x.run
<1>1. /\ Within(x.held) /\ disk \in [Runs -> Run]
      /\ \A q \in Runs : Within(runs[q]) /\ Within(disk[q]) /\ Within(recovery.rows[q])
  BY DEF Tracked, Paced, OnTrack, RunsWithin, Typed, TypeOK
<1>2. recovery' = recovery
  BY DEF Carry, Execute, RunsOut, StepMissing, ExecuteEmit, ExecuteEnd, ExecuteCondition,
         ExecuteApproval, ExecuteAction, ExecuteAgent, ExecuteClose, ExecuteOpen,
         ExecuteDelay, Advance, StepTo, Park, Finish, Insert, Record, Begin, Wake
<1>3. \A q \in Runs : Within(runs'[q])
  <2>1. CASE Insert(t)
    BY <2>1, InsertPaced
  <2>2. CASE ~Insert(t)
    <3>1. runs' = runs
      BY <2>2 DEF Carry, Execute, RunsOut, StepMissing, ExecuteEmit, ExecuteEnd,
             ExecuteCondition, ExecuteApproval, ExecuteAction, ExecuteAgent, ExecuteClose,
             ExecuteOpen, ExecuteDelay, Advance, StepTo, Park, Finish, Record, Begin, Wake
    <3> QED
      BY <1>1, <3>1
  <2> QED
    BY <2>1, <2>2
<1>4. \A q \in Runs : Within(disk'[q])
  <2>1. CASE Record(t)
    <3>1. disk' = disk \/ disk' = [disk EXCEPT ![r] = x.held]
      BY <2>1 DEF Record, Saved
    <3>2. \A q \in Runs : disk'[q] \in {disk[q], x.held}
      BY <1>1, <3>1
    <3> QED
      BY <1>1, <3>2
  <2>2. CASE ~Record(t)
    <3>1. disk' = disk
      BY <2>2 DEF Carry, Execute, RunsOut, StepMissing, ExecuteEmit, ExecuteEnd,
             ExecuteCondition, ExecuteApproval, ExecuteAction, ExecuteAgent, ExecuteClose,
             ExecuteOpen, ExecuteDelay, Advance, StepTo, Park, Finish, Insert, Begin, Wake,
             store
    <3> QED
      BY <1>1, <3>1
  <2> QED
    BY <2>1, <2>2
<1> QED
  BY <1>1, <1>2, <1>3, <1>4 DEF RunsWithin, Within

LEMMA CarryPaced ==
    ASSUME Typed, Solo, Tracked, NEW t \in Tasks, Carry(t)
    PROVE  Paced'
<1> DEFINE x == task[t]
           r == x.run
<1>1. x.pc # "idle" => r \in Runs /\ runs[r] \in Run
  BY DEF Typed, TypeOK, TaskOK, Sound
<1>2. Carrying(x, r) /\ r \in Runs => Live(runs[r])
  BY DEF Solo, CarriedIsLive, Carries
<1>3. /\ OnTrack(x, runs[r]) /\ Within(x.held) /\ Within(Absent)
      /\ \A q \in Runs : Within(runs[q])
  BY WithinLemma DEF Tracked, Paced, OnTrack, RunsWithin
<1>4. ASSUME NEW next, Becomes(t, next), UNCHANGED runs, Within(next.held),
             next.pc \notin {"execute", "open", "park", "step"}
      PROVE  Paced'
  BY <1>4, EasilyOnTrack, TurnPaced DEF Tracked
<1>5. CASE Advance(t)
  <2> DEFINE next == Working("execute", r, runs[r], x.by)
  <2>1. x.pc = "loop" /\ runs' = runs /\ r \in Runs
    BY <1>1, <1>5 DEF Advance
  <2>2. Becomes(t, next)
    BY <1>2, <1>5, <2>1 DEF Advance, Carrying
  <2>3. next.pc = "execute" /\ next.run = r /\ next.held = runs[r]
    BY DEF Working
  <2> HIDE DEF next
  <2>4. OnTrack(next, runs[next.run])
    BY <1>3, <2>1, <2>3 DEF OnTrack
  <2> QED
    BY <2>1, <2>2, <2>4, TurnPaced DEF Tracked
<1>6. CASE Execute(t)
  BY <1>6, ExecutePaced
<1>7. CASE StepTo(t)
  <2> DEFINE next == Holding(x, Moved(runs[r], x.to, x.ok))
  <2>1. x.pc = "step" /\ runs' = runs /\ r \in Runs
    BY <1>1, <1>7 DEF StepTo
  <2>2. Becomes(t, next)
    BY <1>2, <1>7, <2>1 DEF StepTo, Carrying
  <2>3. runs[r].steps < MaxSteps
    BY <1>3, <2>1 DEF OnTrack
  <2>4. Within(Moved(runs[r], x.to, x.ok))
    BY <1>1, <2>1, <2>3, WithinLemma
  <2>5. next.pc = "insert" /\ next.held = Moved(runs[r], x.to, x.ok)
    BY DEF Holding, Working
  <2> HIDE DEF next
  <2> QED
    BY <1>4, <2>1, <2>2, <2>4, <2>5
<1>8. CASE Park(t)
  <2> DEFINE next == Holding(x, Parked(runs[r], x.on))
  <2>1. x.pc = "park" /\ runs' = runs /\ r \in Runs
    BY <1>1, <1>8 DEF Park
  <2>2. Becomes(t, next)
    BY <1>2, <1>8, <2>1 DEF Park, Carrying
  <2>3. runs[r].steps < MaxSteps
    BY <1>3, <2>1 DEF OnTrack
  <2>4. Within(Parked(runs[r], x.on))
    BY <1>3, <2>1, <2>3, WithinLemma
  <2>5. next.pc = "insert" /\ next.held = Parked(runs[r], x.on)
    BY DEF Holding, Working
  <2> HIDE DEF next
  <2> QED
    BY <1>4, <2>1, <2>2, <2>4, <2>5
<1>9. CASE Finish(t)
  <2> DEFINE next == Holding(x, Ended(runs[r], x.on))
  <2>1. x.pc = "finish" /\ runs' = runs /\ r \in Runs
    BY <1>1, <1>9 DEF Finish
  <2>2. Becomes(t, next)
    BY <1>2, <1>9, <2>1 DEF Finish, Carrying, Live
  <2>3. Within(Ended(runs[r], x.on))
    BY <1>3, <2>1, WithinLemma
  <2>4. next.pc = "insert" /\ next.held = Ended(runs[r], x.on)
    BY DEF Holding, Working
  <2> HIDE DEF next
  <2> QED
    BY <1>4, <2>1, <2>2, <2>3, <2>4
<1>10. CASE Insert(t)
  BY <1>10, InsertPaced
<1>11. CASE Record(t) \/ Begin(t)
  <2>1. runs' = runs
    BY <1>11 DEF Record, Begin
  <2>2. PICK next : /\ Becomes(t, next)
                    /\ \/ next = Idle
                       \/ next = Driving(r)
                       \/ next = Working("begin", r, Absent, x.by)
    <3>1. CASE Begin(t)
      BY <3>1 DEF Begin
    <3>2. CASE Record(t)
      BY <3>2, RecordTurns
    <3> QED
      BY <1>11, <3>1, <3>2
  <2>3. next.pc \in {"idle", "loop", "begin"} /\ next.held = Absent
    BY <2>2 DEF Idle, Driving, Working
  <2> QED
    BY <1>3, <1>4, <2>1, <2>2, <2>3
<1>12. CASE Wake(t)
  <2> DEFINE next == Stepping(r, x.by, Graph[runs[r].at].next, runs[r].ok)
  <2>1. /\ x.pc = "sleep" /\ runs' = runs /\ r \in Runs
        /\ Becomes(t, Idle) \/ (Becomes(t, next) /\ Waits(runs[r], "delay"))
    BY <1>1, <1>12 DEF Wake
  <2>2. CASE Becomes(t, Idle)
    <3>1. Idle.pc = "idle" /\ Within(Idle.held)
      BY WithinLemma DEF Idle, Working
    <3> QED
      BY <1>4, <2>1, <2>2, <3>1
  <2>3. CASE Becomes(t, next) /\ Waits(runs[r], "delay")
    <3>1. runs[r].steps < MaxSteps
      BY <1>3, <2>1, <2>3 DEF Within, Waits
    <3>2. OnTrack(next, runs[r]) /\ next.run = r
      BY <3>1, SteppingOnTrack
    <3> HIDE DEF next
    <3> QED
      BY <2>1, <2>3, <3>2, TurnPaced DEF Tracked
  <2> QED
    BY <2>1, <2>2, <2>3
<1> QED
  BY <1>5, <1>6, <1>7, <1>8, <1>9, <1>10, <1>11, <1>12 DEF Carry

LEMMA NewsTracked ==
    ASSUME Typed, Tracked, NEW t \in Tasks, AgentFinished(t) \/ TerminalFinished(t)
    PROVE  Tracked'
<1>1. runs' = runs /\ disk' = disk /\ recovery' = recovery /\ written' = written
  BY DEF AgentFinished, TerminalFinished, store
<1>2. \E worker, ok, by : Released(t, worker, ok, by)
  BY DEF AgentFinished, TerminalFinished
<1>3. PICK worker, ok, by : Released(t, worker, ok, by)
  BY <1>2
<1>4. ASSUME NEW r \in Runs, NEW to \in {Graph[runs[r].at].next, Graph[runs[r].at].alt},
             Waits(runs[r], worker), Becomes(t, Stepping(r, by, to, ok))
      PROVE  Paced'
  <2>1. runs[r].steps < MaxSteps
    BY <1>4 DEF Tracked, RunsWithin, Within, Waits
  <2>2. OnTrack(Stepping(r, by, to, ok), runs[r]) /\ Stepping(r, by, to, ok).run = r
    BY <2>1, SteppingOnTrack
  <2> QED
    BY <1>1, <1>4, <2>2, TurnPaced DEF Tracked
<1>5. CASE task' = task
  BY <1>1, <1>5 DEF Tracked, Paced, RunsWithin, HistoryFollowsGraph
<1>6. Paced'
  BY <1>3, <1>4, <1>5, ReleasedTurns DEF Tracked
<1>7. RunsWithin' /\ HistoryFollowsGraph'
  BY <1>1 DEF Tracked, RunsWithin, HistoryFollowsGraph
<1> QED
  BY <1>6, <1>7 DEF Tracked

LEMMA OperatorTracked ==
    ASSUME Typed, Solo, Tracked, NothingCancels, Operator
    PROVE  Tracked'
<1>1. /\ \A q \in Runs : Within(runs[q]) /\ Within(disk[q]) /\ Within(recovery.rows[q])
      /\ disk \in [Runs -> Run]
  BY DEF Tracked, RunsWithin, Typed, TypeOK
<1>2. recovery' = recovery
  BY DEF Operator, StartRun, Cancel, Answer, CallDropped
<1>3. ASSUME NEW t \in Tasks, CallDropped(t)
      PROVE  Tracked'
  <2>1. runs' = runs /\ Becomes(t, Idle)
        /\ (disk' = disk \/ disk' = [disk EXCEPT ![task[t].run] = task[t].held])
    BY <1>3 DEF CallDropped, Saved
  <2>2. Idle.pc = "idle" /\ Within(Idle.held) /\ Within(task[t].held)
    BY WithinLemma DEF Idle, Working, Tracked, Paced, OnTrack
  <2>3. Paced'
    BY <2>1, <2>2, EasilyOnTrack, TurnPaced DEF Tracked
  <2>4. \A q \in Runs : disk'[q] \in {disk[q], task[t].held}
    BY <1>1, <2>1
  <2>5. RunsWithin'
    <3>1. \A q \in Runs : Within(runs'[q]) /\ Within(disk'[q]) /\ Within(recovery'.rows[q])
      BY <1>1, <1>2, <2>1, <2>2, <2>4
    <3> QED
      BY <3>1 DEF RunsWithin, Within
  <2>6. HistoryFollowsGraph'
    <3>1. CASE task[t].pc = "begin"
      <4>1. task[t].run \in Runs /\ Appended(task[t].run, None, Start)
        BY <1>3, <3>1 DEF CallDropped, Typed, TaskOK, Sound
      <4> QED
        BY <4>1, AppendedFollows DEF Tracked
    <3>2. CASE task[t].pc # "begin"
      <4>1. written' = written
        BY <1>3, <3>2 DEF CallDropped
      <4> QED
        BY <4>1 DEF Tracked, HistoryFollowsGraph
    <3> QED
      BY <3>1, <3>2
  <2> QED
    BY <2>3, <2>5, <2>6 DEF Tracked
<1>4. ASSUME NEW t \in Tasks, NEW r \in Runs, StartRun(t, r)
      PROVE  Tracked'
  <2> DEFINE next == Working("record", r, Beginning, "operator")
  <2>1. /\ Remembered(r, Beginning) /\ disk' = disk /\ written' = written /\ Fresh(r)
        /\ Becomes(t, next)
    BY <1>4 DEF StartRun, store
  <2>2. /\ runs'[r] = Beginning
        /\ \A q \in Runs \ {r} : \/ runs'[q] = runs[q]
                                 \/ runs[q].is = "finished" /\ runs'[q] = Absent
    BY <2>1, RecordLemma, RememberedOthers DEF Typed, Beginning
  <2>3. task'[t] = next /\ \A u \in Tasks \ {t} : task'[u] = task[u]
    BY <2>1 DEF Becomes, Typed, TypeOK
  <2>4. next.pc = "record" /\ Within(next.held)
    BY WithinLemma DEF Working
  <2> HIDE DEF next
  <2>5. OnTrack(task'[t], runs'[task'[t].run])
    BY <2>3, <2>4, EasilyOnTrack
  <2>6. ASSUME NEW u \in Tasks \ {t}, NEW q \in Runs, Carries(u, q)
        PROVE  runs'[q] = runs[q]
    <3>1. q # r /\ Live(runs[q])
      BY <2>1, <2>6 DEF Fresh, Solo, CarriedIsLive, Carries, Carrying
    <3> QED
      BY <2>2, <3>1 DEF Live
  <2>7. Paced'
    BY <2>3, <2>5, <2>6, PacedStays DEF Tracked
  <2>8. RunsWithin'
    <3>1. \A q \in Runs : runs'[q] \in {runs[q], Beginning, Absent}
      BY <2>2
    <3>2. \A q \in Runs : Within(runs'[q]) /\ Within(disk'[q]) /\ Within(recovery'.rows[q])
      BY <1>1, <1>2, <2>1, <3>1, WithinLemma
    <3> QED
      BY <3>2 DEF RunsWithin, Within
  <2>9. HistoryFollowsGraph'
    BY <2>1 DEF Tracked, HistoryFollowsGraph
  <2> QED
    BY <2>7, <2>8, <2>9 DEF Tracked
<1>5. ASSUME NEW t \in Tasks, NEW r \in Runs, NEW allow \in BOOLEAN, Answer(t, r, allow)
      PROVE  Tracked'
  <2> DEFINE to == IF allow THEN Graph[runs[r].at].next ELSE Graph[runs[r].at].alt
             next == Stepping(r, "operator", to, allow)
  <2>1. /\ Becomes(t, next) /\ Waits(runs[r], "approval")
        /\ runs' = runs /\ disk' = disk /\ written' = written
    BY <1>5 DEF Answer, store
  <2>2. runs[r].steps < MaxSteps
    BY <1>1, <2>1 DEF Within, Waits
  <2>3. to \in {Graph[runs[r].at].next, Graph[runs[r].at].alt}
    OBVIOUS
  <2> HIDE DEF to
  <2>4. OnTrack(next, runs[r]) /\ next.run = r
    BY <2>2, <2>3, SteppingOnTrack
  <2> HIDE DEF next
  <2>5. Paced'
    BY <2>1, <2>4, TurnPaced DEF Tracked
  <2>6. RunsWithin' /\ HistoryFollowsGraph'
    BY <1>2, <2>1 DEF Tracked, RunsWithin, HistoryFollowsGraph
  <2> QED
    BY <2>5, <2>6 DEF Tracked
<1> QED
  BY <1>3, <1>4, <1>5 DEF Operator, Cancel, NothingCancels

LEMMA ResumeTracked ==
    ASSUME Typed, Solo, Tracked, Resume
    PROVE  Tracked'
<1>1. /\ \A q \in Runs : Within(runs[q]) /\ Within(disk[q]) /\ Within(recovery.rows[q])
      /\ recovery.rows \in [Runs -> Run]
  BY DEF Tracked, RunsWithin, Typed, TypeOK
<1>2. disk' = disk /\ written' = written
  BY DEF Resume, ReadUnfinished, PickUpApproval, PickUpGone, PickUpStep, PickUpDelay, store
<1>3. HistoryFollowsGraph'
  BY <1>2 DEF Tracked, HistoryFollowsGraph
<1>4. CASE ReadUnfinished
  <2>1. runs' = runs /\ task' = task
    BY <1>4 DEF ReadUnfinished
  <2>2. \A r \in Runs : recovery'.rows[r] \in {disk[r], recovery.rows[r], Absent}
    <3>1. CASE recovery' = [read |-> TRUE,
                            rows |-> [r \in Runs |-> IF Live(disk[r]) THEN disk[r] ELSE Absent]]
      BY <3>1
    <3>2. CASE recovery' = [read |-> TRUE, rows |-> recovery.rows]
      BY <3>2
    <3> QED
      BY <1>4, <3>1, <3>2 DEF ReadUnfinished
  <2>3. \A q \in Runs : Within(runs'[q]) /\ Within(disk'[q]) /\ Within(recovery'.rows[q])
    BY <1>1, <1>2, <2>1, <2>2, WithinLemma
  <2>4. RunsWithin'
    BY <2>3 DEF RunsWithin, Within
  <2>5. Paced'
    BY <2>1 DEF Tracked, Paced
  <2> QED
    BY <1>3, <2>4, <2>5 DEF Tracked
<1>5. ASSUME NEW r \in Runs, PicksUp(r), NEW run, Within(run),
             \A q \in Runs \ {r} : \/ runs'[q] = runs[q]
                                   \/ runs[q].is = "finished" /\ runs'[q] = Absent,
             runs'[r] \in {run, Absent},
             \/ task' = task
             \/ \E t \in Tasks : \E next : /\ Becomes(t, next)
                                           /\ next.pc \in {"loop", "sleep", "record"}
                                           /\ Within(next.held)
      PROVE  Tracked'
  <2>1. /\ recovery.rows[r] # Absent
        /\ recovery' = [read |-> recovery.read, rows |-> [recovery.rows EXCEPT ![r] = Absent]]
    BY <1>5 DEF PicksUp
  <2>2. \A q \in Runs : recovery'.rows[q] \in {recovery.rows[q], Absent}
    BY <1>1, <2>1
  <2>3. \A q \in Runs : runs'[q] \in {runs[q], run, Absent}
    BY <1>5
  <2>4. RunsWithin'
    <3>1. \A q \in Runs : Within(runs'[q]) /\ Within(disk'[q]) /\ Within(recovery'.rows[q])
      BY <1>1, <1>2, <1>5, <2>2, <2>3, WithinLemma
    <3> QED
      BY <3>1 DEF RunsWithin, Within
  <2>5. ASSUME NEW u \in Tasks, NEW q \in Runs, Carries(u, q)
        PROVE  runs'[q] = runs[q]
    <3>1. q # r
      BY <2>1, <2>5 DEF Solo, Unpicked, Carries, Carrying
    <3>2. Live(runs[q])
      BY <2>5 DEF Solo, CarriedIsLive
    <3> QED
      BY <1>5, <3>1, <3>2 DEF Live
  <2>6. CASE task' = task
    <3>1. ASSUME NEW u \in Tasks
          PROVE  OnTrack(task[u], runs'[task[u].run])
      <4>1. OnTrack(task[u], runs[task[u].run])
        BY DEF Tracked, Paced
      <4>2. CASE task[u].pc \in {"execute", "open", "park", "step"}
        <5>1. task[u].run \in Runs /\ Carries(u, task[u].run)
          BY <4>2 DEF Typed, TaskOK, Sound, Carries, Carrying
        <5>2. runs'[task[u].run] = runs[task[u].run]
          BY <2>5, <5>1
        <5> QED
          BY <4>1, <5>2
      <4>3. CASE task[u].pc \notin {"execute", "open", "park", "step"}
        BY <4>1, <4>3 DEF OnTrack
      <4> QED
        BY <4>2, <4>3
    <3>2. Paced'
      BY <2>6, <3>1 DEF Paced, OnTrack, Within
    <3> QED
      BY <1>3, <2>4, <3>2 DEF Tracked
  <2>7. ASSUME NEW t \in Tasks, NEW next, Becomes(t, next),
               next.pc \in {"loop", "sleep", "record"}, Within(next.held)
        PROVE  Tracked'
    <3>1. task'[t] = next /\ \A u \in Tasks \ {t} : task'[u] = task[u]
      BY <2>7 DEF Becomes, Typed, TypeOK
    <3>2. OnTrack(task'[t], runs'[task'[t].run])
      BY <2>7, <3>1, EasilyOnTrack
    <3>3. Paced'
      BY <2>5, <3>1, <3>2, PacedStays DEF Tracked
    <3> QED
      BY <1>3, <2>4, <3>3 DEF Tracked
  <2> QED
    BY <1>5, <2>6, <2>7
<1>6. ASSUME NEW r \in Runs, runs' = [runs EXCEPT ![r] = recovery.rows[r]]
      PROVE  /\ \A q \in Runs \ {r} : runs'[q] = runs[q]
             /\ runs'[r] = recovery.rows[r] /\ Within(recovery.rows[r])
  BY <1>1, <1>6 DEF Typed, TypeOK
<1>7. ASSUME NEW r \in Runs, PickUpApproval(r)
      PROVE  Tracked'
  <2>1. /\ PicksUp(r) /\ task' = task /\ runs' = [runs EXCEPT ![r] = recovery.rows[r]]
    BY <1>7 DEF PickUpApproval
  <2> QED
    BY <1>5, <1>6, <2>1
<1>8. ASSUME NEW t \in Tasks, NEW r \in Runs, PickUpStep(t, r) \/ PickUpDelay(t, r)
      PROVE  Tracked'
  <2>1. /\ PicksUp(r) /\ runs' = [runs EXCEPT ![r] = recovery.rows[r]]
        /\ Becomes(t, Driving(r)) \/ Becomes(t, Sleeping(r))
    BY <1>8 DEF PickUpStep, PickUpDelay
  <2>2. /\ Driving(r).pc = "loop" /\ Within(Driving(r).held)
        /\ Sleeping(r).pc = "sleep" /\ Within(Sleeping(r).held)
    BY WithinLemma DEF Driving, Sleeping, Working
  <2>3. \E next : /\ Becomes(t, next) /\ next.pc \in {"loop", "sleep", "record"}
                  /\ Within(next.held)
    BY <2>1, <2>2
  <2> QED
    BY <1>5, <1>6, <2>1, <2>3
<1>9. ASSUME NEW t \in Tasks, NEW r \in Runs, PickUpGone(t, r)
      PROVE  Tracked'
  <2> DEFINE run == Ended(recovery.rows[r], "failed")
             next == Working("record", r, run, "resume")
  <2>1. PicksUp(r) /\ Remembered(r, run) /\ Becomes(t, next)
    BY <1>9 DEF PickUpGone
  <2>2. run \in Run /\ Within(run)
    BY <1>1, RecordLemma, WithinLemma DEF Outcomes
  <2>3. next.pc = "record" /\ next.held = run
    BY DEF Working
  <2> HIDE DEF run, next
  <2>4. /\ \A q \in Runs \ {r} : \/ runs'[q] = runs[q]
                                 \/ runs[q].is = "finished" /\ runs'[q] = Absent
        /\ runs'[r] \in {run, Absent}
    BY <2>1, <2>2, RememberedOthers DEF Typed
  <2> QED
    BY <1>5, <2>1, <2>2, <2>3, <2>4
<1> QED
  BY <1>4, <1>7, <1>8, <1>9 DEF Resume

LEMMA EnvironmentTracked ==
    ASSUME Typed, Tracked, Environment
    PROVE  Tracked'
<1>1. CASE Crash
  <2>1. /\ \A t \in Tasks : task'[t] = Idle
        /\ \A r \in Runs : runs'[r] = Absent /\ recovery'.rows[r] = Absent
        /\ written' = written
    BY <1>1 DEF Crash
  <2>2. Idle.pc = "idle" /\ Within(Idle.held) /\ Within(Absent)
    BY WithinLemma DEF Idle, Working
  <2>3. Paced'
    BY <2>1, <2>2 DEF Paced, OnTrack, Within
  <2>4. ASSUME NEW r \in Runs
        PROVE  Within(disk'[r])
    <3>1. disk[r] \in Run /\ Within(disk[r])
      BY DEF Typed, TypeOK, Tracked, RunsWithin
    <3>2. disk'[r] = IF disk[r].on \in Sessions
                     THEN [disk[r] EXCEPT !.on = "lost session"] ELSE disk[r]
      BY <1>1 DEF Crash
    <3>3. disk'[r].steps = disk[r].steps /\ disk'[r].is = disk[r].is
      BY <3>1, <3>2 DEF Run
    <3> QED
      BY <3>1, <3>3 DEF Within
  <2>5. RunsWithin'
    BY <2>1, <2>2, <2>4 DEF RunsWithin, Within
  <2>6. HistoryFollowsGraph'
    BY <2>1 DEF Tracked, HistoryFollowsGraph
  <2> QED
    BY <2>3, <2>5, <2>6 DEF Tracked
<1>2. CASE UNCHANGED <<runs, task, disk, written, recovery>>
  BY <1>2 DEF Tracked, Paced, RunsWithin, HistoryFollowsGraph
<1>3. Crash \/ UNCHANGED <<runs, task, disk, written, recovery>>
  BY DEF Environment, AgentAsks, TurnEnds, ProcessExits, TimePasses, store
<1> QED
  BY <1>1, <1>2, <1>3

LEMMA InitTracked == Init => Tracked
<1> SUFFICES ASSUME Init PROVE Tracked
  OBVIOUS
<1>1. /\ \A r \in Runs : /\ runs[r] = Absent /\ disk[r] = Absent
                         /\ recovery.rows[r] = Absent /\ written[r] = {}
      /\ \A t \in Tasks : task[t] = Idle
  BY DEF Init
<1>2. Idle.pc = "idle" /\ Within(Idle.held) /\ Within(Absent)
  BY WithinLemma DEF Idle, Working
<1> QED
  BY <1>1, <1>2 DEF Tracked, Paced, OnTrack, RunsWithin, HistoryFollowsGraph

LEMMA NextTracked ==
    ASSUME Typed, Solo, Tracked, NothingCancels, [Next]_vars
    PROVE  Tracked'
<1>1. CASE UNCHANGED vars
  <2>1. runs' = runs /\ task' = task /\ disk' = disk /\ written' = written
        /\ recovery' = recovery
    BY <1>1 DEF vars
  <2> QED
    BY <2>1 DEF Tracked, Paced, RunsWithin, HistoryFollowsGraph
<1>2. ASSUME NEW t \in Tasks, Carry(t)
      PROVE  Tracked'
  BY <1>2, CarryPaced, CarryWithin, CarryHistory DEF Tracked
<1>3. CASE Next
  BY <1>2, <1>3, NewsTracked, ResumeTracked, OperatorTracked, EnvironmentTracked DEF Next
<1> QED
  BY <1>1, <1>3

LEMMA TrackedInvariant ==
    ASSUME NothingCancels, RowsComeFirst, OneCallAtATime,
           NothingIsShared \/ NoTerminalSteps
    PROVE  Spec => []Tracked
<1>1. Typed /\ Solo /\ Tracked /\ [Next]_vars => Tracked'
  BY NextTracked
<1> QED
  BY <1>1, InitTracked, SoloInvariant, PTL DEF Spec

\* "How many steps one run may take in total" is never exceeded: the limit is
\* compared where a step is taken up (engine.rs: exhausted) and the count raised
\* where it has been done (step_to), with every await of the step in between, and
\* a restart goes on with the count of the row.
THEOREM StepsAreLimited ==
    ASSUME NothingCancels, RowsComeFirst, OneCallAtATime,
           NothingIsShared \/ NoTerminalSteps
    PROVE  Spec => []StepsWithinLimit
<1>1. Tracked => StepsWithinLimit
  BY DEF Tracked, RunsWithin, Within, StepsWithinLimit
<1> QED
  BY <1>1, TrackedInvariant, PTL

\* The transitions written of a run are edges of its workflow: a step that moves
\* the run (engine.rs: step_to) goes where the step leads that the run is on when
\* it is moved, not the one it was on when the step was taken up.
THEOREM HistoriesFollowTheGraph ==
    ASSUME NothingCancels, RowsComeFirst, OneCallAtATime,
           NothingIsShared \/ NoTerminalSteps
    PROVE  Spec => []HistoryFollowsGraph
<1>1. Tracked => HistoryFollowsGraph
  BY DEF Tracked
<1> QED
  BY <1>1, TrackedInvariant, PTL
-----------------------------------------------------------------------------
(* What has ended.                                                         *)

\* Whoever puts a copy back is on the run, and the run he is on has not ended.
LEMMA EndedStep ==
    ASSUME Typed, Solo, NEW r \in Runs, runs[r].is = "finished", [Next]_vars
    PROVE  runs'[r] \in {runs[r], Absent}
<1>1. CASE runs' = runs
  BY <1>1
<1>2. ASSUME NEW t \in Tasks, Insert(t)
      PROVE  runs'[r] \in {runs[r], Absent}
  <2>1. /\ task[t].pc = "insert" /\ task[t].run \in Runs /\ task[t].held \in Run
        /\ Remembered(task[t].run, task[t].held) /\ TypeOK
    BY <1>2 DEF Insert, Typed, TypeOK, TaskOK, Sound, Task
  <2>2. Live(runs[task[t].run])
    BY <2>1 DEF Solo, CarriedIsLive, Carries, Carrying
  <2> QED
    BY <2>1, <2>2, RememberedOthers DEF Live
<1>3. ASSUME NEW t \in Tasks, NEW q \in Runs, StartRun(t, q)
      PROVE  runs'[r] \in {runs[r], Absent}
  <2>1. Remembered(q, Beginning) /\ runs[q] = Absent
    BY <1>3 DEF StartRun, Fresh
  <2> QED
    BY <2>1, RecordLemma, RememberedOthers DEF Typed, Absent
<1>4. ASSUME NEW q \in Runs, PicksUp(q)
      PROVE  runs[q] = Absent /\ recovery.rows[q] \in Run
  BY <1>4 DEF PicksUp, Solo, Unpicked, Typed, TypeOK
<1>5. ASSUME NEW t \in Tasks, NEW q \in Runs, PickUpGone(t, q)
      PROVE  runs'[r] \in {runs[r], Absent}
  <2>1. PicksUp(q) /\ Remembered(q, Ended(recovery.rows[q], "failed"))
    BY <1>5 DEF PickUpGone
  <2>2. Ended(recovery.rows[q], "failed") \in Run
    BY <1>4, <2>1, RecordLemma DEF Outcomes
  <2> QED
    BY <1>4, <2>1, <2>2, RememberedOthers DEF Typed, Absent
<1>6. ASSUME NEW q \in Runs, PicksUp(q), runs' = [runs EXCEPT ![q] = recovery.rows[q]]
      PROVE  runs'[r] \in {runs[r], Absent}
  BY <1>4, <1>6 DEF Typed, TypeOK, Absent
<1>7. CASE Crash
  BY <1>7 DEF Crash
<1>8. CASE Next
  <2>1. ASSUME NEW t \in Tasks, Carry(t), ~Insert(t)
        PROVE  runs' = runs
    BY <2>1 DEF Carry, Execute, RunsOut, StepMissing, ExecuteEmit, ExecuteEnd,
       ExecuteCondition, ExecuteApproval, ExecuteAction, ExecuteAgent, ExecuteClose,
       ExecuteOpen, ExecuteDelay, Advance, StepTo, Park, Finish, Record, Begin, Wake
  <2>2. CASE Resume
    BY <1>1, <1>5, <1>6, <2>2 DEF Resume, ReadUnfinished, PickUpApproval, PickUpStep,
                                  PickUpDelay
  <2>3. CASE Operator
    BY <1>1, <1>3, <2>3 DEF Operator, Cancel, Answer, CallDropped
  <2>4. CASE Environment
    BY <1>1, <1>7, <2>4 DEF Environment, AgentAsks, TurnEnds, ProcessExits, TimePasses
  <2>5. ASSUME NEW t \in Tasks, AgentFinished(t) \/ TerminalFinished(t)
        PROVE  runs' = runs
    BY <2>5 DEF AgentFinished, TerminalFinished
  <2> QED
    BY <1>1, <1>2, <1>8, <2>1, <2>2, <2>3, <2>4, <2>5 DEF Next
<1>9. CASE UNCHANGED vars
  BY <1>1, <1>9 DEF vars
<1> QED
  BY <1>8, <1>9

\* A run that has ended stays as it ended until it is forgotten: finish does not
\* look at what the map says (engine.rs: finish), so only that nobody is on a run
\* that has ended keeps the outcome from being written over.
THEOREM OutcomesStand ==
    ASSUME NothingCancels, RowsComeFirst, OneCallAtATime,
           NothingIsShared \/ NoTerminalSteps
    PROVE  Spec => EndedStaysEnded
<1>1. Typed /\ Solo /\ [Next]_vars =>
          \A r \in Runs : runs[r].is = "finished" => runs'[r] \in {runs[r], Absent}
  BY EndedStep
<1> QED
  BY <1>1, SoloInvariant, PTL DEF Spec, EndedStaysEnded

\* forget_stale runs in the same locked section that adds the finished run.
LEMMA RememberedFew ==
    ASSUME TypeOK, IsFiniteSet(Finished), Cardinality(Finished) <= KeptFinished,
           NEW r \in Runs, NEW run \in Run, Remembered(r, run)
    PROVE  IsFiniteSet(Finished') /\ Cardinality(Finished') <= KeptFinished
<1> DEFINE map == [runs EXCEPT ![r] = run]
           done == {q \in Runs : map[q].is = "finished"}
<1>1. \A q \in Runs : map[q] = IF q = r THEN run ELSE runs[q]
  BY DEF TypeOK
<1>2. CASE run.is # "finished"
  <2>1. runs' = map
    BY <1>2 DEF Remembered
  <2>2. Finished' \subseteq Finished
    BY <1>1, <1>2, <2>1 DEF Finished
  <2>3. /\ IsFiniteSet(Finished') /\ Cardinality(Finished') <= Cardinality(Finished)
        /\ Cardinality(Finished') \in Nat /\ Cardinality(Finished) \in Nat
    BY <2>2, FS_Subset, FS_CardinalityType
  <2> QED
    BY <2>3, ConstantsAssumption
<1>3. CASE run.is = "finished"
  <2>1. IsFiniteSet(done)
    <3>1. done \subseteq Finished \cup {r}
      BY <1>1 DEF Finished
    <3>2. IsFiniteSet(Finished \cup {r})
      BY FS_AddElement
    <3> QED
      BY <3>1, <3>2, FS_Subset
  <2>2. runs' \in Pruned(map)
    BY <1>3 DEF Remembered
  <2>3. PICK kept \in SUBSET done :
           /\ Cardinality(kept) = IF Cardinality(done) <= KeptFinished
                                  THEN Cardinality(done) ELSE KeptFinished
           /\ runs' = [q \in Runs |-> IF q \in done \ kept THEN Absent ELSE map[q]]
    BY <2>2 DEF Pruned
  <2>4. Finished' = kept
    <3>1. Absent.is # "finished"
      BY DEF Absent
    <3>2. \A q \in Runs : runs'[q] = IF q \in done \ kept THEN Absent ELSE map[q]
      BY <2>3
    <3>3. \A q \in Runs : runs'[q].is = "finished" <=> q \in kept
      BY <2>3, <3>1, <3>2
    <3>4. kept \subseteq Runs
      BY <2>3
    <3> QED
      BY <3>3, <3>4 DEF Finished
  <2>5. IsFiniteSet(kept) /\ Cardinality(done) \in Nat
    BY <2>1, FS_Subset, FS_CardinalityType
  <2> QED
    BY <2>3, <2>4, <2>5, ConstantsAssumption
<1> QED
  BY <1>2, <1>3

LEMMA NextFew ==
    ASSUME Typed, Few, [Next]_vars
    PROVE  Few'
<1>1. /\ IsFiniteSet(Finished) /\ Cardinality(Finished) <= KeptFinished /\ TypeOK
      /\ \A r \in Runs : recovery.rows[r].is # "finished"
      /\ recovery.rows \in [Runs -> Run] /\ runs \in [Runs -> Run]
      /\ Absent.is # "finished"
  BY DEF Typed, TypeOK, Few, Absent
<1>2. CASE runs' = runs /\ recovery' = recovery
  BY <1>1, <1>2 DEF Few, Finished
<1>3. ASSUME NEW r \in Runs, NEW run \in Run, Remembered(r, run)
      PROVE  IsFiniteSet(Finished') /\ Cardinality(Finished') <= KeptFinished
  BY <1>1, <1>3, RememberedFew
<1>4. ASSUME NEW t \in Tasks, Insert(t)
      PROVE  Few'
  <2>1. /\ task[t].run \in Runs /\ task[t].held \in Run
        /\ Remembered(task[t].run, task[t].held) /\ recovery' = recovery
    BY <1>4 DEF Insert, Typed, TypeOK, TaskOK, Sound, Task
  <2> QED
    BY <1>1, <1>3, <2>1 DEF Few
<1>5. ASSUME NEW t \in Tasks, NEW r \in Runs, StartRun(t, r)
      PROVE  Few'
  <2>1. Remembered(r, Beginning) /\ recovery' = recovery /\ Beginning \in Run
    BY <1>5, RecordLemma DEF StartRun
  <2> QED
    BY <1>1, <1>3, <2>1 DEF Few
<1>6. ASSUME NEW r \in Runs, PicksUp(r)
      PROVE  \A q \in Runs : recovery'.rows[q].is # "finished"
  <2>1. recovery' = [read |-> recovery.read, rows |-> [recovery.rows EXCEPT ![r] = Absent]]
    BY <1>6 DEF PicksUp
  <2>2. \A q \in Runs : recovery'.rows[q] \in {recovery.rows[q], Absent}
    BY <1>1, <2>1
  <2> QED
    BY <1>1, <2>2
<1>7. ASSUME NEW t \in Tasks, NEW r \in Runs, PickUpGone(t, r)
      PROVE  Few'
  <2>1. PicksUp(r) /\ Remembered(r, Ended(recovery.rows[r], "failed"))
    BY <1>7 DEF PickUpGone
  <2>2. Ended(recovery.rows[r], "failed") \in Run
    BY <1>1, RecordLemma DEF Outcomes
  <2> QED
    BY <1>3, <1>6, <2>1, <2>2 DEF Few
<1>8. ASSUME NEW r \in Runs, PicksUp(r), runs' = [runs EXCEPT ![r] = recovery.rows[r]]
      PROVE  Few'
  <2>1. Finished' \subseteq Finished
    BY <1>1, <1>8 DEF Finished
  <2>2. /\ IsFiniteSet(Finished') /\ Cardinality(Finished') <= Cardinality(Finished)
        /\ Cardinality(Finished') \in Nat /\ Cardinality(Finished) \in Nat
    BY <1>1, <2>1, FS_Subset, FS_CardinalityType
  <2>3. Cardinality(Finished') <= KeptFinished
    BY <1>1, <2>2, ConstantsAssumption
  <2> QED
    BY <1>6, <1>8, <2>2, <2>3 DEF Few
<1>9. CASE ReadUnfinished
  <2>1. runs' = runs
    BY <1>9 DEF ReadUnfinished
  <2>2. \A r \in Runs : recovery'.rows[r].is # "finished"
    <3>1. CASE recovery' = [read |-> TRUE,
                            rows |-> [r \in Runs |-> IF Live(disk[r]) THEN disk[r] ELSE Absent]]
      BY <1>1, <3>1 DEF Live
    <3>2. CASE recovery' = [read |-> TRUE, rows |-> recovery.rows]
      BY <1>1, <3>2
    <3> QED
      BY <1>9, <3>1, <3>2 DEF ReadUnfinished
  <2> QED
    BY <1>1, <2>1, <2>2 DEF Few, Finished
<1>10. CASE Crash
  <2>1. \A r \in Runs : runs'[r] = Absent /\ recovery'.rows[r] = Absent
    BY <1>10 DEF Crash
  <2>2. Finished' = {}
    BY <1>1, <2>1 DEF Finished
  <2>3. IsFiniteSet(Finished') /\ Cardinality(Finished') = 0
    BY <2>2, FS_EmptySet
  <2> QED
    BY <1>1, <2>1, <2>3, ConstantsAssumption DEF Few
<1>11. CASE Next
  <2>1. ASSUME NEW t \in Tasks, Carry(t), ~Insert(t)
        PROVE  runs' = runs /\ recovery' = recovery
    BY <2>1 DEF Carry, Execute, RunsOut, StepMissing, ExecuteEmit, ExecuteEnd,
       ExecuteCondition, ExecuteApproval, ExecuteAction, ExecuteAgent, ExecuteClose,
       ExecuteOpen, ExecuteDelay, Advance, StepTo, Park, Finish, Record, Begin, Wake
  <2>2. CASE Resume
    BY <1>7, <1>8, <1>9, <2>2 DEF Resume, PickUpApproval, PickUpStep, PickUpDelay
  <2>3. CASE Operator
    BY <1>2, <1>5, <2>3 DEF Operator, Cancel, Answer, CallDropped
  <2>4. CASE Environment
    BY <1>2, <1>10, <2>4 DEF Environment, AgentAsks, TurnEnds, ProcessExits, TimePasses
  <2>5. ASSUME NEW t \in Tasks, AgentFinished(t) \/ TerminalFinished(t)
        PROVE  runs' = runs /\ recovery' = recovery
    BY <2>5 DEF AgentFinished, TerminalFinished
  <2> QED
    BY <1>2, <1>4, <1>11, <2>1, <2>2, <2>3, <2>4, <2>5 DEF Next
<1>12. CASE UNCHANGED vars
  BY <1>2, <1>12 DEF vars
<1> QED
  BY <1>11, <1>12

\* At most the newest few finished runs stay in memory, whatever happens
\* (engine.rs: forget_stale).
THEOREM FinishedRunsAreFew == Spec => []FinishedAreFew
<1>1. Init => Few
  <2> SUFFICES ASSUME Init PROVE Few
    OBVIOUS
  <2>1. \A r \in Runs : runs[r].is = "absent" /\ recovery.rows[r].is = "absent"
    BY DEF Init, Absent
  <2>2. Finished = {}
    BY <2>1 DEF Finished
  <2>3. IsFiniteSet(Finished) /\ Cardinality(Finished) = 0
    BY <2>2, FS_EmptySet
  <2> QED
    BY <2>1, <2>3, ConstantsAssumption DEF Few
<1>2. Few => FinishedAreFew
  BY DEF Few, Finished, FinishedAreFew
<1> QED
  BY <1>1, <1>2, NextFew, TypedInvariant, PTL DEF Spec
-----------------------------------------------------------------------------
(* The rows say what memory says.                                          *)

\* A step that writes no row and changes no run, whatever the tasks turn to as
\* long as those that write go on writing.
LEMMA KeptTurn ==
    ASSUME Kept, UNCHANGED <<runs, disk, recovery>>, recovery.read,
           \A t \in Tasks : /\ task[t].pc = "record" <=> task'[t].pc = "record"
                            /\ task[t].pc = "record" => task'[t] = task[t],
           \A t \in Tasks : task'[t].pc # "idle" =>
               \/ task[t].pc # "idle" /\ task'[t].run = task[t].run
               \/ runs[task'[t].run] # Absent
               \/ \E u \in Tasks : task[u].pc # "idle" /\ task[u].run = task'[t].run
    PROVE  Kept'
<1>1. runs' = runs /\ disk' = disk /\ recovery' = recovery
  OBVIOUS
<1>2. \A t \in Tasks, r \in Runs :
          (task'[t].pc = "record" /\ task'[t].run = r) <=> Records(t, r)
  BY DEF Records
<1>3. \A t \in Tasks, r \in Runs : Records(t, r) => task'[t] = task[t]
  BY DEF Records
<1>4. \A r \in Runs : RowIsKept(r)'
  <2> SUFFICES ASSUME NEW r \in Runs
               PROVE  RowIsKept(r)'
    OBVIOUS
  <2>1. RowIsKept(r)
    BY DEF Kept
  <2> QED
    BY <1>1, <1>2, <2>1 DEF RowIsKept, Records
<1>5. OneRecords'
  BY <1>2 DEF Kept, OneRecords, Records
<1>6. RecordsNow'
  BY <1>1, <1>2, <1>3 DEF Kept, RecordsNow, Records
<1>7. Apart'
  <2>1. ASSUME NEW r \in Runs, recovery.rows[r] # Absent
        PROVE  /\ runs[r] = Absent /\ recovery.rows[r] = disk[r]
               /\ \A t \in Tasks : task'[t].pc # "idle" => task'[t].run # r
    <3>1. /\ runs[r] = Absent /\ recovery.rows[r] = disk[r]
          /\ \A t \in Tasks : task[t].pc # "idle" => task[t].run # r
      BY <2>1 DEF Kept, Apart
    <3> QED
      BY <3>1
  <2> QED
    BY <1>1, <2>1 DEF Apart
<1> QED
  BY <1>4, <1>5, <1>6, <1>7 DEF Kept

\* A run enters the map anew, or a copy of it is put back, to be written next.
LEMMA RememberKept ==
    ASSUME Typed, Kept, recovery.read, NEW t \in Tasks, NEW r \in Runs, NEW run \in Run,
           NEW by, Remembered(r, run), UNCHANGED disk, task[t].pc # "record",
           Becomes(t, Working("record", r, run, by)),
           \A u \in Tasks : ~Records(u, r),
           recovery'.read, recovery'.rows[r] = Absent,
           \A q \in Runs \ {r} : recovery'.rows[q] = recovery.rows[q]
    PROVE  Kept'
<1> DEFINE next == Working("record", r, run, by)
<1>1. /\ \A q \in Runs \ {r} : \/ runs'[q] = runs[q]
                               \/ runs[q].is = "finished" /\ runs'[q] = Absent
      /\ runs'[r] = run \/ (run.is = "finished" /\ runs'[r] = Absent)
  BY RememberedOthers DEF Typed
<1>2. task'[t] = next /\ \A u \in Tasks \ {t} : task'[u] = task[u]
  BY DEF Becomes, Typed, TypeOK
<1>3. next.pc = "record" /\ next.run = r /\ next.held = run
  BY DEF Working
<1> HIDE DEF next
<1>4. /\ Records(t, r)'
      /\ \A u \in Tasks, q \in Runs :
            (task'[u].pc = "record" /\ task'[u].run = q) <=> (u = t /\ q = r) \/ Records(u, q)
  BY <1>2, <1>3 DEF Records
<1>5. ASSUME NEW q \in Runs
      PROVE  RowIsKept(q)'
  <2>1. CASE q = r
    BY <1>4, <2>1 DEF RowIsKept
  <2>2. CASE q # r
    <3>1. RowIsKept(q)
      BY DEF Kept
    <3> QED
      BY <1>1, <1>4, <2>2, <3>1 DEF RowIsKept, Records
  <2> QED
    BY <2>1, <2>2
<1>6. OneRecords'
  BY <1>4 DEF Kept, OneRecords, Records
<1>7. RecordsNow'
  <2> SUFFICES ASSUME NEW u \in Tasks, NEW q \in Runs, task'[u].pc = "record",
                      task'[u].run = q
               PROVE  runs'[q] \in {task'[u].held, Absent}
    BY DEF RecordsNow, Records
  <2>1. CASE u = t
    BY <1>1, <1>2, <1>3, <2>1
  <2>2. CASE u # t
    <3>1. Records(u, q) /\ q # r /\ task'[u] = task[u]
      BY <1>2, <2>2 DEF Records
    <3>2. runs[q] \in {task[u].held, Absent}
      BY <3>1 DEF Kept, RecordsNow
    <3> QED
      BY <1>1, <3>1, <3>2
  <2> QED
    BY <2>1, <2>2
<1>8. Apart'
  <2>1. ASSUME NEW q \in Runs, recovery'.rows[q] # Absent
        PROVE  /\ runs'[q] = Absent /\ recovery'.rows[q] = disk'[q]
               /\ \A u \in Tasks : task'[u].pc # "idle" => task'[u].run # q
    <3>1. q # r /\ recovery.rows[q] # Absent
      BY <2>1
    <3>2. /\ runs[q] = Absent /\ recovery.rows[q] = disk[q]
          /\ \A u \in Tasks : task[u].pc # "idle" => task[u].run # q
      BY <3>1 DEF Kept, Apart
    <3>3. runs'[q] = Absent
      BY <1>1, <3>1, <3>2
    <3>4. \A u \in Tasks : task'[u].pc # "idle" => task'[u].run # q
      BY <1>2, <1>3, <3>1, <3>2
    <3> QED
      BY <3>1, <3>2, <3>3, <3>4
  <2> QED
    BY <2>1 DEF Apart
<1> QED
  BY <1>5, <1>6, <1>7, <1>8 DEF Kept

\* The row is written, and whoever wrote it goes on to something else.
LEMMA WrittenKept ==
    ASSUME Typed, Kept, NEW t \in Tasks, task[t].pc = "record",
           disk' = [disk EXCEPT ![task[t].run] = task[t].held],
           UNCHANGED <<runs, recovery>>, NEW next, Becomes(t, next),
           next.pc # "record", next.pc # "idle" => next.run = task[t].run
    PROVE  Kept'
<1> DEFINE r == task[t].run
<1>1. r \in Runs /\ disk \in [Runs -> Run] /\ Records(t, r)
  BY DEF Typed, TypeOK, TaskOK, Sound, Records
<1>2. task'[t] = next /\ \A u \in Tasks \ {t} : task'[u] = task[u]
  BY DEF Becomes, Typed, TypeOK
<1>3. /\ disk'[r] = task[t].held /\ \A q \in Runs \ {r} : disk'[q] = disk[q]
      /\ runs' = runs /\ recovery' = recovery
  BY <1>1
<1>4. \A u \in Tasks, q \in Runs :
          /\ (task'[u].pc = "record" /\ task'[u].run = q) => Records(u, q) /\ task'[u] = task[u]
          /\ Records(u, q) /\ u # t => (task'[u].pc = "record" /\ task'[u].run = q)
  BY <1>2 DEF Records
<1>5. \A u \in Tasks : ~(u # t /\ Records(u, r))
  BY <1>1 DEF Kept, OneRecords
<1>6. ASSUME NEW q \in Runs
      PROVE  RowIsKept(q)'
  <2>1. CASE q = r
    <3>1. runs[r] \in {task[t].held, Absent}
      BY <1>1 DEF Kept, RecordsNow
    <3> QED
      BY <1>3, <2>1, <3>1 DEF RowIsKept
  <2>2. CASE q # r
    <3>1. RowIsKept(q) /\ ~Records(t, q)
      BY <2>2 DEF Kept, Records
    <3> QED
      BY <1>3, <1>4, <2>2, <3>1 DEF RowIsKept, Records
  <2> QED
    BY <2>1, <2>2
<1>7. OneRecords'
  BY <1>4 DEF Kept, OneRecords, Records
<1>8. RecordsNow'
  BY <1>3, <1>4 DEF Kept, RecordsNow, Records
<1>9. Apart'
  <2>1. ASSUME NEW q \in Runs, recovery.rows[q] # Absent
        PROVE  /\ runs[q] = Absent /\ recovery.rows[q] = disk'[q]
               /\ \A u \in Tasks : task'[u].pc # "idle" => task'[u].run # q
    <3>1. /\ runs[q] = Absent /\ recovery.rows[q] = disk[q]
          /\ \A u \in Tasks : task[u].pc # "idle" => task[u].run # q
      BY <2>1 DEF Kept, Apart
    <3>2. q # r
      BY <3>1
    <3> QED
      BY <1>2, <1>3, <3>1, <3>2
  <2>2. recovery.read
    BY DEF Kept, Apart
  <2> QED
    BY <1>3, <2>1, <2>2 DEF Apart
<1> QED
  BY <1>6, <1>7, <1>8, <1>9 DEF Kept

\* What the actions of a task but remember and the write of the row turn it into.
LEMMA CarryTurns ==
    ASSUME Typed, NEW t \in Tasks, Carry(t), ~Insert(t), ~Record(t)
    PROVE  /\ task[t].pc \notin {"idle", "record"}
           /\ UNCHANGED <<runs, disk, recovery>>
           /\ task'[t].pc # "record" /\ (task'[t].pc # "idle" => task'[t].run = task[t].run)
           /\ \A u \in Tasks \ {t} : \/ task'[u] = task[u]
                                     \/ /\ task[u].pc = "idle" /\ task'[u].pc = "sleep"
                                        /\ task'[u].run = task[t].run
<1> DEFINE x == task[t]
           r == x.run
<1>1. /\ UNCHANGED <<runs, disk, recovery>>
  BY DEF Carry, Execute, RunsOut, StepMissing, ExecuteEmit, ExecuteEnd, ExecuteCondition,
         ExecuteApproval, ExecuteAction, ExecuteAgent, ExecuteClose, ExecuteOpen,
         ExecuteDelay, Advance, StepTo, Park, Finish, Begin, Wake, store
<1>2. /\ Idle.pc = "idle"
      /\ Driving(r).pc = "loop" /\ Driving(r).run = r
      /\ \A pc, held, by : Working(pc, r, held, by).pc = pc /\ Working(pc, r, held, by).run = r
      /\ \A on : Parking(x, on).pc = "park" /\ Parking(x, on).run = r
      /\ \A on : Finishing(x, on).pc = "finish" /\ Finishing(x, on).run = r
      /\ \A by, to, ok : Stepping(r, by, to, ok).pc = "step" /\ Stepping(r, by, to, ok).run = r
      /\ \A held : Holding(x, held).pc = "insert" /\ Holding(x, held).run = r
  BY DEF Idle, Driving, Working, Parking, Finishing, Stepping, Holding
<1>3. ASSUME NEW next, Becomes(t, next), next.pc # "record", next.pc # "idle" => next.run = r
      PROVE  /\ task'[t].pc # "record" /\ (task'[t].pc # "idle" => task'[t].run = r)
             /\ \A u \in Tasks \ {t} : task'[u] = task[u]
  BY <1>3 DEF Becomes, Typed, TypeOK
<1>4. CASE Execute(t)
  <2>1. x.pc \in {"execute", "open"}
    BY <1>4 DEF Execute, RunsOut, StepMissing, ExecuteEmit, ExecuteEnd, ExecuteCondition,
         ExecuteApproval, ExecuteAction, ExecuteAgent, ExecuteClose, ExecuteOpen, Executes,
         ExecuteDelay
  <2>2. CASE \E s \in Tasks : ExecuteDelay(t, s)
    <3>1. PICK s \in Tasks : ExecuteDelay(t, s)
      BY <2>2
    <3>2. /\ s # t /\ task[s].pc = "idle"
          /\ task' = [task EXCEPT ![t] = Parking(x, "delay"), ![s] = Sleeping(r)]
      BY <3>1 DEF ExecuteDelay, Free
    <3>3. /\ task'[t] = Parking(x, "delay") /\ task'[s] = Sleeping(r)
          /\ \A u \in Tasks \ {t, s} : task'[u] = task[u]
      BY <3>2 DEF Typed, TypeOK
    <3>4. Sleeping(r).pc = "sleep" /\ Sleeping(r).run = r
      BY DEF Sleeping, Working
    <3>5. task'[t].pc = "park" /\ task'[t].run = r
      BY <1>2, <3>3
    <3>6. \A u \in Tasks \ {t} : \/ task'[u] = task[u]
                                 \/ /\ task[u].pc = "idle" /\ task'[u].pc = "sleep"
                                    /\ task'[u].run = r
      BY <3>2, <3>3, <3>4
    <3> QED
      BY <1>1, <2>1, <3>5, <3>6
  <2>3. CASE ~(\E s \in Tasks : ExecuteDelay(t, s))
    <3>1. \E next : /\ Becomes(t, next)
                    /\ \/ \E outcome : next = Finishing(x, outcome)
                       \/ \E on : next = Parking(x, on)
                       \/ \E to, ok : next = Stepping(r, x.by, to, ok)
                       \/ next = Working("open", r, x.held, x.by)
      BY <1>4, <2>3 DEF Execute, RunsOut, StepMissing, ExecuteEmit, ExecuteEnd,
           ExecuteCondition, ExecuteApproval, ExecuteAction, ExecuteAgent, ExecuteClose,
           ExecuteOpen
    <3>2. PICK next : /\ Becomes(t, next)
                      /\ \/ \E outcome : next = Finishing(x, outcome)
                         \/ \E on : next = Parking(x, on)
                         \/ \E to, ok : next = Stepping(r, x.by, to, ok)
                         \/ next = Working("open", r, x.held, x.by)
      BY <3>1, Zenon
    <3>3. next.pc # "record" /\ next.run = r
      BY <1>2, <3>2
    <3> QED
      BY <1>1, <1>3, <2>1, <3>2, <3>3
  <2> QED
    BY <2>2, <2>3
<1>5. CASE Advance(t) \/ StepTo(t) \/ Park(t) \/ Finish(t) \/ Begin(t) \/ Wake(t)
  <2>1. x.pc \in {"loop", "step", "park", "finish", "begin", "sleep"}
    BY <1>5 DEF Advance, StepTo, Park, Finish, Begin, Wake
  <2>2. \E next : /\ Becomes(t, next)
                  /\ \/ next = Idle \/ next = Driving(r)
                     \/ next = Working("execute", r, runs[r], x.by)
                     \/ \E held : next = Holding(x, held)
                     \/ \E to, ok : next = Stepping(r, x.by, to, ok)
    BY <1>5 DEF Advance, StepTo, Park, Finish, Begin, Wake
  <2>3. PICK next : /\ Becomes(t, next)
                    /\ \/ next = Idle \/ next = Driving(r)
                       \/ next = Working("execute", r, runs[r], x.by)
                       \/ \E held : next = Holding(x, held)
                       \/ \E to, ok : next = Stepping(r, x.by, to, ok)
    BY <2>2, Zenon
  <2>4. next.pc # "record" /\ (next.pc # "idle" => next.run = r)
    BY <1>2, <2>3
  <2> QED
    BY <1>1, <1>3, <2>1, <2>3, <2>4
<1> QED
  BY <1>4, <1>5 DEF Carry

LEMMA CarryKept ==
    ASSUME Typed, Kept, StoreHolds, RowsGoInOrder, NEW t \in Tasks, Carry(t)
    PROVE  Kept'
<1> DEFINE x == task[t]
           r == x.run
<1>1. x.pc # "idle" => recovery.read /\ r \in Runs /\ recovery.rows[r] = Absent
  BY DEF Kept, Apart, Typed, TaskOK, Sound
<1>2. CASE Insert(t)
  <2>1. /\ x.pc = "insert" /\ Remembered(r, x.held) /\ UNCHANGED <<disk, recovery>>
        /\ Becomes(t, Working("record", r, x.held, x.by)) /\ x.held \in Run
        /\ \A u \in Tasks : task[u].pc = "record" => task[u].run # r
    BY <1>2, Zenon DEF Insert, RowsGoInOrder, store, Typed, TypeOK, TaskOK, Sound, Task
  <2> QED
    BY <1>1, <2>1, RememberKept DEF Records
<1>3. CASE Record(t)
  <2>1. /\ x.pc = "record" /\ disk' = [disk EXCEPT ![r] = x.held]
        /\ UNCHANGED <<runs, recovery>>
    BY <1>3 DEF Record, Saved, StoreHolds
  <2>2. PICK next : /\ Becomes(t, next)
                    /\ \/ next = Idle
                       \/ next = Driving(r)
                       \/ next = Working("begin", r, Absent, x.by)
    BY <1>3, RecordTurns
  <2>3. next.pc # "record" /\ (next.pc # "idle" => next.run = r)
    BY <2>2 DEF Idle, Driving, Working
  <2> QED
    BY <2>1, <2>2, <2>3, WrittenKept
<1>4. CASE ~Insert(t) /\ ~Record(t)
  <2>1. /\ x.pc \notin {"idle", "record"}
        /\ UNCHANGED <<runs, disk, recovery>>
        /\ task'[t].pc # "record" /\ (task'[t].pc # "idle" => task'[t].run = r)
        /\ \A u \in Tasks \ {t} : \/ task'[u] = task[u]
                                  \/ /\ task[u].pc = "idle" /\ task'[u].pc = "sleep"
                                     /\ task'[u].run = r
    BY <1>4, CarryTurns
  <2>2. \A u \in Tasks : /\ task[u].pc = "record" <=> task'[u].pc = "record"
                         /\ task[u].pc = "record" => task'[u] = task[u]
    BY <2>1
  <2>3. \A u \in Tasks : task'[u].pc # "idle" =>
               \/ task[u].pc # "idle" /\ task'[u].run = task[u].run
               \/ \E v \in Tasks : task[v].pc # "idle" /\ task[v].run = task'[u].run
    BY <2>1
  <2> QED
    BY <1>1, <2>1, <2>2, <2>3, KeptTurn
<1> QED
  BY <1>2, <1>3, <1>4

LEMMA NewsKept ==
    ASSUME Typed, Kept, NEW t \in Tasks, AgentFinished(t) \/ TerminalFinished(t)
    PROVE  Kept'
<1>1. UNCHANGED <<runs, disk, recovery>> /\ task[t].pc = "idle"
  BY DEF AgentFinished, TerminalFinished, store, Free
<1>2. \E worker, ok, by : Released(t, worker, ok, by)
  BY DEF AgentFinished, TerminalFinished
<1>3. PICK worker, ok, by : Released(t, worker, ok, by)
  BY <1>2
<1>4. CASE task' = task
  BY <1>1, <1>4 DEF Kept, RowIsKept, OneRecords, RecordsNow, Apart, Records
<1>5. ASSUME NEW r \in Runs, NEW to, Waits(runs[r], worker),
             Becomes(t, Stepping(r, by, to, ok))
      PROVE  Kept'
  <2>1. /\ task'[t].pc = "step" /\ task'[t].run = r
        /\ \A u \in Tasks \ {t} : task'[u] = task[u]
    BY <1>5 DEF Becomes, Typed, TypeOK, Stepping
  <2>2. runs[r] # Absent
    BY <1>5 DEF Waits, Absent
  <2>3. recovery.read
    BY <2>2 DEF Kept, Apart
  <2>4. \A u \in Tasks : /\ task[u].pc = "record" <=> task'[u].pc = "record"
                         /\ task[u].pc = "record" => task'[u] = task[u]
    BY <1>1, <2>1
  <2>5. \A u \in Tasks : task'[u].pc # "idle" =>
               \/ task[u].pc # "idle" /\ task'[u].run = task[u].run
               \/ runs[task'[u].run] # Absent
    BY <2>1, <2>2
  <2> QED
    BY <1>1, <2>3, <2>4, <2>5, KeptTurn
<1> QED
  BY <1>3, <1>4, <1>5, ReleasedTurns

LEMMA OperatorKept ==
    ASSUME Typed, Kept, StoreHolds, RowsComeFirst, Operator
    PROVE  Kept'
<1>1. ASSUME NEW t \in Tasks, CallDropped(t)
      PROVE  Kept'
  <2>1. Becomes(t, Idle) /\ Idle.pc = "idle" /\ UNCHANGED <<runs, recovery>>
    BY <1>1 DEF CallDropped, Idle, Working
  <2>2. CASE task[t].pc = "record"
    <3>1. disk' = [disk EXCEPT ![task[t].run] = task[t].held]
      BY <1>1, <2>2 DEF CallDropped, Saved, StoreHolds
    <3> QED
      BY <2>1, <2>2, <3>1, WrittenKept
  <2>3. CASE task[t].pc # "record"
    <3>1. disk' = disk
      BY <1>1, <2>3 DEF CallDropped
    <3>2. task'[t].pc = "idle" /\ \A u \in Tasks \ {t} : task'[u] = task[u]
      BY <2>1 DEF Becomes, Typed, TypeOK
    <3>3. \A u \in Tasks : /\ task[u].pc = "record" <=> task'[u].pc = "record"
                           /\ task[u].pc = "record" => task'[u] = task[u]
      BY <2>3, <3>2
    <3>4. \A u \in Tasks : task'[u].pc # "idle" =>
                 task[u].pc # "idle" /\ task'[u].run = task[u].run
      BY <3>2
    <3>5. CASE recovery.read
      BY <2>1, <3>1, <3>3, <3>4, <3>5, KeptTurn
    <3>6. CASE ~recovery.read
      <4>1. /\ \A u \in Tasks : task[u].pc = "idle" /\ task'[u].pc = "idle"
            /\ \A r \in Runs : runs[r] = Absent /\ recovery.rows[r] = Absent
        BY <3>2, <3>6 DEF Kept, Apart
      <4>2. runs' = runs /\ recovery' = recovery
        BY <2>1
      <4> QED
        BY <4>1, <4>2 DEF Kept, RowIsKept, OneRecords, RecordsNow, Apart, Records
    <3> QED
      BY <3>5, <3>6
  <2> QED
    BY <2>2, <2>3
<1>2. ASSUME NEW t \in Tasks, NEW r \in Runs, StartRun(t, r)
      PROVE  Kept'
  <2>1. /\ Fresh(r) /\ Recovered /\ Remembered(r, Beginning) /\ UNCHANGED <<disk, recovery>>
        /\ Becomes(t, Working("record", r, Beginning, "operator")) /\ task[t].pc = "idle"
    BY <1>2 DEF StartRun, RowsComeFirst, Called, Free, store
  <2>2. /\ recovery'.read /\ recovery.read /\ recovery'.rows[r] = Absent
        /\ \A q \in Runs \ {r} : recovery'.rows[q] = recovery.rows[q]
        /\ \A u \in Tasks : ~Records(u, r)
    BY <2>1 DEF Recovered, Fresh, Records
  <2> QED
    BY <2>1, <2>2, RecordLemma, RememberKept
<1>3. ASSUME NEW t \in Tasks, NEW r \in Runs, NEW next, Live(runs[r]), task[t].pc = "idle",
             Becomes(t, next), next.pc # "record", next.run = r,
             UNCHANGED <<runs, disk, recovery>>
      PROVE  Kept'
  <2>1. task'[t] = next /\ \A u \in Tasks \ {t} : task'[u] = task[u]
    BY <1>3 DEF Becomes, Typed, TypeOK
  <2>2. runs[r] # Absent
    BY <1>3 DEF Live, Absent
  <2>3. recovery.read
    BY <2>2 DEF Kept, Apart
  <2>4. \A u \in Tasks : /\ task[u].pc = "record" <=> task'[u].pc = "record"
                         /\ task[u].pc = "record" => task'[u] = task[u]
    BY <1>3, <2>1
  <2>5. \A u \in Tasks : task'[u].pc # "idle" =>
               \/ task[u].pc # "idle" /\ task'[u].run = task[u].run
               \/ runs[task'[u].run] # Absent
    BY <1>3, <2>1, <2>2
  <2> QED
    BY <1>3, <2>3, <2>4, <2>5, KeptTurn
<1>4. ASSUME NEW t \in Tasks, NEW r \in Runs, Cancel(t, r)
      PROVE  Kept'
  <2> DEFINE next == Working("insert", r, Ended(runs[r], "cancelled"), "operator")
  <2>1. /\ Live(runs[r]) /\ task[t].pc = "idle" /\ Becomes(t, next)
        /\ UNCHANGED <<runs, disk, recovery>>
    BY <1>4 DEF Cancel, Called, Free, store
  <2>2. next.pc = "insert" /\ next.run = r
    BY DEF Working
  <2> HIDE DEF next
  <2> QED
    BY <1>3, <2>1, <2>2
<1>5. ASSUME NEW t \in Tasks, NEW r \in Runs, NEW allow \in BOOLEAN, Answer(t, r, allow)
      PROVE  Kept'
  <2> DEFINE to == IF allow THEN Graph[runs[r].at].next ELSE Graph[runs[r].at].alt
             next == Stepping(r, "operator", to, allow)
  <2>1. /\ Live(runs[r]) /\ task[t].pc = "idle" /\ Becomes(t, next)
        /\ UNCHANGED <<runs, disk, recovery>>
    BY <1>5 DEF Answer, Called, Free, store, Waits, Live
  <2>2. next.pc = "step" /\ next.run = r
    BY DEF Stepping
  <2> HIDE DEF next
  <2> QED
    BY <1>3, <2>1, <2>2
<1> QED
  BY <1>1, <1>2, <1>4, <1>5 DEF Operator

LEMMA ResumeKept ==
    ASSUME Typed, Kept, StoreHolds, Resume
    PROVE  Kept'
<1>1. CASE ReadUnfinished
  <2>1. /\ ~recovery.read /\ UNCHANGED <<runs, task, disk>>
        /\ recovery' = [read |-> TRUE,
                        rows |-> [r \in Runs |-> IF Live(disk[r]) THEN disk[r] ELSE Absent]]
    BY <1>1 DEF ReadUnfinished, StoreHolds, store
  <2>2. runs' = runs /\ task' = task /\ disk' = disk
    BY <2>1
  <2>3. /\ \A t \in Tasks : task[t].pc = "idle"
        /\ \A r \in Runs : runs[r] = Absent
    BY <2>1 DEF Kept, Apart
  <2>4. /\ recovery'.read = TRUE
        /\ \A r \in Runs : recovery'.rows[r] # Absent => recovery'.rows[r] = disk[r]
    BY <2>1
  <2>5. Apart'
    BY <2>2, <2>3, <2>4 DEF Apart
  <2> QED
    BY <2>2, <2>3, <2>5 DEF Kept, RowIsKept, OneRecords, RecordsNow, Records
<1>2. ASSUME NEW r \in Runs, PicksUp(r)
      PROVE  /\ recovery'.read /\ recovery.read /\ recovery'.rows[r] = Absent
             /\ \A q \in Runs \ {r} : recovery'.rows[q] = recovery.rows[q]
             /\ \A u \in Tasks : task[u].pc # "idle" => task[u].run # r
             /\ recovery.rows[r] \in Run /\ recovery.rows[r] = disk[r]
  <2>1. /\ recovery.rows[r] # Absent
        /\ recovery' = [read |-> recovery.read, rows |-> [recovery.rows EXCEPT ![r] = Absent]]
        /\ recovery.rows \in [Runs -> Run] /\ recovery.read \in BOOLEAN
    BY <1>2 DEF PicksUp, Typed, TypeOK
  <2>2. recovery.read
    BY <2>1 DEF Kept, Apart
  <2>3. /\ \A u \in Tasks : task[u].pc # "idle" => task[u].run # r
        /\ recovery.rows[r] = disk[r]
    BY <2>1 DEF Kept, Apart
  <2> QED
    BY <2>1, <2>2, <2>3
<1>3. ASSUME NEW t \in Tasks, NEW r \in Runs, PickUpGone(t, r)
      PROVE  Kept'
  <2> DEFINE run == Ended(recovery.rows[r], "failed")
  <2>1. PicksUp(r) /\ task[t].pc = "idle" /\ Remembered(r, run) /\ UNCHANGED disk
        /\ Becomes(t, Working("record", r, run, "resume"))
    BY <1>3 DEF PickUpGone, Free, store
  <2>2. run \in Run
    BY <1>2, <2>1, RecordLemma DEF Outcomes
  <2> HIDE DEF run
  <2>3. \A u \in Tasks : ~Records(u, r)
    BY <1>2, <2>1 DEF Records
  <2>4. /\ recovery'.read /\ recovery.read /\ recovery'.rows[r] = Absent
        /\ \A q \in Runs \ {r} : recovery'.rows[q] = recovery.rows[q]
    BY <1>2, <2>1
  <2> QED
    BY <2>1, <2>2, <2>3, <2>4, RememberKept
<1>4. ASSUME NEW r \in Runs, PicksUp(r), runs' = [runs EXCEPT ![r] = recovery.rows[r]],
             disk' = disk,
             \/ task' = task
             \/ \E t \in Tasks : \E next : /\ Becomes(t, next) /\ task[t].pc = "idle"
                                           /\ next.pc # "record" /\ next.run = r
      PROVE  Kept'
  <2>1. runs'[r] = disk'[r] /\ \A q \in Runs \ {r} : runs'[q] = runs[q]
    BY <1>2, <1>4 DEF Typed, TypeOK
  <2>2. \A u \in Tasks : \/ task'[u] = task[u]
                         \/ /\ task[u].pc = "idle" /\ task'[u].pc # "record"
                            /\ task'[u].run = r
    <3>1. ASSUME NEW t \in Tasks, NEW next, Becomes(t, next)
          PROVE  task'[t] = next /\ \A u \in Tasks \ {t} : task'[u] = task[u]
      BY <3>1 DEF Becomes, Typed, TypeOK
    <3> QED
      BY <1>4, <3>1
  <2>3. /\ recovery'.read /\ recovery'.rows[r] = Absent
        /\ \A q \in Runs \ {r} : recovery'.rows[q] = recovery.rows[q]
        /\ \A u \in Tasks : task[u].pc # "idle" => task[u].run # r
    BY <1>2, <1>4
  <2>4. \A u \in Tasks, q \in Runs :
            /\ (task'[u].pc = "record" /\ task'[u].run = q) <=> Records(u, q)
            /\ Records(u, q) => task'[u] = task[u] /\ q # r
    BY <2>2, <2>3 DEF Records
  <2>5. \A q \in Runs : RowIsKept(q)'
    <3> SUFFICES ASSUME NEW q \in Runs
                 PROVE  RowIsKept(q)'
      OBVIOUS
    <3>1. CASE q = r
      BY <2>1, <3>1 DEF RowIsKept
    <3>2. CASE q # r
      <4>1. RowIsKept(q)
        BY DEF Kept
      <4> QED
        BY <1>4, <2>1, <2>4, <3>2, <4>1 DEF RowIsKept, Records
    <3> QED
      BY <3>1, <3>2
  <2>6. OneRecords'
    BY <2>4 DEF Kept, OneRecords, Records
  <2>7. RecordsNow'
    BY <2>1, <2>4 DEF Kept, RecordsNow, Records
  <2>8. Apart'
    <3>1. ASSUME NEW q \in Runs, recovery'.rows[q] # Absent
          PROVE  /\ runs'[q] = Absent /\ recovery'.rows[q] = disk'[q]
                 /\ \A u \in Tasks : task'[u].pc # "idle" => task'[u].run # q
      <4>1. q # r /\ recovery.rows[q] # Absent
        BY <2>3, <3>1
      <4>2. /\ runs[q] = Absent /\ recovery.rows[q] = disk[q]
            /\ \A u \in Tasks : task[u].pc # "idle" => task[u].run # q
        BY <4>1 DEF Kept, Apart
      <4> QED
        BY <1>4, <2>1, <2>2, <2>3, <4>1, <4>2
    <3> QED
      BY <2>3, <3>1 DEF Apart
  <2> QED
    BY <2>5, <2>6, <2>7, <2>8 DEF Kept
<1>5. ASSUME NEW r \in Runs, PickUpApproval(r)
      PROVE  Kept'
  BY <1>4, <1>5 DEF PickUpApproval, store
<1>6. ASSUME NEW t \in Tasks, NEW r \in Runs, PickUpStep(t, r) \/ PickUpDelay(t, r)
      PROVE  Kept'
  <2>1. /\ PicksUp(r) /\ runs' = [runs EXCEPT ![r] = recovery.rows[r]] /\ disk' = disk
        /\ task[t].pc = "idle" /\ (Becomes(t, Driving(r)) \/ Becomes(t, Sleeping(r)))
    BY <1>6 DEF PickUpStep, PickUpDelay, Free, store
  <2>2. /\ Driving(r).pc # "record" /\ Driving(r).run = r
        /\ Sleeping(r).pc # "record" /\ Sleeping(r).run = r
    BY DEF Driving, Sleeping, Working
  <2> QED
    BY <1>4, <2>1, <2>2
<1> QED
  BY <1>1, <1>3, <1>5, <1>6 DEF Resume

LEMMA EnvironmentKept ==
    ASSUME Typed, Kept, Environment
    PROVE  Kept'
<1>1. CASE Crash
  <2>1. /\ \A t \in Tasks : task'[t] = Idle
        /\ \A r \in Runs : runs'[r] = Absent /\ recovery'.rows[r] = Absent
    BY <1>1 DEF Crash
  <2>2. Idle.pc = "idle"
    BY DEF Idle, Working
  <2> QED
    BY <2>1, <2>2 DEF Kept, RowIsKept, OneRecords, RecordsNow, Apart, Records
<1>2. CASE UNCHANGED <<runs, task, disk, recovery>>
  <2>1. runs' = runs /\ task' = task /\ disk' = disk /\ recovery' = recovery
    BY <1>2
  <2> QED
    BY <2>1 DEF Kept, RowIsKept, OneRecords, RecordsNow, Apart, Records
<1>3. Crash \/ UNCHANGED <<runs, task, disk, recovery>>
  BY DEF Environment, AgentAsks, TurnEnds, ProcessExits, TimePasses, store
<1> QED
  BY <1>1, <1>2, <1>3

LEMMA InitKept == Init => Kept
<1> SUFFICES ASSUME Init PROVE Kept
  OBVIOUS
<1>1. /\ \A r \in Runs : runs[r] = Absent /\ recovery.rows[r] = Absent
      /\ \A t \in Tasks : task[t] = Idle
  BY DEF Init
<1>2. Idle.pc = "idle"
  BY DEF Idle, Working
<1> QED
  BY <1>1, <1>2 DEF Kept, RowIsKept, OneRecords, RecordsNow, Apart, Records

LEMMA NextKept ==
    ASSUME Typed, Kept, StoreHolds, RowsGoInOrder, RowsComeFirst, [Next]_vars
    PROVE  Kept'
<1>1. CASE UNCHANGED vars
  <2>1. runs' = runs /\ task' = task /\ disk' = disk /\ recovery' = recovery
    BY <1>1 DEF vars
  <2> QED
    BY <2>1 DEF Kept, RowIsKept, OneRecords, RecordsNow, Apart, Records
<1>2. CASE Next
  BY <1>2, CarryKept, NewsKept, ResumeKept, OperatorKept, EnvironmentKept DEF Next
<1> QED
  BY <1>1, <1>2

LEMMA KeptInvariant ==
    ASSUME StoreHolds, RowsGoInOrder, RowsComeFirst
    PROVE  Spec => []Kept
<1>1. Typed /\ Kept /\ [Next]_vars => Kept'
  BY NextKept
<1> QED
  BY <1>1, InitKept, TypedInvariant, PTL DEF Spec

\* Between writes, the row of a run says what memory says (engine.rs: remember):
\* however the tasks of a run, the operator's calls and a restart follow each
\* other, cancelling included, no row is left to an older copy of its run.
THEOREM RowsSayWhatMemorySays ==
    ASSUME StoreHolds, RowsGoInOrder, RowsComeFirst
    PROVE  Spec => []RowSaysWhatMemorySays
<1>1. Kept => RowSaysWhatMemorySays
  BY DEF Kept, RowIsKept, RowSaysWhatMemorySays, Records
<1> QED
  BY <1>1, KeptInvariant, PTL
-----------------------------------------------------------------------------
(* What a step does is done after its row and its transition.              *)

\* No task writes a row of its run anew, and none takes its run up.
LEMMA BehindStays ==
    ASSUME Behind,
           \A u \in Tasks, r \in Runs : Records(u, r)' => Records(u, r),
           \A u \in Tasks : task'[u].pc \in {"begin", "loop", "execute", "open"} =>
               /\ task[u].pc \in {"begin", "loop", "execute", "open"}
               /\ task'[u].run = task[u].run
    PROVE  Behind'
BY DEF Behind, Records

LEMMA CarryBehind ==
    ASSUME Typed, Solo, Kept, Behind, NEW t \in Tasks, Carry(t)
    PROVE  Behind'
<1> DEFINE x == task[t]
           r == x.run
<1>1. x.pc # "idle" => r \in Runs
  BY DEF Typed, TaskOK, Sound
<1>2. CASE Insert(t)
  <2>1. /\ x.pc = "insert" /\ r \in Runs
        /\ Becomes(t, Working("record", r, x.held, x.by))
    BY <1>1, <1>2 DEF Insert
  <2>2. /\ task'[t].pc = "record" /\ task'[t].run = r
        /\ \A u \in Tasks \ {t} : task'[u] = task[u]
    BY <2>1 DEF Becomes, Typed, TypeOK, Working
  <2>3. ASSUME NEW u \in Tasks, u # t, task[u].run = r
        PROVE  task[u].pc \notin {"begin", "loop", "execute", "open"}
    <3>1. Carries(t, r)
      BY <2>1 DEF Carries, Carrying
    <3>2. ~Carries(u, r)
      BY <2>1, <2>3, <3>1 DEF Solo, OneDriver
    <3> QED
      BY <2>3, <3>2 DEF Carries, Carrying
  <2> QED
    BY <2>2, <2>3 DEF Behind, Records
<1>3. CASE Record(t)
  <2>1. x.pc = "record" /\ r \in Runs
    BY <1>1, <1>3 DEF Record
  <2>2. PICK next : /\ Becomes(t, next)
                    /\ \/ next = Idle
                       \/ next = Driving(r)
                       \/ next = Working("begin", r, Absent, x.by)
    BY <1>3, RecordTurns
  <2>3. next.pc # "record" /\ (next.pc # "idle" => next.run = r)
    BY <2>2 DEF Idle, Driving, Working
  <2>4. task'[t] = next /\ \A u \in Tasks \ {t} : task'[u] = task[u]
    BY <2>2 DEF Becomes, Typed, TypeOK
  <2>5. \A u \in Tasks : u # t => ~Records(u, r)
    BY <2>1 DEF Kept, OneRecords, Records
  <2> QED
    BY <2>3, <2>4, <2>5 DEF Behind, Records
<1>4. CASE ~Insert(t) /\ ~Record(t)
  <2>1. /\ x.pc \notin {"idle", "record"}
        /\ task'[t].pc # "record" /\ (task'[t].pc # "idle" => task'[t].run = r)
        /\ \A u \in Tasks \ {t} : \/ task'[u] = task[u]
                                  \/ /\ task[u].pc = "idle" /\ task'[u].pc = "sleep"
                                     /\ task'[u].run = r
    BY <1>4, CarryTurns
  <2>2. task'[t].pc \in {"begin", "loop", "execute", "open"} =>
            x.pc \in {"begin", "loop", "execute", "open"}
    <3>1. ASSUME NEW next, Becomes(t, next)
          PROVE  task'[t] = next
      BY <3>1 DEF Becomes, Typed, TypeOK
    <3>2. /\ Idle.pc = "idle"
          /\ \A held : Holding(x, held).pc = "insert"
          /\ \A to, ok : Stepping(r, x.by, to, ok).pc = "step"
      BY DEF Idle, Holding, Stepping, Working
    <3>3. CASE StepTo(t)
      <4>1. x.pc = "step" /\ Carries(t, r)
        BY <1>1, <3>3 DEF StepTo, Carries, Carrying
      <4>2. Live(runs[r])
        BY <1>1, <4>1 DEF Solo, CarriedIsLive
      <4>3. Becomes(t, Holding(x, Moved(runs[r], x.to, x.ok)))
        BY <3>3, <4>2 DEF StepTo
      <4> QED
        BY <3>1, <3>2, <4>3
    <3>4. CASE Park(t) \/ Finish(t) \/ Wake(t)
      <4>1. \E next : /\ Becomes(t, next)
                      /\ \/ next = Idle
                         \/ \E held : next = Holding(x, held)
                         \/ \E to, ok : next = Stepping(r, x.by, to, ok)
        BY <3>4 DEF Park, Finish, Wake
      <4>2. PICK next : /\ Becomes(t, next)
                        /\ \/ next = Idle
                           \/ \E held : next = Holding(x, held)
                           \/ \E to, ok : next = Stepping(r, x.by, to, ok)
        BY <4>1, Zenon
      <4> QED
        BY <3>1, <3>2, <4>2
    <3>5. CASE Advance(t) \/ Execute(t) \/ Begin(t)
      BY <3>5 DEF Advance, Begin, Execute, RunsOut, StepMissing, ExecuteEmit, ExecuteEnd,
         ExecuteCondition, ExecuteApproval, ExecuteAction, ExecuteAgent, ExecuteClose,
         ExecuteOpen, ExecuteDelay, Executes
    <3> QED
      BY <1>4, <3>3, <3>4, <3>5 DEF Carry
  <2>3. \A u \in Tasks, q \in Runs : Records(u, q)' => Records(u, q)
    BY <2>1 DEF Records
  <2>4. \A u \in Tasks : task'[u].pc \in {"begin", "loop", "execute", "open"} =>
               /\ task[u].pc \in {"begin", "loop", "execute", "open"}
               /\ task'[u].run = task[u].run
    BY <2>1, <2>2
  <2> QED
    BY <2>3, <2>4, BehindStays
<1> QED
  BY <1>2, <1>3, <1>4

LEMMA OthersBehind ==
    ASSUME Typed, Kept, Behind, RowsComeFirst, NothingCancels,
           \/ \E t \in Tasks : AgentFinished(t) \/ TerminalFinished(t)
           \/ Resume \/ Operator \/ Environment
    PROVE  Behind'
<1>1. ASSUME NEW t \in Tasks, NEW next, Becomes(t, next)
      PROVE  task'[t] = next /\ \A u \in Tasks \ {t} : task'[u] = task[u]
  BY <1>1 DEF Becomes, Typed, TypeOK
<1>2. CASE task' = task
  BY <1>2 DEF Behind, Records
<1>3. ASSUME NEW t \in Tasks, NEW next, Becomes(t, next),
             next.pc \in {"idle", "step", "sleep"}
      PROVE  Behind'
  <2>1. /\ \A u \in Tasks, q \in Runs : Records(u, q)' => Records(u, q)
        /\ \A u \in Tasks : task'[u].pc \in {"begin", "loop", "execute", "open"} =>
               /\ task[u].pc \in {"begin", "loop", "execute", "open"}
               /\ task'[u].run = task[u].run
    BY <1>1, <1>3 DEF Records
  <2> QED
    BY <2>1, BehindStays
\* Whoever comes to a run nobody is on.
<1>4. ASSUME NEW t \in Tasks, NEW r \in Runs, NEW next, Becomes(t, next), next.run = r,
             \A u \in Tasks : task[u].pc # "idle" => task[u].run # r
      PROVE  Behind'
  BY <1>1, <1>4 DEF Behind, Records
<1>5. ASSUME NEW t \in Tasks, AgentFinished(t) \/ TerminalFinished(t)
      PROVE  Behind'
  <2>1. PICK worker, ok, by : Released(t, worker, ok, by)
    BY <1>5 DEF AgentFinished, TerminalFinished
  <2>2. \A r, to : Stepping(r, by, to, ok).pc = "step"
    BY DEF Stepping
  <2>3. task' = task \/ \E next : Becomes(t, next) /\ next.pc = "step"
    BY <2>1, <2>2, ReleasedTurns
  <2> QED
    BY <1>2, <1>3, <2>3
<1>6. CASE Resume
  <2>1. ASSUME NEW r \in Runs, PicksUp(r)
        PROVE  \A u \in Tasks : task[u].pc # "idle" => task[u].run # r
    BY <2>1 DEF PicksUp, Kept, Apart
  <2>2. /\ \A r : Driving(r).run = r /\ Sleeping(r).run = r
        /\ \A r, held, by : Working("record", r, held, by).run = r
    BY DEF Driving, Sleeping, Working
  <2>3. CASE ReadUnfinished \/ \E r \in Runs : PickUpApproval(r)
    BY <1>2, <2>3 DEF ReadUnfinished, PickUpApproval
  <2>4. ASSUME NEW t \in Tasks, NEW r \in Runs,
               PickUpGone(t, r) \/ PickUpStep(t, r) \/ PickUpDelay(t, r)
        PROVE  Behind'
    <3>1. /\ PicksUp(r)
          /\ \E next : Becomes(t, next) /\ next.run = r
      BY <2>2, <2>4 DEF PickUpGone, PickUpStep, PickUpDelay
    <3> QED
      BY <1>4, <2>1, <3>1
  <2> QED
    BY <1>6, <2>3, <2>4 DEF Resume
<1>7. CASE Operator
  <2>1. Idle.pc = "idle" /\ \A r, by, to, ok : Stepping(r, by, to, ok).pc = "step"
    BY DEF Idle, Stepping, Working
  <2>2. ASSUME NEW t \in Tasks, NEW r \in Runs, StartRun(t, r)
        PROVE  Behind'
    <3>1. /\ Becomes(t, Working("record", r, Beginning, "operator"))
          /\ \A u \in Tasks : task[u].run # r
      BY <2>2 DEF StartRun, Fresh
    <3>2. Working("record", r, Beginning, "operator").run = r
      BY DEF Working
    <3> QED
      BY <1>4, <3>1, <3>2
  <2>3. ASSUME NEW t \in Tasks, NEW r \in Runs, NEW allow \in BOOLEAN, Answer(t, r, allow)
        PROVE  Behind'
    <3>1. \E to : Becomes(t, Stepping(r, "operator", to, allow))
      BY <2>3 DEF Answer
    <3> QED
      BY <1>3, <2>1, <3>1
  <2>4. ASSUME NEW t \in Tasks, CallDropped(t)
        PROVE  Behind'
    BY <1>3, <2>1, <2>4 DEF CallDropped
  <2>5. ASSUME NEW t \in Tasks, NEW r \in Runs
        PROVE  ~Cancel(t, r)
    BY DEF Cancel, NothingCancels
  <2> QED
    BY <1>7, <2>2, <2>3, <2>4, <2>5 DEF Operator
<1>8. CASE Environment
  <2>1. CASE Crash
    <3>1. \A t \in Tasks : task'[t] = Idle
      BY <2>1 DEF Crash
    <3>2. Idle.pc = "idle"
      BY DEF Idle, Working
    <3> QED
      BY <3>1, <3>2 DEF Behind
  <2>2. CASE task' = task
    BY <1>2, <2>2
  <2> QED
    BY <1>8, <2>1, <2>2 DEF Environment, AgentAsks, TurnEnds, ProcessExits, TimePasses
<1> QED
  BY <1>5, <1>6, <1>7, <1>8

\* What a run was led to stays so, as transitions are only ever added.
LEMMA LedStays ==
    ASSUME \A r \in Runs : written[r] \subseteq written'[r],
           \A r \in Runs : /\ LedTo(runs'[r].at, r) /\ LedTo(disk'[r].at, r)
                           /\ LedTo(recovery'.rows[r].at, r),
           \A t \in Tasks : task'[t].pc # "idle" =>
               \/ task'[t].run \in Runs /\ LedTo(task'[t].held.at, task'[t].run)
               \/ \E edge \in written'[task'[t].run] : edge[2] = task'[t].held.at
    PROVE  Led'
<1>1. \A r \in Runs : \A at :
          LedTo(at, r) => at = Start \/ \E edge \in written'[r] : edge[2] = at
  BY DEF LedTo
<1>2. ASSUME NEW r \in Runs
      PROVE  /\ LedTo(runs[r].at, r)' /\ LedTo(disk[r].at, r)'
             /\ LedTo(recovery.rows[r].at, r)'
  BY <1>1 DEF LedTo
<1>3. ASSUME NEW t \in Tasks, task'[t].pc # "idle"
      PROVE  \/ task'[t].held.at = Start
             \/ \E edge \in written'[task'[t].run] : edge[2] = task'[t].held.at
  BY <1>1, <1>3
<1> QED
  BY <1>2, <1>3 DEF Led, LedTo

LEMMA CarryLed ==
    ASSUME Typed, Led, StoreHolds, NEW t \in Tasks, Carry(t)
    PROVE  Led'
<1> DEFINE x == task[t]
           r == x.run
<1>1. x.pc # "idle" /\ r \in Runs /\ LedTo(x.held.at, r) /\ LedTo(runs[r].at, r)
  <2>1. x.pc # "idle"
    BY DEF Carry, Execute, RunsOut, StepMissing, ExecuteEmit, ExecuteEnd, ExecuteCondition,
           ExecuteApproval, ExecuteAction, ExecuteAgent, ExecuteClose, ExecuteOpen, Executes,
           ExecuteDelay, Advance, StepTo, Park, Finish, Insert, Record, Begin, Wake
  <2> QED
    BY <2>1 DEF Led, Typed, TaskOK, Sound
<1>2. /\ \A q \in Runs : /\ LedTo(runs[q].at, q) /\ LedTo(disk[q].at, q)
                         /\ LedTo(recovery.rows[q].at, q)
      /\ \A u \in Tasks : task[u].pc # "idle" =>
             task[u].run \in Runs /\ LedTo(task[u].held.at, task[u].run)
  BY DEF Led, Typed, TaskOK, Sound
<1>3. \A q : LedTo(Absent.at, q)
  BY DEF LedTo, Absent
<1>4. recovery' = recovery
  BY DEF Carry, Execute, RunsOut, StepMissing, ExecuteEmit, ExecuteEnd, ExecuteCondition,
         ExecuteApproval, ExecuteAction, ExecuteAgent, ExecuteClose, ExecuteOpen,
         ExecuteDelay, Advance, StepTo, Park, Finish, Insert, Record, Begin, Wake
<1>5. ASSUME NEW next, Becomes(t, next)
      PROVE  task'[t] = next /\ \A u \in Tasks \ {t} : task'[u] = task[u]
  BY <1>5 DEF Becomes, Typed, TypeOK
<1>6. /\ \A held : Holding(x, held).run = r /\ Holding(x, held).held = held
      /\ Driving(r).run = r /\ Driving(r).held = Absent
      /\ \A pc, held, by : Working(pc, r, held, by).run = r /\ Working(pc, r, held, by).held = held
      /\ \A on : Parking(x, on).run = r /\ Parking(x, on).held = Absent
      /\ \A on : Finishing(x, on).run = r /\ Finishing(x, on).held = Absent
      /\ \A by, to, ok : Stepping(r, by, to, ok).run = r /\ Stepping(r, by, to, ok).held = Absent
      /\ Idle.pc = "idle"
  BY DEF Holding, Driving, Working, Parking, Finishing, Stepping, Idle
\* Steps that take no run anywhere.
<1>7. ASSUME NEW next, Becomes(t, next), UNCHANGED <<runs, disk, written>>,
             next.pc # "idle" => next.run = r /\ LedTo(next.held.at, r)
      PROVE  Led'
  <2>1. \A u \in Tasks : task'[u].pc # "idle" =>
            task'[u].run \in Runs /\ LedTo(task'[u].held.at, task'[u].run)
    BY <1>1, <1>2, <1>5, <1>7
  <2>2. runs' = runs /\ disk' = disk /\ written' = written
    BY <1>7
  <2> QED
    BY <1>2, <1>4, <2>1, <2>2, LedStays
<1>8. CASE StepTo(t)
  <2>1. CASE Live(runs[r])
    <3> DEFINE run == Moved(runs[r], x.to, x.ok)
    <3>1. /\ Becomes(t, Holding(x, run)) /\ runs' = runs /\ disk' = disk
          /\ written' = [written EXCEPT ![r] = @ \cup {<<runs[r].at, x.to>>}]
      BY <1>8, <2>1 DEF StepTo, Appended, StoreHolds
    <3>2. /\ \A q \in Runs : written[q] \subseteq written'[q]
          /\ <<runs[r].at, x.to>> \in written'[r]
      BY <1>1, <3>1 DEF Typed, TypeOK
    <3>3. run.at = x.to
      BY DEF Moved
    <3> HIDE DEF run
    <3>4. task'[t].run = r /\ task'[t].held.at = x.to
      BY <1>5, <1>6, <3>1, <3>3
    <3>5. \E edge \in written'[task'[t].run] : edge[2] = task'[t].held.at
      BY <3>2, <3>4
    <3>6. \A u \in Tasks \ {t} : task'[u].pc # "idle" =>
              task'[u].run \in Runs /\ LedTo(task'[u].held.at, task'[u].run)
      BY <1>2, <1>5, <3>1
    <3> QED
      BY <1>2, <1>4, <3>1, <3>2, <3>5, <3>6, LedStays
  <2>2. CASE ~Live(runs[r])
    <3>1. Becomes(t, Driving(r)) /\ UNCHANGED <<runs, disk, written>>
      BY <1>8, <2>2 DEF StepTo
    <3> QED
      BY <1>3, <1>6, <1>7, <3>1
  <2> QED
    BY <2>1, <2>2
<1>9. CASE Begin(t)
  <2>1. /\ Becomes(t, Driving(r)) /\ runs' = runs /\ disk' = disk
        /\ written' = [written EXCEPT ![r] = @ \cup {<<None, Start>>}]
    BY <1>9 DEF Begin, Appended, StoreHolds
  <2>2. \A q \in Runs : written[q] \subseteq written'[q]
    BY <2>1 DEF Typed, TypeOK
  <2>3. \A u \in Tasks : task'[u].pc # "idle" =>
            task'[u].run \in Runs /\ LedTo(task'[u].held.at, task'[u].run)
    BY <1>1, <1>2, <1>3, <1>5, <1>6, <2>1
  <2> QED
    BY <1>2, <1>4, <2>1, <2>2, <2>3, LedStays
<1>10. CASE Insert(t)
  <2>1. /\ Remembered(r, x.held) /\ x.held \in Run /\ disk' = disk /\ written' = written
        /\ Becomes(t, Working("record", r, x.held, x.by))
    BY <1>10, Zenon DEF Insert, store, Typed, TypeOK, TaskOK, Sound, Task
  <2>2. /\ \A q \in Runs \ {r} : runs'[q] = runs[q] \/ runs'[q] = Absent
        /\ runs'[r] = x.held \/ runs'[r] = Absent
    BY <1>1, <2>1, RememberedOthers DEF Typed
  <2>3. \A q \in Runs : LedTo(runs'[q].at, q)
    BY <1>1, <1>2, <1>3, <2>2
  <2>4. \A u \in Tasks : task'[u].pc # "idle" =>
            task'[u].run \in Runs /\ LedTo(task'[u].held.at, task'[u].run)
    BY <1>1, <1>2, <1>5, <1>6, <2>1
  <2> QED
    BY <1>2, <1>4, <2>1, <2>3, <2>4, LedStays
<1>11. CASE Record(t)
  <2>1. /\ disk' = [disk EXCEPT ![r] = x.held] /\ runs' = runs /\ written' = written
    BY <1>11 DEF Record, Saved, StoreHolds
  <2>2. \A q \in Runs : LedTo(disk'[q].at, q)
    BY <1>1, <1>2, <2>1 DEF Typed, TypeOK
  <2>3. PICK next : /\ Becomes(t, next)
                    /\ \/ next = Idle
                       \/ next = Driving(r)
                       \/ next = Working("begin", r, Absent, x.by)
    BY <1>11, RecordTurns
  <2>4. \A u \in Tasks : task'[u].pc # "idle" =>
            task'[u].run \in Runs /\ LedTo(task'[u].held.at, task'[u].run)
    BY <1>1, <1>2, <1>3, <1>5, <1>6, <2>3
  <2> QED
    BY <1>2, <1>4, <2>1, <2>2, <2>4, LedStays
<1>12. CASE Execute(t)
  <2>1. UNCHANGED <<runs, disk, written>>
    BY <1>12 DEF Execute, RunsOut, StepMissing, ExecuteEmit, ExecuteEnd, ExecuteCondition,
         ExecuteApproval, ExecuteAction, ExecuteAgent, ExecuteClose, ExecuteOpen,
         ExecuteDelay, store
  <2>2. CASE \E s \in Tasks : ExecuteDelay(t, s)
    <3>1. PICK s \in Tasks : ExecuteDelay(t, s)
      BY <2>2
    <3>2. /\ s # t
          /\ task' = [task EXCEPT ![t] = Parking(x, "delay"), ![s] = Sleeping(r)]
      BY <3>1 DEF ExecuteDelay
    <3>3. /\ task'[t] = Parking(x, "delay") /\ task'[s] = Sleeping(r)
          /\ \A u \in Tasks \ {t, s} : task'[u] = task[u]
      BY <3>2 DEF Typed, TypeOK
    <3>4. Sleeping(r).run = r /\ Sleeping(r).held = Absent
      BY DEF Sleeping, Working
    <3>5. \A u \in Tasks : task'[u].pc # "idle" =>
              task'[u].run \in Runs /\ LedTo(task'[u].held.at, task'[u].run)
      BY <1>1, <1>2, <1>3, <1>6, <3>3, <3>4
    <3>6. runs' = runs /\ disk' = disk /\ written' = written
      BY <2>1
    <3> QED
      BY <1>2, <1>4, <3>5, <3>6, LedStays
  <2>3. CASE ~(\E s \in Tasks : ExecuteDelay(t, s))
    <3>1. \E next : /\ Becomes(t, next)
                    /\ \/ \E outcome : next = Finishing(x, outcome)
                       \/ \E on : next = Parking(x, on)
                       \/ \E to, ok : next = Stepping(r, x.by, to, ok)
                       \/ next = Working("open", r, x.held, x.by)
      BY <1>12, <2>3 DEF Execute, RunsOut, StepMissing, ExecuteEmit, ExecuteEnd,
           ExecuteCondition, ExecuteApproval, ExecuteAction, ExecuteAgent, ExecuteClose,
           ExecuteOpen
    <3>2. PICK next : /\ Becomes(t, next)
                      /\ \/ \E outcome : next = Finishing(x, outcome)
                         \/ \E on : next = Parking(x, on)
                         \/ \E to, ok : next = Stepping(r, x.by, to, ok)
                         \/ next = Working("open", r, x.held, x.by)
      BY <3>1, Zenon
    <3>3. next.run = r /\ LedTo(next.held.at, r)
      BY <1>1, <1>3, <1>6, <3>2
    <3> QED
      BY <1>7, <2>1, <3>2, <3>3
  <2> QED
    BY <2>2, <2>3
<1>13. CASE Advance(t) \/ Park(t) \/ Finish(t) \/ Wake(t)
  <2>1. UNCHANGED <<runs, disk, written>>
    BY <1>13 DEF Advance, Park, Finish, Wake, store
  <2>2. \A on : Parked(runs[r], on).at = runs[r].at /\ Ended(runs[r], on).at = runs[r].at
    BY DEF Parked, Ended
  <2>3. \E next : /\ Becomes(t, next)
                  /\ \/ next = Idle
                     \/ next = Working("execute", r, runs[r], x.by)
                     \/ \E on : next = Holding(x, Parked(runs[r], on))
                     \/ \E on : next = Holding(x, Ended(runs[r], on))
                     \/ \E to, ok : next = Stepping(r, x.by, to, ok)
    BY <1>13 DEF Advance, Park, Finish, Wake
  <2>4. PICK next : /\ Becomes(t, next)
                    /\ \/ next = Idle
                       \/ next = Working("execute", r, runs[r], x.by)
                       \/ \E on : next = Holding(x, Parked(runs[r], on))
                       \/ \E on : next = Holding(x, Ended(runs[r], on))
                       \/ \E to, ok : next = Stepping(r, x.by, to, ok)
    BY <2>3, Zenon
  <2>5. next.pc # "idle" => next.run = r /\ LedTo(next.held.at, r)
    BY <1>1, <1>3, <1>6, <2>2, <2>4
  <2> QED
    BY <1>7, <2>1, <2>4, <2>5
<1> QED
  BY <1>8, <1>9, <1>10, <1>11, <1>12, <1>13 DEF Carry

LEMMA OthersLed ==
    ASSUME Typed, Led, StoreHolds,
           \/ \E t \in Tasks : AgentFinished(t) \/ TerminalFinished(t)
           \/ Resume \/ Operator \/ Environment
    PROVE  Led'
<1>1. /\ \A q \in Runs : /\ LedTo(runs[q].at, q) /\ LedTo(disk[q].at, q)
                         /\ LedTo(recovery.rows[q].at, q)
      /\ \A u \in Tasks : task[u].pc # "idle" =>
             task[u].run \in Runs /\ LedTo(task[u].held.at, task[u].run)
  BY DEF Led, Typed, TaskOK, Sound
<1>2. \A q : LedTo(Absent.at, q) /\ LedTo(Beginning.at, q)
  BY DEF LedTo, Absent, Beginning
<1>3. ASSUME NEW t \in Tasks, NEW next, Becomes(t, next)
      PROVE  task'[t] = next /\ \A u \in Tasks \ {t} : task'[u] = task[u]
  BY <1>3 DEF Becomes, Typed, TypeOK
<1>4. /\ Idle.pc = "idle"
      /\ \A r, by, to, ok : Stepping(r, by, to, ok).run = r /\ Stepping(r, by, to, ok).held = Absent
      /\ \A r : Driving(r).run = r /\ Driving(r).held = Absent
      /\ \A r : Sleeping(r).run = r /\ Sleeping(r).held = Absent
      /\ \A pc, r, held, by : Working(pc, r, held, by).run = r
                              /\ Working(pc, r, held, by).held = held
  BY DEF Idle, Stepping, Driving, Sleeping, Working
\* Steps that write nothing; the rows picked up are what was led somewhere.
<1>5. ASSUME written' = written, disk' = disk,
             \A q \in Runs : LedTo(runs'[q].at, q) /\ LedTo(recovery'.rows[q].at, q),
             \/ task' = task
             \/ \E t \in Tasks : \E next : /\ Becomes(t, next)
                                           /\ next.pc # "idle" =>
                                                 next.run \in Runs /\ LedTo(next.held.at, next.run)
      PROVE  Led'
  <2>1. \A u \in Tasks : task'[u].pc # "idle" =>
            task'[u].run \in Runs /\ LedTo(task'[u].held.at, task'[u].run)
    BY <1>1, <1>3, <1>5
  <2> QED
    BY <1>1, <1>5, <2>1, LedStays
<1>6. ASSUME NEW t \in Tasks, AgentFinished(t) \/ TerminalFinished(t)
      PROVE  Led'
  <2>1. PICK worker, ok, by : Released(t, worker, ok, by)
    BY <1>6 DEF AgentFinished, TerminalFinished
  <2>2. runs' = runs /\ disk' = disk /\ written' = written /\ recovery' = recovery
    BY <1>6 DEF AgentFinished, TerminalFinished, store
  <2>3. \/ task' = task
        \/ \E r \in Runs : \E to : Becomes(t, Stepping(r, by, to, ok))
    BY <2>1, ReleasedTurns
  <2>4. \/ task' = task
        \/ \E next : Becomes(t, next) /\ next.run \in Runs /\ LedTo(next.held.at, next.run)
    BY <1>2, <1>4, <2>3
  <2> QED
    BY <1>1, <1>5, <2>2, <2>4
<1>7. CASE Resume
  <2>1. disk' = disk /\ written' = written
    BY <1>7 DEF Resume, ReadUnfinished, PickUpApproval, PickUpGone, PickUpStep, PickUpDelay,
         store
  <2>2. CASE ReadUnfinished
    <3>1. /\ runs' = runs /\ task' = task
          /\ recovery' = [read |-> TRUE,
                          rows |-> [r \in Runs |-> IF Live(disk[r]) THEN disk[r] ELSE Absent]]
      BY <2>2 DEF ReadUnfinished, StoreHolds
    <3>2. \A q \in Runs : LedTo(recovery'.rows[q].at, q)
      BY <1>1, <1>2, <3>1
    <3> QED
      BY <1>1, <1>5, <2>1, <3>1, <3>2
  <2>3. ASSUME NEW r \in Runs, PicksUp(r)
        PROVE  \A q \in Runs : LedTo(recovery'.rows[q].at, q)
    <3>1. /\ recovery' = [read |-> recovery.read, rows |-> [recovery.rows EXCEPT ![r] = Absent]]
          /\ recovery.rows \in [Runs -> Run]
      BY <2>3 DEF PicksUp, Typed, TypeOK
    <3>2. \A q \in Runs : recovery'.rows[q] = IF q = r THEN Absent ELSE recovery.rows[q]
      BY <3>1
    <3> QED
      BY <1>1, <1>2, <3>2
  <2>4. ASSUME NEW r \in Runs, runs' = [runs EXCEPT ![r] = recovery.rows[r]]
        PROVE  \A q \in Runs : LedTo(runs'[q].at, q)
    BY <1>1, <2>4 DEF Typed, TypeOK
  <2>5. ASSUME NEW r \in Runs, PickUpApproval(r)
        PROVE  Led'
    BY <1>5, <2>1, <2>3, <2>4, <2>5 DEF PickUpApproval
  <2>6. ASSUME NEW t \in Tasks, NEW r \in Runs, PickUpStep(t, r) \/ PickUpDelay(t, r)
        PROVE  Led'
    <3>1. /\ PicksUp(r) /\ runs' = [runs EXCEPT ![r] = recovery.rows[r]]
          /\ Becomes(t, Driving(r)) \/ Becomes(t, Sleeping(r))
      BY <2>6 DEF PickUpStep, PickUpDelay
    <3>2. \E next : Becomes(t, next) /\ next.run \in Runs /\ LedTo(next.held.at, next.run)
      BY <1>2, <1>4, <3>1
    <3> QED
      BY <1>5, <2>1, <2>3, <2>4, <3>1, <3>2
  <2>7. ASSUME NEW t \in Tasks, NEW r \in Runs, PickUpGone(t, r)
        PROVE  Led'
    <3> DEFINE run == Ended(recovery.rows[r], "failed")
    <3>1. /\ PicksUp(r) /\ Remembered(r, run)
          /\ Becomes(t, Working("record", r, run, "resume"))
      BY <2>7 DEF PickUpGone
    <3>2. run \in Run /\ run.at = recovery.rows[r].at
      BY RecordLemma DEF Typed, TypeOK, Outcomes, Ended
    <3> HIDE DEF run
    <3>3. /\ \A q \in Runs \ {r} : runs'[q] = runs[q] \/ runs'[q] = Absent
          /\ runs'[r] = run \/ runs'[r] = Absent
      BY <3>1, <3>2, RememberedOthers DEF Typed
    <3>4. \A q \in Runs : LedTo(runs'[q].at, q)
      BY <1>1, <1>2, <3>2, <3>3
    <3>5. \E next : Becomes(t, next) /\ next.run \in Runs /\ LedTo(next.held.at, next.run)
      BY <1>1, <1>4, <3>1, <3>2
    <3> QED
      BY <1>5, <2>1, <2>3, <3>1, <3>4, <3>5
  <2> QED
    BY <1>7, <2>2, <2>5, <2>6, <2>7 DEF Resume
<1>8. ASSUME NEW t \in Tasks, NEW r \in Runs, StartRun(t, r)
      PROVE  Led'
  <2>1. /\ Remembered(r, Beginning) /\ UNCHANGED <<disk, written, recovery>>
        /\ Becomes(t, Working("record", r, Beginning, "operator"))
    BY <1>8 DEF StartRun, store
  <2>2. runs' = [runs EXCEPT ![r] = Beginning]
    BY <2>1 DEF Remembered, Beginning
  <2>3. \A q \in Runs : LedTo(runs'[q].at, q)
    BY <1>1, <1>2, <2>2 DEF Typed, TypeOK
  <2>4. \E next : Becomes(t, next) /\ next.run \in Runs /\ LedTo(next.held.at, next.run)
    BY <1>2, <1>4, <2>1
  <2> QED
    BY <1>1, <1>5, <2>1, <2>3, <2>4
<1>9. ASSUME NEW t \in Tasks, NEW r \in Runs, Cancel(t, r)
      PROVE  Led'
  <2>1. /\ UNCHANGED <<runs, disk, written, recovery>>
        /\ Becomes(t, Working("insert", r, Ended(runs[r], "cancelled"), "operator"))
    BY <1>9 DEF Cancel, store
  <2>2. Ended(runs[r], "cancelled").at = runs[r].at
    BY DEF Ended
  <2>3. \E next : Becomes(t, next) /\ next.run \in Runs /\ LedTo(next.held.at, next.run)
    BY <1>1, <1>4, <2>1, <2>2
  <2> QED
    BY <1>1, <1>5, <2>1, <2>3
<1>10. ASSUME NEW t \in Tasks, NEW r \in Runs, NEW allow \in BOOLEAN, Answer(t, r, allow)
       PROVE  Led'
  <2>1. /\ UNCHANGED <<runs, disk, written, recovery>>
        /\ \E to : Becomes(t, Stepping(r, "operator", to, allow))
    BY <1>10 DEF Answer, store
  <2>2. \E next : Becomes(t, next) /\ next.run \in Runs /\ LedTo(next.held.at, next.run)
    BY <1>2, <1>4, <2>1
  <2> QED
    BY <1>1, <1>5, <2>1, <2>2
<1>11. ASSUME NEW t \in Tasks, CallDropped(t)
       PROVE  Led'
  <2>1. Becomes(t, Idle) /\ runs' = runs /\ recovery' = recovery
    BY <1>11 DEF CallDropped
  <2>2. \A q \in Runs : LedTo(disk'[q].at, q)
    <3>1. CASE task[t].pc = "record"
      <4>1. disk' = [disk EXCEPT ![task[t].run] = task[t].held]
        BY <1>11, <3>1 DEF CallDropped, Saved, StoreHolds
      <4>2. \A q \in Runs : disk'[q] = IF q = task[t].run THEN task[t].held ELSE disk[q]
        BY <4>1 DEF Typed, TypeOK
      <4> QED
        BY <1>1, <3>1, <4>2
    <3>2. CASE task[t].pc # "record"
      BY <1>1, <1>11, <3>2 DEF CallDropped
    <3> QED
      BY <3>1, <3>2
  <2>3. \A q \in Runs : written[q] \subseteq written'[q]
    <3>1. \/ written' = written
          \/ written' = [written EXCEPT ![task[t].run] = @ \cup {<<None, Start>>}]
      BY <1>11 DEF CallDropped, Appended
    <3>2. CASE written' = written
      BY <3>2
    <3>3. CASE written' = [written EXCEPT ![task[t].run] = @ \cup {<<None, Start>>}]
      <4>1. \A q \in Runs : written'[q] = IF q = task[t].run THEN written[q] \cup {<<None, Start>>}
                                                            ELSE written[q]
        BY <3>3 DEF Typed, TypeOK
      <4> QED
        BY <4>1
    <3> QED
      BY <3>1, <3>2, <3>3
  <2>4. \A u \in Tasks : task'[u].pc # "idle" =>
            task'[u].run \in Runs /\ LedTo(task'[u].held.at, task'[u].run)
    BY <1>1, <1>3, <1>4, <2>1
  <2> QED
    BY <1>1, <2>1, <2>2, <2>3, <2>4, LedStays
<1>12. CASE Crash
  <2>1. /\ \A q \in Runs : runs'[q] = Absent /\ recovery'.rows[q] = Absent
        /\ \A u \in Tasks : task'[u] = Idle
        /\ written' = written
    BY <1>12 DEF Crash
  <2>2. ASSUME NEW q \in Runs
        PROVE  disk'[q].at = disk[q].at
    <3>1. disk[q] \in Run
      BY DEF Typed, TypeOK
    <3>2. disk'[q] = IF disk[q].on \in Sessions
                     THEN [disk[q] EXCEPT !.on = "lost session"] ELSE disk[q]
      BY <1>12 DEF Crash
    <3> QED
      BY <3>1, <3>2 DEF Run
  <2>3. \A q \in Runs : /\ LedTo(runs'[q].at, q) /\ LedTo(disk'[q].at, q)
                        /\ LedTo(recovery'.rows[q].at, q)
    BY <1>1, <1>2, <2>1, <2>2
  <2> QED
    BY <1>4, <2>1, <2>3, LedStays
<1>13. CASE Environment /\ ~Crash
  <2>1. runs' = runs /\ task' = task /\ disk' = disk /\ written' = written
        /\ recovery' = recovery
    BY <1>13 DEF Environment, AgentAsks, TurnEnds, ProcessExits, TimePasses, store
  <2> QED
    BY <1>1, <1>5, <2>1
<1> QED
  BY <1>6, <1>7, <1>8, <1>9, <1>10, <1>11, <1>12, <1>13 DEF Operator

LEMMA InitLed == Init => Behind /\ Led
<1> SUFFICES ASSUME Init PROVE Behind /\ Led
  OBVIOUS
<1>1. /\ \A r \in Runs : runs[r] = Absent /\ disk[r] = Absent /\ recovery.rows[r] = Absent
      /\ \A t \in Tasks : task[t] = Idle
  BY DEF Init
<1>2. Idle.pc = "idle" /\ Absent.at = Start
  BY DEF Idle, Working, Absent
<1> QED
  BY <1>1, <1>2 DEF Behind, Led, LedTo

LEMMA NextLed ==
    ASSUME Typed, Solo, Kept, Behind, Led, StoreHolds, RowsComeFirst, NothingCancels,
           [Next]_vars
    PROVE  Behind' /\ Led'
<1>1. CASE UNCHANGED vars
  <2>1. runs' = runs /\ task' = task /\ disk' = disk /\ written' = written
        /\ recovery' = recovery
    BY <1>1 DEF vars
  <2> QED
    BY <2>1 DEF Behind, Led, LedTo, Records
<1>2. CASE Next
  BY <1>2, CarryBehind, OthersBehind, CarryLed, OthersLed DEF Next
<1> QED
  BY <1>1, <1>2

\* A step is taken up only when the row says the run is on it and the transition
\* that led there is written (engine.rs: step_to, remember, advance): whatever
\* dies next, a restart reads neither less than what has been acted on nor more.
THEOREM StepsFollowTheirRows ==
    ASSUME StoreHolds, RowsGoInOrder, NothingCancels, RowsComeFirst, OneCallAtATime,
           NothingIsShared \/ NoTerminalSteps
    PROVE  Spec => []StepWrittenFirst
<1>1. Typed /\ Solo /\ Tracked /\ Kept /\ Behind /\ Led => StepWrittenFirst
  <2> SUFFICES ASSUME Typed, Solo, Tracked, Kept, Behind, Led,
                      NEW t \in Tasks, task[t].pc \in {"execute", "open"}
               PROVE  LET r == task[t].run
                          at == task[t].held.at
                      IN  /\ disk[r].at = at /\ disk[r].steps = task[t].held.steps
                          /\ at = Start \/ \E edge \in written[r] : edge[2] = at
    BY DEF StepWrittenFirst
  <2> DEFINE r == task[t].run
  <2>1. r \in Runs /\ Carries(t, r) /\ task[t].held = runs[r] /\ LedTo(task[t].held.at, r)
    BY DEF Typed, TaskOK, Sound, Carries, Carrying, Tracked, Paced, OnTrack, Led
  <2>2. runs[r] # Absent
    BY <2>1 DEF Solo, CarriedIsLive, Live, Absent
  <2>3. disk[r] = runs[r]
    BY <2>1, <2>2 DEF Kept, RowIsKept, Behind
  <2> QED
    BY <2>1, <2>3 DEF LedTo
<1>2. Typed /\ Solo /\ Kept /\ Behind /\ Led /\ [Next]_vars => Behind' /\ Led'
  BY NextLed
<1> QED
  BY <1>1, <1>2, InitLed, TypedInvariant, SoloInvariant, TrackedInvariant, KeptInvariant,
     PTL DEF Spec
-----------------------------------------------------------------------------
(* What a restart reads only moves forward.                                *)

LEMMA ToldLemma ==
    /\ Told(Absent) /\ Told(Beginning) /\ Told(Idle.held)
    /\ \A run, to, ok : Told(Moved(run, to, ok))
    /\ \A run, on : Told(Parked(run, on))
    /\ \A run : \A outcome \in Outcomes : Told(Ended(run, outcome))
BY DEF Told, Absent, Beginning, Moved, Parked, Ended, Idle, Working

LEMMA CarryTold ==
    ASSUME Typed, OutcomesTold, NEW t \in Tasks, Carry(t)
    PROVE  OutcomesTold'
<1> DEFINE x == task[t]
           r == x.run
<1>1. /\ \A q \in Runs : Told(runs[q]) /\ Told(disk[q]) /\ Told(recovery.rows[q])
      /\ \A u \in Tasks : /\ Told(task[u].held)
                          /\ task[u].pc = "finish" => task[u].on \in Outcomes
  BY DEF OutcomesTold
<1>2. recovery' = recovery
  BY DEF Carry, Execute, RunsOut, StepMissing, ExecuteEmit, ExecuteEnd, ExecuteCondition,
         ExecuteApproval, ExecuteAction, ExecuteAgent, ExecuteClose, ExecuteOpen,
         ExecuteDelay, Advance, StepTo, Park, Finish, Insert, Record, Begin, Wake
<1>3. x.pc # "idle" => r \in Runs
  BY DEF Typed, TaskOK, Sound
<1>4. /\ \A held : Holding(x, held).pc # "finish" /\ Holding(x, held).held = held
      /\ Driving(r).pc # "finish" /\ Driving(r).held = Absent
      /\ \A pc, held, by : /\ Working(pc, r, held, by).pc = pc
                           /\ Working(pc, r, held, by).held = held
      /\ \A on : Parking(x, on).pc # "finish" /\ Parking(x, on).held = Absent
      /\ \A on : Finishing(x, on).on = on /\ Finishing(x, on).held = Absent
      /\ \A by, to, ok : /\ Stepping(r, by, to, ok).pc # "finish"
                         /\ Stepping(r, by, to, ok).held = Absent
      /\ Idle.pc # "finish" /\ Idle.held = Absent
      /\ Sleeping(r).pc # "finish" /\ Sleeping(r).held = Absent
  BY DEF Holding, Driving, Working, Parking, Finishing, Stepping, Idle, Sleeping
<1>5. ASSUME NEW next, Becomes(t, next)
      PROVE  task'[t] = next /\ \A u \in Tasks \ {t} : task'[u] = task[u]
  BY <1>5 DEF Becomes, Typed, TypeOK
<1>6. ASSUME NEW next, Becomes(t, next),
             Told(next.held) /\ (next.pc = "finish" => next.on \in Outcomes),
             \A q \in Runs : Told(runs'[q]) /\ Told(disk'[q])
      PROVE  OutcomesTold'
  <2>1. \A u \in Tasks : /\ Told(task'[u].held)
                         /\ task'[u].pc = "finish" => task'[u].on \in Outcomes
    BY <1>1, <1>5, <1>6
  <2> QED
    BY <1>1, <1>2, <1>6, <2>1 DEF OutcomesTold, Told
<1>7. CASE UNCHANGED <<runs, disk>> /\ ~Execute(t)
  <2>1. ~Insert(t) => \E next : /\ Becomes(t, next)
                  /\ \/ next = Idle \/ next = Driving(r)
                     \/ next = Working("execute", r, runs[r], x.by)
                     \/ next = Working("begin", r, Absent, x.by)
                     \/ x.pc = "step" /\ next = Holding(x, Moved(runs[r], x.to, x.ok))
                     \/ x.pc = "park" /\ next = Holding(x, Parked(runs[r], x.on))
                     \/ x.pc = "finish" /\ next = Holding(x, Ended(runs[r], x.on))
                     \/ \E to, ok : next = Stepping(r, x.by, to, ok)
    BY <1>7, RecordTurns DEF Carry, Advance, StepTo, Park, Finish, Begin, Wake
  <2>2. CASE ~Insert(t)
    <3>1. PICK next : /\ Becomes(t, next)
                  /\ \/ next = Idle \/ next = Driving(r)
                     \/ next = Working("execute", r, runs[r], x.by)
                     \/ next = Working("begin", r, Absent, x.by)
                     \/ x.pc = "step" /\ next = Holding(x, Moved(runs[r], x.to, x.ok))
                     \/ x.pc = "park" /\ next = Holding(x, Parked(runs[r], x.on))
                     \/ x.pc = "finish" /\ next = Holding(x, Ended(runs[r], x.on))
                     \/ \E to, ok : next = Stepping(r, x.by, to, ok)
      BY <2>1, <2>2, Zenon
    <3>2. r \in Runs
      BY <1>3, <1>7, <2>2 DEF Carry, Advance, StepTo, Park, Finish, Begin, Wake, Record
    <3>3. Told(next.held) /\ (next.pc = "finish" => next.on \in Outcomes)
      BY <1>1, <1>4, <3>1, <3>2, ToldLemma
    <3> QED
      BY <1>1, <1>6, <1>7, <3>1, <3>3
  <2>3. CASE Insert(t)
    <3>1. Becomes(t, Working("record", r, x.held, x.by))
      BY <2>3 DEF Insert
    <3> QED
      BY <1>1, <1>4, <1>6, <1>7, <3>1
  <2> QED
    BY <2>2, <2>3
<1>8. CASE Insert(t)
  <2>1. /\ Remembered(r, x.held) /\ x.held \in Run /\ disk' = disk /\ r \in Runs
        /\ Becomes(t, Working("record", r, x.held, x.by))
    BY <1>3, <1>8, Zenon DEF Insert, store, Typed, TypeOK, TaskOK, Sound, Task
  <2>2. \A q \in Runs : runs'[q] \in {runs[q], x.held, Absent}
    BY <2>1, RememberedOthers DEF Typed
  <2>3. \A q \in Runs : Told(runs'[q]) /\ Told(disk'[q])
    BY <1>1, <2>1, <2>2, ToldLemma
  <2> QED
    BY <1>1, <1>4, <1>6, <2>1, <2>3
<1>9. CASE Record(t)
  <2>1. runs' = runs /\ (disk' = disk \/ disk' = [disk EXCEPT ![r] = x.held])
    BY <1>9 DEF Record, Saved
  <2>2. \A q \in Runs : disk'[q] \in {disk[q], x.held}
    BY <2>1 DEF Typed, TypeOK
  <2>3. \A q \in Runs : Told(runs'[q]) /\ Told(disk'[q])
    BY <1>1, <2>1, <2>2
  <2>4. PICK next : /\ Becomes(t, next)
                    /\ \/ next = Idle
                       \/ next = Driving(r)
                       \/ next = Working("begin", r, Absent, x.by)
    BY <1>9, RecordTurns
  <2>5. Told(next.held) /\ (next.pc = "finish" => next.on \in Outcomes)
    BY <1>4, <2>4, ToldLemma
  <2> QED
    BY <1>6, <2>3, <2>4, <2>5
<1>10. CASE Execute(t)
  <2>1. runs' = runs /\ disk' = disk
    BY <1>10 DEF Execute, RunsOut, StepMissing, ExecuteEmit, ExecuteEnd, ExecuteCondition,
         ExecuteApproval, ExecuteAction, ExecuteAgent, ExecuteClose, ExecuteOpen,
         ExecuteDelay, store
  <2>2. CASE \E s \in Tasks : ExecuteDelay(t, s)
    <3>1. PICK s \in Tasks : ExecuteDelay(t, s)
      BY <2>2
    <3>2. /\ s # t
          /\ task' = [task EXCEPT ![t] = Parking(x, "delay"), ![s] = Sleeping(r)]
      BY <3>1 DEF ExecuteDelay
    <3>3. /\ task'[t] = Parking(x, "delay") /\ task'[s] = Sleeping(r)
          /\ \A u \in Tasks \ {t, s} : task'[u] = task[u]
      BY <3>2 DEF Typed, TypeOK
    <3>4. \A u \in Tasks : /\ Told(task'[u].held)
                           /\ task'[u].pc = "finish" => task'[u].on \in Outcomes
      BY <1>1, <1>4, <3>3, ToldLemma
    <3> QED
      BY <1>1, <1>2, <2>1, <3>4 DEF OutcomesTold, Told
  <2>3. CASE ~(\E s \in Tasks : ExecuteDelay(t, s))
    <3>1. \E next : /\ Becomes(t, next)
                    /\ \/ next = Finishing(x, "exhausted") \/ next = Finishing(x, "failed")
                       \/ ExecuteEnd(t) /\ next = Finishing(x, Here(t).outcome)
                       \/ \E on : next = Parking(x, on)
                       \/ \E to, ok : next = Stepping(r, x.by, to, ok)
                       \/ next = Working("open", r, x.held, x.by)
      BY <1>10, <2>3 DEF Execute, RunsOut, StepMissing, ExecuteEmit, ExecuteEnd,
           ExecuteCondition, ExecuteApproval, ExecuteAction, ExecuteAgent, ExecuteClose,
           ExecuteOpen
    <3>2. PICK next : /\ Becomes(t, next)
                      /\ \/ next = Finishing(x, "exhausted") \/ next = Finishing(x, "failed")
                         \/ ExecuteEnd(t) /\ next = Finishing(x, Here(t).outcome)
                         \/ \E on : next = Parking(x, on)
                         \/ \E to, ok : next = Stepping(r, x.by, to, ok)
                         \/ next = Working("open", r, x.held, x.by)
      BY <3>1, Zenon
    <3>3. Here(t).outcome \in Outcomes
      <4>1. x.held.at \in Nodes
        BY DEF Typed, TypeOK, Task, Run
      <4> QED
        BY <4>1, ConstantsAssumption DEF Here
    <3>4. Told(next.held) /\ (next.pc = "finish" => next.on \in Outcomes)
      BY <1>1, <1>4, <3>2, <3>3, ToldLemma DEF Outcomes
    <3> QED
      BY <1>1, <1>6, <2>1, <3>2, <3>4
  <2> QED
    BY <2>2, <2>3
<1>11. Insert(t) \/ Record(t) \/ Execute(t) \/ UNCHANGED <<runs, disk>>
  BY DEF Carry, Advance, StepTo, Park, Finish, Begin, Wake, store
<1> QED
  BY <1>7, <1>8, <1>9, <1>10, <1>11

LEMMA OthersTold ==
    ASSUME Typed, OutcomesTold,
           \/ \E t \in Tasks : AgentFinished(t) \/ TerminalFinished(t)
           \/ Resume \/ Operator \/ Environment
    PROVE  OutcomesTold'
<1>1. /\ \A q \in Runs : Told(runs[q]) /\ Told(disk[q]) /\ Told(recovery.rows[q])
      /\ \A u \in Tasks : /\ Told(task[u].held)
                          /\ task[u].pc = "finish" => task[u].on \in Outcomes
  BY DEF OutcomesTold
<1>2. /\ Idle.pc # "finish" /\ Idle.held = Absent
      /\ \A r, by, to, ok : /\ Stepping(r, by, to, ok).pc # "finish"
                            /\ Stepping(r, by, to, ok).held = Absent
      /\ \A r : Driving(r).pc # "finish" /\ Driving(r).held = Absent
      /\ \A r : Sleeping(r).pc # "finish" /\ Sleeping(r).held = Absent
      /\ \A pc, r, held, by : /\ Working(pc, r, held, by).pc = pc
                              /\ Working(pc, r, held, by).held = held
  BY DEF Idle, Stepping, Driving, Sleeping, Working
\* Nothing here finishes a run but what picks up one whose workflow is gone, and
\* cancelling.
<1>3. ASSUME \A q \in Runs : Told(runs'[q]) /\ Told(disk'[q]) /\ Told(recovery'.rows[q]),
             \/ task' = task
             \/ \E t \in Tasks : \E next : Becomes(t, next) /\ Told(next.held)
                                           /\ next.pc # "finish"
      PROVE  OutcomesTold'
  <2>1. ASSUME NEW t \in Tasks, NEW next, Becomes(t, next)
        PROVE  task'[t] = next /\ \A u \in Tasks \ {t} : task'[u] = task[u]
    BY <2>1 DEF Becomes, Typed, TypeOK
  <2>2. \A u \in Tasks : /\ Told(task'[u].held)
                         /\ task'[u].pc = "finish" => task'[u].on \in Outcomes
    BY <1>1, <1>3, <2>1
  <2> QED
    BY <1>3, <2>2 DEF OutcomesTold, Told
<1>4. ASSUME NEW t \in Tasks, AgentFinished(t) \/ TerminalFinished(t)
      PROVE  OutcomesTold'
  <2>1. PICK worker, ok, by : Released(t, worker, ok, by)
    BY <1>4 DEF AgentFinished, TerminalFinished
  <2>2. runs' = runs /\ disk' = disk /\ recovery' = recovery
    BY <1>4 DEF AgentFinished, TerminalFinished, store
  <2>3. task' = task \/ \E next : Becomes(t, next) /\ next.held = Absent /\ next.pc # "finish"
    BY <1>2, <2>1, ReleasedTurns
  <2> QED
    BY <1>1, <1>3, <2>2, <2>3, ToldLemma
<1>5. CASE Resume
  <2>1. disk' = disk
    BY <1>5 DEF Resume, ReadUnfinished, PickUpApproval, PickUpGone, PickUpStep, PickUpDelay,
         store
  <2>2. CASE ReadUnfinished
    <3>1. runs' = runs /\ task' = task
      BY <2>2 DEF ReadUnfinished
    <3>2. \A q \in Runs : recovery'.rows[q] \in {disk[q], recovery.rows[q], Absent}
      <4>1. CASE recovery' = [read |-> TRUE,
                              rows |-> [r \in Runs |-> IF Live(disk[r]) THEN disk[r] ELSE Absent]]
        BY <4>1
      <4>2. CASE recovery' = [read |-> TRUE, rows |-> recovery.rows]
        BY <4>2
      <4> QED
        BY <2>2, <4>1, <4>2 DEF ReadUnfinished
    <3>3. \A q \in Runs : Told(recovery'.rows[q])
      BY <1>1, <3>2, ToldLemma
    <3> QED
      BY <1>1, <1>3, <2>1, <3>1, <3>3
  <2>3. ASSUME NEW r \in Runs, PicksUp(r)
        PROVE  \A q \in Runs : Told(recovery'.rows[q])
    <3>1. /\ recovery' = [read |-> recovery.read, rows |-> [recovery.rows EXCEPT ![r] = Absent]]
          /\ recovery.rows \in [Runs -> Run]
      BY <2>3 DEF PicksUp, Typed, TypeOK
    <3>2. \A q \in Runs : recovery'.rows[q] \in {Absent, recovery.rows[q]}
      BY <3>1
    <3> QED
      BY <1>1, <3>2, ToldLemma
  <2>4. ASSUME NEW r \in Runs, runs' = [runs EXCEPT ![r] = recovery.rows[r]]
        PROVE  \A q \in Runs : Told(runs'[q])
    BY <1>1, <2>4 DEF Typed, TypeOK
  <2>5. ASSUME NEW r \in Runs, PickUpApproval(r)
        PROVE  OutcomesTold'
    BY <1>1, <1>3, <2>1, <2>3, <2>4, <2>5 DEF PickUpApproval
  <2>6. ASSUME NEW t \in Tasks, NEW r \in Runs, PickUpStep(t, r) \/ PickUpDelay(t, r)
        PROVE  OutcomesTold'
    <3>1. /\ PicksUp(r) /\ runs' = [runs EXCEPT ![r] = recovery.rows[r]]
          /\ Becomes(t, Driving(r)) \/ Becomes(t, Sleeping(r))
      BY <2>6 DEF PickUpStep, PickUpDelay
    <3>2. \E next : Becomes(t, next) /\ Told(next.held) /\ next.pc # "finish"
      BY <1>2, <3>1, ToldLemma
    <3> QED
      BY <1>1, <1>3, <2>1, <2>3, <2>4, <3>1, <3>2
  <2>7. ASSUME NEW t \in Tasks, NEW r \in Runs, PickUpGone(t, r)
        PROVE  OutcomesTold'
    <3> DEFINE run == Ended(recovery.rows[r], "failed")
    <3>1. /\ PicksUp(r) /\ Remembered(r, run)
          /\ Becomes(t, Working("record", r, run, "resume"))
      BY <2>7 DEF PickUpGone
    <3>2. run \in Run /\ Told(run)
      BY RecordLemma, ToldLemma DEF Typed, TypeOK, Outcomes
    <3> HIDE DEF run
    <3>3. \A q \in Runs : runs'[q] \in {runs[q], run, Absent}
      BY <3>1, <3>2, RememberedOthers DEF Typed
    <3>4. \A q \in Runs : Told(runs'[q])
      BY <1>1, <3>2, <3>3, ToldLemma
    <3>5. \E next : Becomes(t, next) /\ Told(next.held) /\ next.pc # "finish"
      BY <1>2, <3>1, <3>2
    <3> QED
      BY <1>1, <1>3, <2>1, <2>3, <3>1, <3>4, <3>5
  <2> QED
    BY <1>5, <2>2, <2>5, <2>6, <2>7 DEF Resume
<1>6. ASSUME NEW t \in Tasks, NEW r \in Runs, StartRun(t, r)
      PROVE  OutcomesTold'
  <2>1. /\ Remembered(r, Beginning) /\ UNCHANGED <<disk, recovery>>
        /\ Becomes(t, Working("record", r, Beginning, "operator"))
    BY <1>6 DEF StartRun, store
  <2>2. \A q \in Runs : runs'[q] \in {runs[q], Beginning, Absent}
    BY <2>1, RecordLemma, RememberedOthers DEF Typed
  <2>3. \A q \in Runs : Told(runs'[q])
    BY <1>1, <2>2, ToldLemma
  <2>4. \E next : Becomes(t, next) /\ Told(next.held) /\ next.pc # "finish"
    BY <1>2, <2>1, ToldLemma
  <2> QED
    BY <1>1, <1>3, <2>1, <2>3, <2>4
<1>7. ASSUME NEW t \in Tasks, NEW r \in Runs, NEW allow \in BOOLEAN,
             Cancel(t, r) \/ Answer(t, r, allow)
      PROVE  OutcomesTold'
  <2>1. /\ UNCHANGED <<runs, disk, recovery>>
        /\ \/ Becomes(t, Working("insert", r, Ended(runs[r], "cancelled"), "operator"))
           \/ \E to : Becomes(t, Stepping(r, "operator", to, allow))
    BY <1>7 DEF Cancel, Answer, store
  <2>2. \E next : Becomes(t, next) /\ Told(next.held) /\ next.pc # "finish"
    BY <1>2, <2>1, ToldLemma DEF Outcomes
  <2> QED
    BY <1>1, <1>3, <2>1, <2>2
<1>8. ASSUME NEW t \in Tasks, CallDropped(t)
      PROVE  OutcomesTold'
  <2>1. /\ Becomes(t, Idle) /\ runs' = runs /\ recovery' = recovery
        /\ disk' = disk \/ disk' = [disk EXCEPT ![task[t].run] = task[t].held]
    BY <1>8 DEF CallDropped, Saved
  <2>2. \A q \in Runs : disk'[q] \in {disk[q], task[t].held}
    BY <2>1 DEF Typed, TypeOK
  <2>3. \A q \in Runs : Told(disk'[q])
    BY <1>1, <2>2
  <2> QED
    BY <1>1, <1>2, <1>3, <2>1, <2>3, ToldLemma
<1>9. CASE Crash
  <2>1. /\ \A q \in Runs : runs'[q] = Absent /\ recovery'.rows[q] = Absent
        /\ \A u \in Tasks : task'[u] = Idle
    BY <1>9 DEF Crash
  <2>2. ASSUME NEW q \in Runs
        PROVE  Told(disk'[q])
    <3>1. disk[q] \in Run /\ Told(disk[q])
      BY <1>1 DEF Typed, TypeOK
    <3>2. CASE disk[q].on \in Sessions
      <4>1. disk[q].is # "finished"
        BY <3>1, <3>2, WaitingAssumption DEF Told
      <4>2. disk'[q] = [disk[q] EXCEPT !.on = "lost session"]
        BY <1>9, <3>2 DEF Crash
      <4> QED
        BY <3>1, <4>1, <4>2 DEF Told, Run
    <3>3. CASE disk[q].on \notin Sessions
      BY <1>9, <3>1, <3>3 DEF Crash
    <3> QED
      BY <3>2, <3>3
  <2>3. /\ \A q \in Runs : Told(runs'[q]) /\ Told(disk'[q]) /\ Told(recovery'.rows[q])
        /\ \A u \in Tasks : Told(task'[u].held) /\ task'[u].pc # "finish"
    BY <1>2, <2>1, <2>2, ToldLemma
  <2> QED
    BY <2>3 DEF OutcomesTold, Told
<1>10. CASE Environment /\ ~Crash
  <2>1. runs' = runs /\ task' = task /\ disk' = disk /\ recovery' = recovery
    BY <1>10 DEF Environment, AgentAsks, TurnEnds, ProcessExits, TimePasses, store
  <2> QED
    BY <1>1, <1>3, <2>1
<1> QED
  BY <1>4, <1>5, <1>6, <1>7, <1>8, <1>9, <1>10 DEF Operator

LEMMA ToldInvariant == Spec => []OutcomesTold
<1>1. Init => OutcomesTold
  <2> SUFFICES ASSUME Init PROVE OutcomesTold
    OBVIOUS
  <2>1. /\ \A r \in Runs : runs[r] = Absent /\ disk[r] = Absent /\ recovery.rows[r] = Absent
        /\ \A t \in Tasks : task[t] = Idle
    BY DEF Init
  <2>2. Idle.pc # "finish"
    BY DEF Idle, Working
  <2> QED
    BY <2>1, <2>2, ToldLemma DEF OutcomesTold
<1>2. Typed /\ OutcomesTold /\ [Next]_vars => OutcomesTold'
  <2> SUFFICES ASSUME Typed, OutcomesTold, [Next]_vars
               PROVE  OutcomesTold'
    OBVIOUS
  <2>1. CASE UNCHANGED vars
    <3>1. runs' = runs /\ task' = task /\ disk' = disk /\ recovery' = recovery
      BY <2>1 DEF vars
    <3> QED
      BY <3>1 DEF OutcomesTold
  <2>2. CASE Next
    BY <2>2, CarryTold, OthersTold DEF Next
  <2> QED
    BY <2>1, <2>2
<1> QED
  BY <1>1, <1>2, TypedInvariant, PTL DEF Spec

\* A step in which no task comes to hold a copy, and the runs and rows that are
\* held copies of are left alone.
LEMMA OnwardStays ==
    ASSUME Onward,
           \A u \in Tasks : task'[u].pc \in {"insert", "record"} => task'[u] = task[u],
           \A u \in Tasks, q \in Runs :
               /\ task[u].pc = "insert" /\ task[u].run = q => runs'[q] = runs[q]
               /\ Records(u, q) /\ task'[u] = task[u] => disk'[q] = disk[q]
    PROVE  Onward'
<1> SUFFICES ASSUME NEW u \in Tasks, NEW q \in Runs
             PROVE  /\ task'[u].pc = "insert" /\ task'[u].run = q =>
                           runs'[q].steps <= task'[u].held.steps
                    /\ task'[u].pc = "record" /\ task'[u].run = q =>
                           /\ disk'[q].steps <= task'[u].held.steps
                           /\ disk'[q].is = "finished" => disk'[q] = task'[u].held
  BY DEF Onward, Records
<1>1. CASE task'[u].pc = "insert" /\ task'[u].run = q
  BY <1>1 DEF Onward
<1>2. CASE task'[u].pc = "record" /\ task'[u].run = q
  BY <1>2 DEF Onward, Records
<1> QED
  BY <1>1, <1>2

LEMMA CarryOnward ==
    ASSUME Typed, Solo, Kept, Onward, StoreHolds, RowsGoInOrder, NEW t \in Tasks, Carry(t)
    PROVE  Onward'
<1> DEFINE x == task[t]
           r == x.run
<1>1. /\ x.pc # "idle" => r \in Runs
      /\ \A q \in Runs : runs[q] \in Run /\ runs[q].steps \in Nat
      /\ x.held \in Run /\ x.held.steps \in Nat
  BY DEF Typed, TypeOK, TaskOK, Sound, Run, Task
<1>2. CASE Insert(t)
  <2>1. /\ x.pc = "insert" /\ r \in Runs /\ Remembered(r, x.held) /\ disk' = disk
        /\ Becomes(t, Working("record", r, x.held, x.by))
        /\ \A u \in Tasks : task[u].pc = "record" => task[u].run # r
    BY <1>1, <1>2, Zenon DEF Insert, RowsGoInOrder, store
  <2>2. /\ task'[t].pc = "record" /\ task'[t].run = r /\ task'[t].held = x.held
        /\ \A u \in Tasks \ {t} : task'[u] = task[u]
    BY <2>1 DEF Becomes, Typed, TypeOK, Working
  <2>3. Carries(t, r) /\ Live(runs[r])
    BY <2>1 DEF Solo, CarriedIsLive, Carries, Carrying
  <2>4. disk[r] = runs[r]
    BY <2>1, <2>3 DEF Kept, RowIsKept, Records, Live, Absent
  <2>5. runs[r].steps <= x.held.steps
    BY <2>1 DEF Onward
  <2>6. ASSUME NEW u \in Tasks \ {t}, NEW q \in Runs, task[u].pc = "insert", task[u].run = q
        PROVE  runs'[q] = runs[q]
    <3>1. Carries(u, q)
      BY <2>6 DEF Carries, Carrying
    <3>2. q # r /\ Live(runs[q])
      BY <2>3, <3>1 DEF Solo, OneDriver, CarriedIsLive
    <3>3. runs'[q] = runs[q] \/ runs[q].is = "finished"
      BY <1>1, <2>1, <3>2, RememberedOthers DEF Typed
    <3> QED
      BY <3>2, <3>3 DEF Live
  <2> SUFFICES ASSUME NEW u \in Tasks, NEW q \in Runs
               PROVE  /\ task'[u].pc = "insert" /\ task'[u].run = q =>
                             runs'[q].steps <= task'[u].held.steps
                      /\ task'[u].pc = "record" /\ task'[u].run = q =>
                             /\ disk'[q].steps <= task'[u].held.steps
                             /\ disk'[q].is = "finished" => disk'[q] = task'[u].held
    BY DEF Onward, Records
  <2>7. CASE u = t
    BY <2>1, <2>2, <2>3, <2>4, <2>5, <2>7 DEF Live
  <2>8. CASE u # t
    BY <2>1, <2>2, <2>6, <2>8 DEF Onward, Records
  <2> QED
    BY <2>7, <2>8
<1>3. CASE Record(t)
  <2>1. /\ x.pc = "record" /\ r \in Runs /\ runs' = runs
        /\ disk' = [disk EXCEPT ![r] = x.held]
    BY <1>1, <1>3 DEF Record, Saved, StoreHolds
  <2>2. PICK next : /\ Becomes(t, next)
                    /\ \/ next = Idle
                       \/ next = Driving(r)
                       \/ next = Working("begin", r, Absent, x.by)
    BY <1>3, RecordTurns
  <2>3. next.pc \notin {"record", "insert"}
    BY <2>2 DEF Idle, Driving, Working
  <2>4. task'[t] = next /\ \A u \in Tasks \ {t} : task'[u] = task[u]
    BY <2>2 DEF Becomes, Typed, TypeOK
  <2>5. ASSUME NEW u \in Tasks, NEW q \in Runs, Records(u, q), task'[u] = task[u]
        PROVE  disk'[q] = disk[q]
    <3>1. u # t
      BY <2>3, <2>4, <2>5 DEF Records
    <3>2. q # r
      BY <2>1, <2>5, <3>1 DEF Kept, OneRecords, Records
    <3> QED
      BY <2>1, <3>2 DEF Typed, TypeOK
  <2> QED
    BY <2>1, <2>3, <2>4, <2>5, OnwardStays
<1>4. CASE ~Insert(t) /\ ~Record(t)
  <2>1. /\ x.pc \notin {"idle", "record"}
        /\ UNCHANGED <<runs, disk, recovery>>
        /\ task'[t].pc # "record" /\ (task'[t].pc # "idle" => task'[t].run = r)
        /\ \A u \in Tasks \ {t} : \/ task'[u] = task[u]
                                  \/ /\ task[u].pc = "idle" /\ task'[u].pc = "sleep"
                                     /\ task'[u].run = r
    BY <1>4, CarryTurns
  <2>2. task'[t].pc = "insert" => runs[r].steps <= task'[t].held.steps
    <3>1. ASSUME NEW next, Becomes(t, next)
          PROVE  task'[t] = next
      BY <3>1 DEF Becomes, Typed, TypeOK
    <3>2. /\ \A held : Holding(x, held).held = held
          /\ Moved(runs[r], x.to, x.ok).steps = runs[r].steps + 1
          /\ Parked(runs[r], x.on).steps = runs[r].steps
          /\ Ended(runs[r], x.on).steps = runs[r].steps
      BY DEF Holding, Working, Moved, Parked, Ended
    <3>3. Idle.pc # "insert" /\ Driving(r).pc # "insert"
      BY DEF Idle, Driving, Working
    <3>4. CASE StepTo(t) \/ Park(t) \/ Finish(t)
      <4>1. \E next : /\ Becomes(t, next)
                      /\ \/ next = Idle \/ next = Driving(r)
                         \/ next = Holding(x, Moved(runs[r], x.to, x.ok))
                         \/ next = Holding(x, Parked(runs[r], x.on))
                         \/ next = Holding(x, Ended(runs[r], x.on))
        BY <3>4 DEF StepTo, Park, Finish
      <4>2. PICK next : /\ Becomes(t, next)
                        /\ \/ next = Idle \/ next = Driving(r)
                           \/ next = Holding(x, Moved(runs[r], x.to, x.ok))
                           \/ next = Holding(x, Parked(runs[r], x.on))
                           \/ next = Holding(x, Ended(runs[r], x.on))
        BY <4>1, Zenon
      <4>3. next.pc = "insert" =>
                /\ r \in Runs
                /\ next.held.steps \in {runs[r].steps, runs[r].steps + 1}
        BY <1>1, <2>1, <3>2, <3>3, <4>2
      <4> QED
        BY <1>1, <3>1, <4>2, <4>3
    <3>5. CASE Advance(t) \/ Wake(t) \/ Begin(t)
      <4>1. \E next : /\ Becomes(t, next)
                      /\ \/ next = Idle \/ next = Driving(r)
                         \/ next = Working("execute", r, runs[r], x.by)
                         \/ \E to, ok : next = Stepping(r, x.by, to, ok)
        BY <3>5 DEF Advance, Wake, Begin
      <4>2. PICK next : /\ Becomes(t, next)
                        /\ \/ next = Idle \/ next = Driving(r)
                           \/ next = Working("execute", r, runs[r], x.by)
                           \/ \E to, ok : next = Stepping(r, x.by, to, ok)
        BY <4>1, Zenon
      <4>3. next.pc # "insert"
        BY <3>3, <4>2 DEF Stepping, Working
      <4> QED
        BY <3>1, <4>2, <4>3
    <3>6. CASE Execute(t)
      <4>1. CASE \E s \in Tasks : ExecuteDelay(t, s)
        <5>1. PICK s \in Tasks : ExecuteDelay(t, s)
          BY <4>1
        <5>2. task'[t] = Parking(x, "delay")
          BY <5>1 DEF ExecuteDelay, Typed, TypeOK
        <5> QED
          BY <5>2 DEF Parking
      <4>2. CASE ~(\E s \in Tasks : ExecuteDelay(t, s))
        <5>1. \E next : /\ Becomes(t, next)
                        /\ \/ \E outcome : next = Finishing(x, outcome)
                           \/ \E on : next = Parking(x, on)
                           \/ \E to, ok : next = Stepping(r, x.by, to, ok)
                           \/ next = Working("open", r, x.held, x.by)
          BY <3>6, <4>2 DEF Execute, RunsOut, StepMissing, ExecuteEmit, ExecuteEnd,
               ExecuteCondition, ExecuteApproval, ExecuteAction, ExecuteAgent, ExecuteClose,
               ExecuteOpen
        <5>2. PICK next : /\ Becomes(t, next)
                          /\ \/ \E outcome : next = Finishing(x, outcome)
                             \/ \E on : next = Parking(x, on)
                             \/ \E to, ok : next = Stepping(r, x.by, to, ok)
                             \/ next = Working("open", r, x.held, x.by)
          BY <5>1, Zenon
        <5>3. next.pc # "insert"
          BY <5>2 DEF Finishing, Parking, Stepping, Working
        <5> QED
          BY <3>1, <5>2, <5>3
      <4> QED
        BY <4>1, <4>2
    <3> QED
      BY <1>4, <3>4, <3>5, <3>6 DEF Carry
  <2>3. runs' = runs /\ disk' = disk
    BY <2>1
  <2> SUFFICES ASSUME NEW u \in Tasks, NEW q \in Runs
               PROVE  /\ task'[u].pc = "insert" /\ task'[u].run = q =>
                             runs[q].steps <= task'[u].held.steps
                      /\ task'[u].pc = "record" /\ task'[u].run = q =>
                             /\ disk[q].steps <= task'[u].held.steps
                             /\ disk[q].is = "finished" => disk[q] = task'[u].held
    BY <2>3 DEF Onward, Records
  <2>4. CASE u = t
    BY <2>1, <2>2, <2>4
  <2>5. CASE u # t
    BY <2>1, <2>5 DEF Onward, Records
  <2> QED
    BY <2>4, <2>5
<1> QED
  BY <1>2, <1>3, <1>4

LEMMA OthersOnward ==
    ASSUME Typed, Solo, Kept, Onward, StoreHolds, RowsComeFirst, NothingCancels,
           \/ \E t \in Tasks : AgentFinished(t) \/ TerminalFinished(t)
           \/ Resume \/ Operator \/ Environment
    PROVE  Onward'
<1>1. ASSUME NEW t \in Tasks, NEW next, Becomes(t, next)
      PROVE  task'[t] = next /\ \A u \in Tasks \ {t} : task'[u] = task[u]
  BY <1>1 DEF Becomes, Typed, TypeOK
<1>2. CASE runs' = runs /\ disk' = disk /\ task' = task
  BY <1>2 DEF Onward, Records
<1>3. ASSUME NEW t \in Tasks, NEW next, Becomes(t, next), next.pc \notin {"insert", "record"},
             runs' = runs, disk' = disk
      PROVE  Onward'
  BY <1>1, <1>3, OnwardStays
\* Whoever comes to a run nobody is on.
<1>4. ASSUME NEW r \in Runs, \A u \in Tasks : task[u].pc # "idle" => task[u].run # r,
             \A q \in Runs \ {r} : runs'[q] = runs[q] \/ runs[q].is = "finished",
             disk' = disk,
             \/ task' = task
             \/ \E t \in Tasks : \E next :
                   /\ Becomes(t, next) /\ next.pc # "insert"
                   /\ next.pc = "record" => /\ next.run = r
                                            /\ disk[r].steps <= next.held.steps
                                            /\ disk[r].is # "finished"
      PROVE  Onward'
  <2>1. ASSUME NEW u \in Tasks, NEW q \in Runs, task[u].pc = "insert", task[u].run = q
        PROVE  runs'[q] = runs[q]
    <3>1. q # r /\ Live(runs[q])
      BY <1>4, <2>1 DEF Solo, CarriedIsLive, Carries, Carrying
    <3> QED
      BY <1>4, <3>1 DEF Live
  <2>2. CASE task' = task
    BY <1>4, <2>1, <2>2, OnwardStays
  <2>3. ASSUME NEW t \in Tasks, NEW next, Becomes(t, next), next.pc # "insert",
               next.pc = "record" => /\ next.run = r
                                     /\ disk[r].steps <= next.held.steps
                                     /\ disk[r].is # "finished"
        PROVE  Onward'
    <3> SUFFICES ASSUME NEW u \in Tasks, NEW q \in Runs
                 PROVE  /\ task'[u].pc = "insert" /\ task'[u].run = q =>
                               runs'[q].steps <= task'[u].held.steps
                        /\ task'[u].pc = "record" /\ task'[u].run = q =>
                               /\ disk[q].steps <= task'[u].held.steps
                               /\ disk[q].is = "finished" => disk[q] = task'[u].held
      BY <1>4 DEF Onward, Records
    <3>1. CASE u = t
      BY <1>1, <2>3, <3>1
    <3>2. CASE u # t
      BY <1>1, <2>1, <2>3, <3>2 DEF Onward, Records
    <3> QED
      BY <3>1, <3>2
  <2> QED
    BY <1>4, <2>2, <2>3
<1>5. ASSUME NEW t \in Tasks, AgentFinished(t) \/ TerminalFinished(t)
      PROVE  Onward'
  <2>1. PICK worker, ok, by : Released(t, worker, ok, by)
    BY <1>5 DEF AgentFinished, TerminalFinished
  <2>2. runs' = runs /\ disk' = disk
    BY <1>5 DEF AgentFinished, TerminalFinished, store
  <2>3. \A r, to : Stepping(r, by, to, ok).pc = "step"
    BY DEF Stepping
  <2>4. task' = task \/ \E next : Becomes(t, next) /\ next.pc = "step"
    BY <2>1, <2>3, ReleasedTurns
  <2> QED
    BY <1>2, <1>3, <2>2, <2>4
<1>6. CASE Resume
  <2>1. CASE ReadUnfinished
    BY <1>2, <2>1 DEF ReadUnfinished, store
  <2>2. ASSUME NEW r \in Runs, PicksUp(r)
        PROVE  /\ \A u \in Tasks : task[u].pc # "idle" => task[u].run # r
               /\ recovery.rows[r] = disk[r] /\ recovery.rows[r].is # "finished"
               /\ recovery.rows[r] \in Run /\ disk[r].steps \in Nat
    BY <2>2 DEF PicksUp, Kept, Apart, Solo, Unpicked, Live, Typed, TypeOK, Run
  <2>3. ASSUME NEW r \in Runs, PickUpApproval(r)
        PROVE  Onward'
    <3>1. /\ PicksUp(r) /\ task' = task /\ disk' = disk
          /\ \A q \in Runs \ {r} : runs'[q] = runs[q]
      BY <2>3 DEF PickUpApproval, store, Typed, TypeOK
    <3> QED
      BY <1>4, <2>2, <3>1
  <2>4. ASSUME NEW t \in Tasks, NEW r \in Runs, PickUpStep(t, r) \/ PickUpDelay(t, r)
        PROVE  Onward'
    <3>1. /\ PicksUp(r) /\ disk' = disk
          /\ \A q \in Runs \ {r} : runs'[q] = runs[q]
          /\ Becomes(t, Driving(r)) \/ Becomes(t, Sleeping(r))
      BY <2>4 DEF PickUpStep, PickUpDelay, store, Typed, TypeOK
    <3>2. Driving(r).pc = "loop" /\ Sleeping(r).pc = "sleep"
      BY DEF Driving, Sleeping, Working
    <3>3. \E next : Becomes(t, next) /\ next.pc # "insert" /\ next.pc # "record"
      BY <3>1, <3>2
    <3> QED
      BY <1>4, <2>2, <3>1, <3>3
  <2>5. ASSUME NEW t \in Tasks, NEW r \in Runs, PickUpGone(t, r)
        PROVE  Onward'
    <3> DEFINE run == Ended(recovery.rows[r], "failed")
               next == Working("record", r, run, "resume")
    <3>1. PicksUp(r) /\ Remembered(r, run) /\ disk' = disk /\ Becomes(t, next)
      BY <2>5 DEF PickUpGone, store
    <3>2. run \in Run /\ run.steps = recovery.rows[r].steps
      BY <2>2, <3>1, RecordLemma DEF Outcomes, Ended
    <3>3. next.pc = "record" /\ next.run = r /\ next.held = run
      BY DEF Working
    <3> HIDE DEF run, next
    <3>4. \A q \in Runs \ {r} : runs'[q] = runs[q] \/ runs[q].is = "finished"
      BY <3>1, <3>2, RememberedOthers DEF Typed
    <3>5. disk[r].steps <= next.held.steps /\ disk[r].is # "finished"
      BY <2>2, <3>1, <3>2, <3>3
    <3> QED
      BY <1>4, <2>2, <3>1, <3>3, <3>4, <3>5
  <2> QED
    BY <1>6, <2>1, <2>3, <2>4, <2>5 DEF Resume
<1>7. ASSUME NEW t \in Tasks, NEW r \in Runs, StartRun(t, r)
      PROVE  Onward'
  <2> DEFINE next == Working("record", r, Beginning, "operator")
  <2>1. /\ Remembered(r, Beginning) /\ disk' = disk /\ Becomes(t, next)
        /\ disk[r] = Absent /\ \A u \in Tasks : task[u].run # r
    BY <1>7 DEF StartRun, Fresh, store
  <2>2. /\ next.pc = "record" /\ next.run = r /\ next.held = Beginning
        /\ Beginning.steps = 0 /\ Absent.steps = 0 /\ Absent.is # "finished"
    BY DEF Working, Beginning, Absent
  <2> HIDE DEF next
  <2>3. \A q \in Runs \ {r} : runs'[q] = runs[q] \/ runs[q].is = "finished"
    BY <2>1, RecordLemma, RememberedOthers DEF Typed
  <2>4. disk[r].steps <= next.held.steps /\ disk[r].is # "finished"
    BY <2>1, <2>2
  <2> QED
    BY <1>4, <2>1, <2>2, <2>3, <2>4
<1>8. ASSUME NEW t \in Tasks, NEW r \in Runs, NEW allow \in BOOLEAN, Answer(t, r, allow)
      PROVE  Onward'
  <2>1. runs' = runs /\ disk' = disk /\ \E to : Becomes(t, Stepping(r, "operator", to, allow))
    BY <1>8 DEF Answer, store
  <2>2. \A to : Stepping(r, "operator", to, allow).pc = "step"
    BY DEF Stepping
  <2> QED
    BY <1>3, <2>1, <2>2
<1>9. ASSUME NEW t \in Tasks, CallDropped(t)
      PROVE  Onward'
  <2>1. Becomes(t, Idle) /\ Idle.pc = "idle" /\ runs' = runs
    BY <1>9 DEF CallDropped, Idle, Working
  <2>2. CASE task[t].pc = "record"
    <3>1. disk' = [disk EXCEPT ![task[t].run] = task[t].held]
      BY <1>9, <2>2 DEF CallDropped, Saved, StoreHolds
    <3>2. ASSUME NEW u \in Tasks, NEW q \in Runs, Records(u, q), task'[u] = task[u]
          PROVE  disk'[q] = disk[q]
      <4>1. u # t
        BY <1>1, <2>1, <3>2 DEF Records
      <4>2. q # task[t].run
        BY <2>2, <3>2, <4>1 DEF Kept, OneRecords, Records
      <4> QED
        BY <3>1, <4>2 DEF Typed, TypeOK
    <3> QED
      BY <1>1, <2>1, <3>2, OnwardStays
  <2>3. CASE task[t].pc # "record"
    BY <1>3, <1>9, <2>1, <2>3 DEF CallDropped
  <2> QED
    BY <2>2, <2>3
<1>10. \A t \in Tasks, r \in Runs : ~Cancel(t, r)
  BY DEF Cancel, NothingCancels
<1>11. CASE Environment
  <2>1. CASE Crash
    <3>1. \A u \in Tasks : task'[u] = Idle
      BY <2>1 DEF Crash
    <3>2. Idle.pc = "idle"
      BY DEF Idle, Working
    <3> QED
      BY <3>1, <3>2 DEF Onward, Records
  <2>2. CASE ~Crash
    BY <1>2, <1>11, <2>2 DEF Environment, AgentAsks, TurnEnds, ProcessExits, TimePasses, store
  <2> QED
    BY <2>1, <2>2
<1> QED
  BY <1>5, <1>6, <1>7, <1>8, <1>9, <1>10, <1>11 DEF Operator

\* Only the row being written changes, and a restart, which clears the sessions
\* of the rows, leaves alone those that say how their run ended.
LEMMA RowsOnward ==
    ASSUME Typed, Kept, OutcomesTold, Onward, StoreHolds, [Next]_vars, NEW r \in Runs
    PROVE  /\ disk'[r].steps >= disk[r].steps
           /\ disk[r].is = "finished" => disk'[r] = disk[r]
<1>1. disk \in [Runs -> Run] /\ disk[r] \in Run /\ disk[r].steps \in Nat
  BY DEF Typed, TypeOK, Run
<1>2. CASE disk' = disk
  BY <1>1, <1>2
<1>3. ASSUME NEW t \in Tasks, task[t].pc = "record",
             disk' = [disk EXCEPT ![task[t].run] = task[t].held]
      PROVE  /\ disk'[r].steps >= disk[r].steps
             /\ disk[r].is = "finished" => disk'[r] = disk[r]
  <2>1. task[t].held.steps \in Nat
    BY DEF Typed, TypeOK, Task, Run
  <2>2. CASE task[t].run = r
    <3>1. /\ disk[r].steps <= task[t].held.steps
          /\ disk[r].is = "finished" => disk[r] = task[t].held
      BY <1>3, <2>2 DEF Onward, Records
    <3>2. disk'[r] = task[t].held
      BY <1>1, <1>3, <2>2
    <3> QED
      BY <1>1, <2>1, <3>1, <3>2
  <2>3. CASE task[t].run # r
    <3>1. disk'[r] = disk[r]
      BY <1>1, <1>3, <2>3
    <3> QED
      BY <1>1, <3>1
  <2> QED
    BY <2>2, <2>3
<1>4. CASE Crash
  <2>1. disk'[r] = IF disk[r].on \in Sessions
                   THEN [disk[r] EXCEPT !.on = "lost session"] ELSE disk[r]
    BY <1>4 DEF Crash
  <2>2. disk[r].is = "finished" => disk[r].on \notin Sessions
    BY WaitingAssumption DEF OutcomesTold, Told
  <2>3. disk'[r].steps = disk[r].steps
    BY <1>1, <2>1 DEF Run
  <2>4. disk[r].is = "finished" => disk'[r] = disk[r]
    BY <2>1, <2>2, Zenon
  <2>5. disk'[r].steps >= disk[r].steps
    BY <1>1, <2>3
  <2> QED
    BY <2>4, <2>5
<1>5. CASE Next
  <2>1. ASSUME NEW t \in Tasks, Carry(t)
        PROVE  \/ disk' = disk
               \/ task[t].pc = "record" /\ disk' = [disk EXCEPT ![task[t].run] = task[t].held]
    <3>1. CASE Record(t)
      BY <3>1 DEF Record, Saved, StoreHolds
    <3>2. CASE ~Record(t)
      BY <2>1, <3>2 DEF Carry, Execute, RunsOut, StepMissing, ExecuteEmit, ExecuteEnd,
         ExecuteCondition, ExecuteApproval, ExecuteAction, ExecuteAgent, ExecuteClose,
         ExecuteOpen, ExecuteDelay, Advance, StepTo, Park, Finish, Insert, Begin, Wake, store
    <3> QED
      BY <3>1, <3>2
  <2>2. ASSUME NEW t \in Tasks, CallDropped(t)
        PROVE  \/ disk' = disk
               \/ task[t].pc = "record" /\ disk' = [disk EXCEPT ![task[t].run] = task[t].held]
    BY <2>2 DEF CallDropped, Saved, StoreHolds
  <2>3. CASE Operator
    BY <1>2, <1>3, <2>2, <2>3 DEF Operator, StartRun, Cancel, Answer, store
  <2>4. CASE Resume
    BY <1>2, <2>4 DEF Resume, ReadUnfinished, PickUpApproval, PickUpGone, PickUpStep,
                      PickUpDelay, store
  <2>5. CASE Environment
    BY <1>2, <1>4, <2>5 DEF Environment, AgentAsks, TurnEnds, ProcessExits, TimePasses, store
  <2>6. ASSUME NEW t \in Tasks, AgentFinished(t) \/ TerminalFinished(t)
        PROVE  disk' = disk
    BY <2>6 DEF AgentFinished, TerminalFinished, store
  <2> QED
    BY <1>2, <1>3, <1>5, <2>1, <2>3, <2>4, <2>5, <2>6 DEF Next
<1>6. CASE UNCHANGED vars
  BY <1>2, <1>6 DEF vars
<1> QED
  BY <1>5, <1>6

LEMMA OnwardInvariant ==
    ASSUME StoreHolds, RowsGoInOrder, NothingCancels, RowsComeFirst, OneCallAtATime,
           NothingIsShared \/ NoTerminalSteps
    PROVE  Spec => []Onward
<1>1. Init => Onward
  <2> SUFFICES ASSUME Init PROVE Onward
    OBVIOUS
  <2>1. \A t \in Tasks : task[t] = Idle
    BY DEF Init
  <2>2. Idle.pc = "idle"
    BY DEF Idle, Working
  <2> QED
    BY <2>1, <2>2 DEF Onward, Records
<1>2. Typed /\ Solo /\ Kept /\ Onward /\ [Next]_vars => Onward'
  <2> SUFFICES ASSUME Typed, Solo, Kept, Onward, [Next]_vars
               PROVE  Onward'
    OBVIOUS
  <2>1. CASE UNCHANGED vars
    <3>1. runs' = runs /\ task' = task /\ disk' = disk
      BY <2>1 DEF vars
    <3> QED
      BY <3>1 DEF Onward, Records
  <2>2. CASE Next
    BY <2>2, CarryOnward, OthersOnward DEF Next
  <2> QED
    BY <2>1, <2>2
<1> QED
  BY <1>1, <1>2, TypedInvariant, SoloInvariant, KeptInvariant, PTL DEF Spec

\* What a restart reads only moves forward: no row is written with fewer steps
\* than it had, and one that says how its run ended is never written over
\* (engine.rs: remember, resume).
THEOREM RestartsReadForward ==
    ASSUME StoreHolds, RowsGoInOrder, NothingCancels, RowsComeFirst, OneCallAtATime,
           NothingIsShared \/ NoTerminalSteps
    PROVE  Spec => RowsMoveForward
<1>1. Typed /\ Kept /\ OutcomesTold /\ Onward /\ [Next]_vars =>
          \A r \in Runs : /\ disk'[r].steps >= disk[r].steps
                          /\ disk[r].is = "finished" => disk'[r] = disk[r]
  BY RowsOnward
<1> QED
  BY <1>1, TypedInvariant, KeptInvariant, ToldInvariant, OnwardInvariant,
     PTL DEF Spec, RowsMoveForward
-----------------------------------------------------------------------------
(* A run that waits waits for something that has still to happen.          *)

\* Nobody waits for an approval, or for a session that was lost, here.
LEMMA WaitedOnLemma ==
    /\ "approval" \notin WaitedOn /\ "lost session" \notin WaitedOn
    /\ "delay" \in WaitedOn
    /\ \A w \in Sessions : w \in WaitedOn /\ w \notin Terminals /\ w # "delay"
    /\ \A w \in Terminals : w \in WaitedOn /\ w \notin Sessions /\ w # "delay"
    /\ WaitedOn \subseteq Waitings
BY WaitingAssumption, ConstantsAssumption DEF WaitedOn, Waitings

\* An operator of one run's place among those that expect a worker.
LEMMA TurnExpects ==
    ASSUME NEW t \in Tasks, UNCHANGED runs, NEW w, NEW r \in Runs,
           \A u \in Tasks \ {t} : \/ task'[u] = task[u]
                                  \/ task[u].pc = "idle" /\ task'[u].pc = "sleep",
           (Carrying(task'[t], r) <=> Carrying(task[t], r)) \/ ~Waits(runs[r], w),
           Carrying(task'[t], r) /\ ParksFor(task'[t], w)
               <=> Carrying(task[t], r) /\ ParksFor(task[t], w)
    PROVE  /\ r \in Parkers(w)' <=> r \in Parkers(w)
           /\ r \in Expecting(w)' <=> r \in Expecting(w)
<1>1. \A u \in Tasks \ {t} : /\ Carrying(task'[u], r) <=> Carrying(task[u], r)
                             /\ Carrying(task[u], r) => task'[u] = task[u]
  BY CarryingLemma
<1>2. \A u \in Tasks : Carrying(task'[u], r) /\ ParksFor(task'[u], w)
                         <=> Carrying(task[u], r) /\ ParksFor(task[u], w)
  <2> SUFFICES ASSUME NEW u \in Tasks
               PROVE  Carrying(task'[u], r) /\ ParksFor(task'[u], w)
                         <=> Carrying(task[u], r) /\ ParksFor(task[u], w)
    OBVIOUS
  <2>1. CASE u = t
    BY <2>1
  <2>2. CASE u # t
    BY <1>1, <2>2
  <2> QED
    BY <2>1, <2>2
<1>3. r \in Parkers(w)' <=> r \in Parkers(w)
  BY <1>2 DEF Parkers, Carries
<1>4. runs' = runs
  OBVIOUS
<1>5. CASE ~Waits(runs[r], w)
  BY <1>3, <1>4, <1>5 DEF Expecting, Waits
<1>6. CASE Carrying(task'[t], r) <=> Carrying(task[t], r)
  <2>1. \A u \in Tasks : Carrying(task'[u], r) <=> Carrying(task[u], r)
    BY <1>1, <1>6
  <2> QED
    BY <1>3, <1>4, <2>1 DEF Expecting, Waits, Carries
<1> QED
  BY <1>3, <1>5, <1>6

\* A step after which the same runs expect the same workers, of which no more are
\* to be parked.
Quietly ==
    /\ UNCHANGED <<turns, agentNews, known>>
    /\ \A w \in WaitedOn : Expecting(w)' = Expecting(w) /\ Parkers(w)' \subseteq Parkers(w)
    /\ \A w \in WaitedOn : \A r \in Expecting(w) : runs'[r].at = runs[r].at
    /\ \A u \in Tasks : task[u].pc = "sleep" => task'[u] = task[u]

LEMMA FewerParkers ==
    ASSUME NEW s \in Sessions, IsFiniteSet(Expecting(s)), Parkers(s)' \subseteq Parkers(s)
    PROVE  /\ Cardinality(Parkers(s)) \in Nat /\ Cardinality(Parkers(s)') \in Nat
           /\ Cardinality(Parkers(s)') <= Cardinality(Parkers(s))
<1>1. Parkers(s) \subseteq Expecting(s)
  BY DEF Expecting, Parkers
<1>2. IsFiniteSet(Parkers(s))
  BY <1>1, FS_Subset
<1>3. IsFiniteSet(Parkers(s)') /\ Cardinality(Parkers(s)') <= Cardinality(Parkers(s))
  BY <1>2, FS_Subset
<1> QED
  BY <1>2, <1>3, FS_CardinalityType

\* The news of a session are as many as they were, less the one that is heard.
LEMMA SomeFinite ==
    ASSUME NEW S, NEW news \in Seq(S), NEW those \in SUBSET DOMAIN news
    PROVE  IsFiniteSet(those) /\ Cardinality(those) \in Nat
<1>1. DOMAIN news = 1 .. Len(news) /\ Len(news) \in Nat
  OBVIOUS
<1>2. IsFiniteSet(DOMAIN news)
  BY <1>1, FS_Interval
<1>3. IsFiniteSet(those)
  BY <1>2, FS_Subset
<1> QED
  BY <1>3, FS_CardinalityType

LEMMA NewsHeard ==
    ASSUME Typed, Typed', agentNews # <<>>, agentNews' = Tail(agentNews), NEW s
    PROVE  IF Head(agentNews).session = s
           THEN Cardinality(NewsOf(s)') >= Cardinality(NewsOf(s)) - 1
           ELSE Cardinality(NewsOf(s)') >= Cardinality(NewsOf(s))
<1> DEFINE News1 == [session: Sessions, state: {"completed", "failed", "waiting_approval"}]
           old == NewsOf(s) \ {1}
           f == [i \in old |-> i - 1]
<1>1. agentNews \in Seq(News1) /\ agentNews' \in Seq(News1)
  BY DEF Typed, TypeOK
<1>2. /\ DOMAIN agentNews = 1 .. Len(agentNews) /\ Len(agentNews) \in Nat
      /\ DOMAIN agentNews' = 1 .. (Len(agentNews) - 1)
      /\ \A i \in 1 .. (Len(agentNews) - 1) : agentNews'[i] = agentNews[i + 1]
  <2>1. /\ Len(agentNews') = Len(agentNews) - 1
        /\ \A i \in 1 .. Len(agentNews') : agentNews'[i] = agentNews[i + 1]
    BY <1>1, HeadTailProperties
  <2>2. DOMAIN agentNews' = 1 .. Len(agentNews') /\ DOMAIN agentNews = 1 .. Len(agentNews)
        /\ Len(agentNews) \in Nat
    BY <1>1
  <2> QED
    BY <2>1, <2>2
<1>3. \A i \in old : i \in 2 .. Len(agentNews) /\ i - 1 \in NewsOf(s)'
  <2> SUFFICES ASSUME NEW i \in old
               PROVE  i \in 2 .. Len(agentNews) /\ i - 1 \in NewsOf(s)'
    OBVIOUS
  <2>1. i \in 1 .. Len(agentNews) /\ i # 1 /\ agentNews[i].session = s
    BY <1>2 DEF NewsOf
  <2>2. i \in 2 .. Len(agentNews) /\ i - 1 \in 1 .. (Len(agentNews) - 1) /\ (i - 1) + 1 = i
    BY <1>2, <2>1
  <2>3. agentNews'[i - 1] = agentNews[i]
    BY <1>2, <2>2
  <2> QED
    BY <1>2, <2>1, <2>2, <2>3 DEF NewsOf
<1>4. f \in Injection(old, NewsOf(s)')
  <2>1. f \in [old -> NewsOf(s)']
    BY <1>3
  <2>2. \A i, j \in old : f[i] = f[j] => i = j
    BY <1>3
  <2> QED
    BY <2>1, <2>2 DEF Injection, IsInjective
<1>5. IsFiniteSet(NewsOf(s)) /\ Cardinality(NewsOf(s)) \in Nat
      /\ IsFiniteSet(NewsOf(s)') /\ Cardinality(NewsOf(s)') \in Nat
  <2>1. NewsOf(s) \subseteq DOMAIN agentNews /\ NewsOf(s)' \subseteq DOMAIN agentNews'
    BY DEF NewsOf
  <2> QED
    BY <1>1, <2>1, SomeFinite
<1> HIDE DEF f, old
<1>6. Cardinality(old) <= Cardinality(NewsOf(s)')
  BY <1>4, <1>5, FS_Injection
<1>7. Cardinality(old) = IF 1 \in NewsOf(s) THEN Cardinality(NewsOf(s)) - 1
                                            ELSE Cardinality(NewsOf(s))
  BY <1>5, FS_RemoveElement DEF old
<1>8. Head(agentNews) = agentNews[1]
  BY <1>1
<1>9. 1 \in NewsOf(s) => Head(agentNews).session = s
  BY <1>8 DEF NewsOf
<1> QED
  BY <1>5, <1>6, <1>7, <1>9

LEMMA OnItsStepStays ==
    ASSUME OnItsStep, known' = known,
           \A w \in WaitedOn : \A r \in Expecting(w)' :
               r \in Expecting(w) /\ runs'[r].at = runs[r].at
    PROVE  OnItsStep'
<1> SUFFICES ASSUME NEW w \in WaitedOn, NEW r \in Expecting(w)'
             PROVE  runs'[r].at \in known' /\ Graph[runs'[r].at].kind \in KindsOf(w)
  BY DEF OnItsStep, WaitedOn, KindsOf
<1> QED
  BY DEF OnItsStep

LEMMA AsleepStays ==
    ASSUME Asleep, Expecting("delay")' \subseteq Expecting("delay"),
           \A u \in Tasks : task[u].pc = "sleep" /\ task[u].run \in Expecting("delay")' =>
               task'[u] = task[u]
    PROVE  Asleep'
<1> SUFFICES ASSUME NEW r \in Expecting("delay")'
             PROVE  \E u \in Tasks : task'[u].pc = "sleep" /\ task'[u].run = r
  BY DEF Asleep
<1>1. PICK u \in Tasks : task[u].pc = "sleep" /\ task[u].run = r
  BY DEF Asleep
<1> QED
  BY <1>1

\* Of a session whose turns and news are what they were no more is expected.
LEMMA OwedStays ==
    ASSUME Typed, NEW s \in Sessions, turns'[s] = turns[s],
           Cardinality(NewsOf(s)') >= Cardinality(NewsOf(s)),
           Cardinality(NewsOf(s)') \in Nat, Cardinality(NewsOf(s)) \in Nat,
           IsFiniteSet(Expecting(s)),
           Cardinality(Expecting(s)) <= turns[s] + Cardinality(NewsOf(s)),
           Cardinality(Parkers(s)) <= turns[s],
           Expecting(s)' \subseteq Expecting(s), Parkers(s)' \subseteq Parkers(s)
    PROVE  /\ IsFiniteSet(Expecting(s)')
           /\ Cardinality(Expecting(s)') <= turns'[s] + Cardinality(NewsOf(s)')
           /\ Cardinality(Parkers(s)') <= turns'[s]
<1>1. turns[s] \in Nat
  BY DEF Typed, TypeOK
<1>2. /\ Cardinality(Parkers(s)) \in Nat /\ Cardinality(Parkers(s)') \in Nat
      /\ Cardinality(Parkers(s)') <= Cardinality(Parkers(s))
  BY FewerParkers
<1>3. IsFiniteSet(Expecting(s)') /\ Cardinality(Expecting(s)') <= Cardinality(Expecting(s))
  BY FS_Subset
<1>4. Cardinality(Expecting(s)) \in Nat /\ Cardinality(Expecting(s)') \in Nat
  BY <1>3, FS_CardinalityType
<1> QED
  BY <1>1, <1>2, <1>3, <1>4

LEMMA NewsAreCounted ==
    ASSUME Typed, Typed', NEW s
    PROVE  /\ IsFiniteSet(NewsOf(s)) /\ Cardinality(NewsOf(s)) \in Nat
           /\ IsFiniteSet(NewsOf(s)') /\ Cardinality(NewsOf(s)') \in Nat
<1> DEFINE News1 == [session: Sessions, state: {"completed", "failed", "waiting_approval"}]
<1>1. agentNews \in Seq(News1) /\ agentNews' \in Seq(News1)
  BY DEF Typed, TypeOK
<1>2. NewsOf(s) \subseteq DOMAIN agentNews /\ NewsOf(s)' \subseteq DOMAIN agentNews'
  BY DEF NewsOf
<1> HIDE DEF News1
<1> QED
  BY <1>1, <1>2, SomeFinite

LEMMA OwedAllStays ==
    ASSUME Typed, Typed', Owed, UNCHANGED <<turns, agentNews>>,
           \A s \in Sessions : /\ Expecting(s)' \subseteq Expecting(s)
                               /\ Parkers(s)' \subseteq Parkers(s)
    PROVE  Owed'
<1> SUFFICES ASSUME NEW s \in Sessions
             PROVE  /\ IsFiniteSet(Expecting(s)')
                    /\ Cardinality(Expecting(s)') <= turns'[s] + Cardinality(NewsOf(s)')
                    /\ Cardinality(Parkers(s)') <= turns'[s]
  BY DEF Owed
<1>1. turns' = turns /\ NewsOf(s)' = NewsOf(s)
  BY DEF NewsOf
<1>2. Cardinality(NewsOf(s)) \in Nat
  BY NewsAreCounted
<1>3. Cardinality(NewsOf(s)') = Cardinality(NewsOf(s))
  BY <1>1
<1>4. /\ IsFiniteSet(Expecting(s))
      /\ Cardinality(Expecting(s)) <= turns[s] + Cardinality(NewsOf(s))
      /\ Cardinality(Parkers(s)) <= turns[s]
  BY DEF Owed
<1> QED
  BY <1>1, <1>2, <1>3, <1>4, OwedStays

LEMMA QuietKeeps ==
    ASSUME Typed, Typed', OnItsStep, Asleep, Owed, Quietly
    PROVE  OnItsStep' /\ Asleep' /\ Owed'
<1>1. OnItsStep'
  BY OnItsStepStays DEF Quietly
<1>2. Asleep'
  BY AsleepStays, WaitedOnLemma DEF Quietly
<1>3. Owed'
  BY OwedAllStays, WaitedOnLemma DEF Quietly
<1> QED
  BY <1>1, <1>2, <1>3

LEMMA InHandStays ==
    ASSUME InHand, UNCHANGED <<proc, termNews>>,
           \A p \in Terminals : Expecting(p)' = Expecting(p) /\ Parkers(p)' \subseteq Parkers(p)
    PROVE  InHand'
<1>1. proc' = proc /\ termNews' = termNews
  OBVIOUS
<1>2. ASSUME NEW p \in Terminals
      PROVE  /\ proc'[p] # "none" <=> Expecting(p)' # {}
             /\ Parkers(p)' # {} => proc'[p] = "live"
  BY <1>1 DEF InHand
<1> QED
  BY <1>1, <1>2 DEF InHand

\* A task that goes on with its run, and parks it for what it was to be parked for,
\* changes nothing of what is expected.
LEMMA TurnQuietly ==
    ASSUME Typed, NEW t \in Tasks, NEW next, Becomes(t, next),
           UNCHANGED <<runs, turns, agentNews, known>>, task[t].pc # "sleep",
           \A r \in Runs, w \in WaitedOn :
               /\ (Carrying(next, r) <=> Carrying(task[t], r)) \/ ~Waits(runs[r], w)
               /\ Carrying(next, r) /\ ParksFor(next, w)
                     <=> Carrying(task[t], r) /\ ParksFor(task[t], w)
    PROVE  Quietly
<1>1. task'[t] = next /\ \A u \in Tasks \ {t} : task'[u] = task[u]
  BY DEF Becomes, Typed, TypeOK
<1>2. runs' = runs /\ UNCHANGED <<turns, agentNews, known>>
  OBVIOUS
<1>3. ASSUME NEW w \in WaitedOn, NEW r \in Runs
      PROVE  /\ r \in Parkers(w)' <=> r \in Parkers(w)
             /\ r \in Expecting(w)' <=> r \in Expecting(w)
  BY <1>1, <1>2, <1>3, TurnExpects
<1>4. ASSUME NEW w \in WaitedOn
      PROVE  Expecting(w)' = Expecting(w) /\ Parkers(w)' = Parkers(w)
  <2>1. /\ Expecting(w)' \subseteq Runs /\ Expecting(w) \subseteq Runs
        /\ Parkers(w)' \subseteq Runs /\ Parkers(w) \subseteq Runs
    BY DEF Expecting, Parkers
  <2> QED
    BY <1>3, <2>1
<1>5. \A u \in Tasks : task[u].pc = "sleep" => task'[u] = task[u]
  BY <1>1
<1> QED
  BY <1>2, <1>4, <1>5 DEF Quietly

LEMMA RecordGoes ==
    ASSUME NEW t \in Tasks, Record(t)
    PROVE  /\ task[t].pc = "record"
           /\ \/ Becomes(t, Idle) /\ task[t].held.is # "running"
              \/ Becomes(t, Driving(task[t].run)) /\ task[t].held.is = "running"
              \/ /\ Becomes(t, Working("begin", task[t].run, Absent, task[t].by))
                 /\ task[t].held.is = "running"
<1> DEFINE x == task[t]
<1>1. x.pc = "record"
  BY DEF Record
<1>2. CASE x.held.is # "running"
  <2>1. x.held # Beginning
    BY <1>2 DEF Beginning
  <2>2. Becomes(t, Idle)
    BY <1>2, <2>1, Zenon DEF Record
  <2> QED
    BY <1>1, <1>2, <2>2
<1>3. CASE x.held = Beginning
  <2>1. x.held.is = "running"
    BY <1>3 DEF Beginning
  <2>2. Becomes(t, Working("begin", x.run, Absent, x.by))
    BY <1>3, <2>1, Zenon DEF Record
  <2> QED
    BY <1>1, <2>1, <2>2
<1>4. CASE x.held.is = "running" /\ x.held # Beginning
  <2>1. Becomes(t, Driving(x.run))
    BY <1>4, Zenon DEF Record
  <2> QED
    BY <1>1, <1>4, <2>1
<1> QED
  BY <1>2, <1>3, <1>4

\* What the records a task becomes carry and park.
LEMMA ShapesLemma ==
    /\ \A r : ~Carrying(Idle, r)
    /\ \A q, r : Carrying(Driving(q), r) <=> q = r
    /\ \A q, r : ~Carrying(Sleeping(q), r)
    /\ \A w : ~ParksFor(Idle, w) /\ \A r : ~ParksFor(Driving(r), w) /\ ~ParksFor(Sleeping(r), w)
    /\ \A pc, q, held, by, r :
          pc \in {"execute", "open", "begin"} \/ (pc = "record" /\ held.is = "running") =>
             (Carrying(Working(pc, q, held, by), r) <=> q = r)
    /\ \A q, held, by, r : held.is # "running" => ~Carrying(Working("record", q, held, by), r)
    /\ \A pc, q, held, by, w :
          pc \in {"execute", "open", "begin", "record"} => ~ParksFor(Working(pc, q, held, by), w)
    /\ \A q, by, to, ok, r : Carrying(Stepping(q, by, to, ok), r) <=> q = r
    /\ \A q, by, to, ok, w : ~ParksFor(Stepping(q, by, to, ok), w)
    /\ \A x, on, r : Carrying(Parking(x, on), r) <=> x.run = r
    /\ \A x, on, w : ParksFor(Parking(x, on), w) <=> on = w
    /\ \A x, on, r : Carrying(Finishing(x, on), r) <=> x.run = r
    /\ \A x, on, w : ~ParksFor(Finishing(x, on), w)
    /\ \A x, run, r : Carrying(Holding(x, run), r) <=> x.run = r
    /\ \A x, run, w : ParksFor(Holding(x, run), w) <=> run.is = "waiting" /\ run.on = w
<1>1. /\ \A pc, q, held, by : /\ Working(pc, q, held, by).pc = pc
                              /\ Working(pc, q, held, by).run = q
                              /\ Working(pc, q, held, by).held = held
      /\ \A x, on : Parking(x, on).pc = "park" /\ Parking(x, on).run = x.run
                    /\ Parking(x, on).on = on
      /\ \A x, on : Finishing(x, on).pc = "finish" /\ Finishing(x, on).run = x.run
      /\ \A q, by, to, ok : Stepping(q, by, to, ok).pc = "step" /\ Stepping(q, by, to, ok).run = q
  BY DEF Working, Parking, Finishing, Stepping
<1>2. /\ Idle.pc = "idle"
      /\ \A r : Driving(r).pc = "loop" /\ Driving(r).run = r
      /\ \A r : Sleeping(r).pc = "sleep" /\ Sleeping(r).run = r
      /\ \A x, run : /\ Holding(x, run).pc = "insert" /\ Holding(x, run).run = x.run
                     /\ Holding(x, run).held = run
  BY <1>1 DEF Idle, Driving, Sleeping, Holding
<1>3. /\ \A r : ~Carrying(Idle, r)
      /\ \A q, r : Carrying(Driving(q), r) <=> q = r
      /\ \A q, r : ~Carrying(Sleeping(q), r)
      /\ \A x, run, r : Carrying(Holding(x, run), r) <=> x.run = r
  BY <1>2 DEF Carrying
<1>4. /\ \A w : ~ParksFor(Idle, w) /\ \A r : ~ParksFor(Driving(r), w) /\ ~ParksFor(Sleeping(r), w)
      /\ \A x, run, w : ParksFor(Holding(x, run), w) <=> run.is = "waiting" /\ run.on = w
  BY <1>2 DEF ParksFor
<1>5. /\ \A pc, q, held, by, r :
            pc \in {"execute", "open", "begin"} \/ (pc = "record" /\ held.is = "running") =>
               (Carrying(Working(pc, q, held, by), r) <=> q = r)
      /\ \A q, held, by, r : held.is # "running" => ~Carrying(Working("record", q, held, by), r)
      /\ \A q, by, to, ok, r : Carrying(Stepping(q, by, to, ok), r) <=> q = r
      /\ \A x, on, r : Carrying(Parking(x, on), r) <=> x.run = r
      /\ \A x, on, r : Carrying(Finishing(x, on), r) <=> x.run = r
  BY <1>1 DEF Carrying
<1>6. /\ \A pc, q, held, by, w :
            pc \in {"execute", "open", "begin", "record"} => ~ParksFor(Working(pc, q, held, by), w)
      /\ \A q, by, to, ok, w : ~ParksFor(Stepping(q, by, to, ok), w)
      /\ \A x, on, w : ParksFor(Parking(x, on), w) <=> on = w
      /\ \A x, on, w : ~ParksFor(Finishing(x, on), w)
  BY <1>1 DEF ParksFor
<1> QED
  BY <1>3, <1>4, <1>5, <1>6

\* What a task turns into that goes on with its run and expects no more of it.
Follows(t, next) ==
    /\ \A r \in Runs : Carrying(next, r) <=> Carrying(task[t], r)
    /\ \A w \in WaitedOn : ParksFor(next, w) <=> ParksFor(task[t], w)
    /\ next.pc # "sleep" /\ next.by \in {task[t].by, "none"}
    /\ DelayStep(next.held)
    /\ next.pc = "insert" /\ next.held.is = "waiting" => next.held.at = runs[next.run].at
    /\ next.pc = "open" => next.held.at \in known

LEMMA DelayShapes ==
    /\ DelayStep(Absent) /\ DelayStep(Beginning)
    /\ Idle.held = Absent /\ Idle.by = "none" /\ Idle.pc = "idle"
    /\ \A r : /\ Driving(r).held = Absent /\ Driving(r).by = "none" /\ Driving(r).pc = "loop"
              /\ Sleeping(r).held = Absent /\ Sleeping(r).by = "none"
              /\ Sleeping(r).pc = "sleep" /\ Sleeping(r).run = r
    /\ \A r, by, to, ok : /\ Stepping(r, by, to, ok).held = Absent
                          /\ Stepping(r, by, to, ok).by = by
                          /\ Stepping(r, by, to, ok).pc = "step"
    /\ \A x, on : /\ Parking(x, on).held = Absent /\ Parking(x, on).by = x.by
                  /\ Parking(x, on).pc = "park"
                  /\ Finishing(x, on).held = Absent /\ Finishing(x, on).by = x.by
                  /\ Finishing(x, on).pc = "finish"
    /\ \A pc, r, run, by : /\ Working(pc, r, run, by).held = run
                           /\ Working(pc, r, run, by).by = by
                           /\ Working(pc, r, run, by).pc = pc
    /\ \A x, run : /\ Holding(x, run).held = run /\ Holding(x, run).by = x.by
                   /\ Holding(x, run).pc = "insert" /\ Holding(x, run).run = x.run
    /\ \A run, to, ok : Moved(run, to, ok).is = "running" /\ DelayStep(Moved(run, to, ok))
    /\ \A run, on : /\ Ended(run, on).is = "finished" /\ DelayStep(Ended(run, on))
                    /\ Parked(run, on).is = "waiting" /\ Parked(run, on).on = on
                    /\ Parked(run, on).at = run.at
<1>1. Absent.is = "absent" /\ Beginning.is = "running"
  BY DEF Absent, Beginning
<1>2. /\ \A run, to, ok : Moved(run, to, ok).is = "running"
      /\ \A run, on : /\ Ended(run, on).is = "finished"
                      /\ Parked(run, on).is = "waiting" /\ Parked(run, on).on = on
                      /\ Parked(run, on).at = run.at
  BY DEF Moved, Ended, Parked
<1>3. /\ DelayStep(Absent) /\ DelayStep(Beginning)
      /\ \A run, to, ok : DelayStep(Moved(run, to, ok))
      /\ \A run, on : DelayStep(Ended(run, on))
  BY <1>1, <1>2 DEF DelayStep, Waits
<1>4. \A pc, r, run, by : /\ Working(pc, r, run, by).held = run
                          /\ Working(pc, r, run, by).by = by
                          /\ Working(pc, r, run, by).pc = pc
                          /\ Working(pc, r, run, by).run = r
  BY DEF Working
<1>5. /\ Idle.held = Absent /\ Idle.by = "none" /\ Idle.pc = "idle"
      /\ \A r : /\ Driving(r).held = Absent /\ Driving(r).by = "none" /\ Driving(r).pc = "loop"
                /\ Sleeping(r).held = Absent /\ Sleeping(r).by = "none"
                /\ Sleeping(r).pc = "sleep" /\ Sleeping(r).run = r
      /\ \A x, run : /\ Holding(x, run).held = run /\ Holding(x, run).by = x.by
                     /\ Holding(x, run).pc = "insert" /\ Holding(x, run).run = x.run
  BY <1>4 DEF Idle, Driving, Sleeping, Holding
<1>6. /\ \A r, by, to, ok : /\ Stepping(r, by, to, ok).held = Absent
                            /\ Stepping(r, by, to, ok).by = by
                            /\ Stepping(r, by, to, ok).pc = "step"
      /\ \A x, on : /\ Parking(x, on).held = Absent /\ Parking(x, on).by = x.by
                    /\ Parking(x, on).pc = "park"
                    /\ Finishing(x, on).held = Absent /\ Finishing(x, on).by = x.by
                    /\ Finishing(x, on).pc = "finish"
  BY DEF Stepping, Parking, Finishing
<1> QED
  BY <1>2, <1>3, <1>4, <1>5, <1>6

\* A task in one of these places carries its run, and parks it for nothing yet.
LEMMA AtIt ==
    ASSUME NEW x, x.pc \in {"loop", "execute", "open", "step", "finish", "begin"}
                  \/ (x.pc = "record" /\ x.held.is = "running")
    PROVE  /\ \A r : Carrying(x, r) <=> x.run = r
           /\ \A w : ~ParksFor(x, w)
BY DEF Carrying, ParksFor

LEMMA SteppingFollows ==
    ASSUME NEW t \in Tasks, task[t].pc \in {"execute", "open"}, NEW to, NEW ok
    PROVE  Follows(t, Stepping(task[t].run, task[t].by, to, ok))
BY AtIt, ShapesLemma, DelayShapes DEF Follows

LEMMA FinishingFollows ==
    ASSUME NEW t \in Tasks, task[t].pc \in {"execute", "open"}, NEW outcome
    PROVE  Follows(t, Finishing(task[t], outcome))
BY AtIt, ShapesLemma, DelayShapes DEF Follows

QuietWork(t) ==
    \/ Advance(t) \/ RunsOut(t) \/ StepMissing(t) \/ ExecuteEmit(t) \/ ExecuteEnd(t)
    \/ ExecuteCondition(t) \/ ExecuteApproval(t) \/ ExecuteAction(t) \/ ExecuteClose(t)
    \/ StepTo(t) \/ Park(t) \/ Finish(t) \/ Record(t) \/ Begin(t)

LEMMA WorkFollows ==
    ASSUME Typed, Solo, OnItsStep, DelaySteps, NEW t \in Tasks, QuietWork(t)
    PROVE  \E next : Becomes(t, next) /\ Follows(t, next)
<1> DEFINE x == task[t]
           r == x.run
<1>1. x.pc # "idle" => r \in Runs
  BY DEF Typed, TaskOK, Sound
<1>2. Carrying(x, r) /\ r \in Runs => Live(runs[r])
  BY DEF Solo, CarriedIsLive, Carries
<1>3. CASE Advance(t)
  <2>1. x.pc = "loop"
    BY <1>3 DEF Advance
  <2>2. Live(runs[r])
    BY <1>1, <1>2, <2>1 DEF Carrying
  <2>3. Becomes(t, Working("execute", r, runs[r], x.by))
    BY <1>3, <2>2 DEF Advance
  <2>4. Follows(t, Working("execute", r, runs[r], x.by))
    <3>1. DelayStep(runs[r])
      BY <1>1, <2>1 DEF DelaySteps
    <3> QED
      BY <2>1, <3>1, AtIt, ShapesLemma, DelayShapes DEF Follows
  <2> QED
    BY <2>3, <2>4
<1>4. CASE RunsOut(t) \/ StepMissing(t) \/ ExecuteEnd(t)
  <2>1. x.pc = "execute"
    BY <1>4 DEF RunsOut, StepMissing, ExecuteEnd, Executes
  <2>2. \E outcome : Becomes(t, Finishing(x, outcome))
    BY <1>4 DEF RunsOut, StepMissing, ExecuteEnd
  <2> QED
    BY <2>1, <2>2, FinishingFollows
<1>5. CASE ExecuteEmit(t) \/ ExecuteCondition(t)
  <2>1. x.pc = "execute"
    BY <1>5 DEF ExecuteEmit, ExecuteCondition, Executes
  <2>2. \E to, ok : Becomes(t, Stepping(r, x.by, to, ok))
    BY <1>5 DEF ExecuteEmit, ExecuteCondition
  <2> QED
    BY <2>1, <2>2, SteppingFollows
<1>6. CASE ExecuteAction(t)
  <2>1. x.pc = "execute"
    BY <1>6 DEF ExecuteAction, Executes
  <2>2. \/ \E to, ok : Becomes(t, Stepping(r, x.by, to, ok))
        \/ \E outcome : Becomes(t, Finishing(x, outcome))
    BY <1>6 DEF ExecuteAction
  <2> QED
    BY <2>1, <2>2, SteppingFollows, FinishingFollows
<1>7. CASE ExecuteApproval(t)
  <2>1. x.pc = "execute" /\ Becomes(t, Parking(x, "approval"))
    BY <1>7 DEF ExecuteApproval, Executes
  <2>2. \A w \in WaitedOn : ~ParksFor(Parking(x, "approval"), w) /\ ~ParksFor(x, w)
    BY <2>1, AtIt, ShapesLemma, WaitedOnLemma
  <2>3. Follows(t, Parking(x, "approval"))
    BY <2>1, <2>2, AtIt, ShapesLemma, DelayShapes DEF Follows
  <2> QED
    BY <2>1, <2>3
<1>8. CASE ExecuteClose(t)
  <2>1. x.pc = "execute" /\ Becomes(t, Working("open", r, x.held, x.by))
    BY <1>8 DEF ExecuteClose, Executes
  <2>2. DelayStep(x.held) /\ x.held.at \in known
    BY <1>8 DEF DelaySteps, ExecuteClose, Executes
  <2>3. Follows(t, Working("open", r, x.held, x.by))
    BY <2>1, <2>2, AtIt, ShapesLemma, DelayShapes DEF Follows
  <2> QED
    BY <2>1, <2>3
<1>9. CASE StepTo(t)
  <2>1. x.pc = "step"
    BY <1>9 DEF StepTo
  <2>2. Live(runs[r])
    BY <1>1, <1>2, <2>1 DEF Carrying
  <2>3. Becomes(t, Holding(x, Moved(runs[r], x.to, x.ok)))
    BY <1>9, <2>2 DEF StepTo
  <2>4. Follows(t, Holding(x, Moved(runs[r], x.to, x.ok)))
    BY <2>1, AtIt, ShapesLemma, DelayShapes DEF Follows
  <2> QED
    BY <2>3, <2>4
<1>10. CASE Park(t)
  <2> DEFINE held == Parked(runs[r], x.on)
  <2>1. x.pc = "park" /\ Carrying(x, r) /\ r \in Runs
    BY <1>1, <1>10 DEF Park, Carrying
  <2>2. Live(runs[r])
    BY <1>2, <2>1
  <2>3. Becomes(t, Holding(x, held))
    BY <1>10, <2>2 DEF Park
  <2>4. DelayStep(held)
    <3>1. CASE x.on = "delay"
      <4>1. ParksFor(x, "delay")
        BY <2>1, <3>1 DEF ParksFor
      <4>2. r \in Expecting("delay")
        BY <2>1, <4>1 DEF Expecting, Parkers, Carries
      <4>3. Graph[runs[r].at].kind = "delay"
        BY <4>2, WaitedOnLemma DEF OnItsStep, KindsOf
      <4> QED
        BY <4>3, DelayShapes DEF DelayStep
    <3>2. CASE x.on # "delay"
      BY <3>2, DelayShapes DEF DelayStep, Waits
    <3> QED
      BY <3>1, <3>2
  <2>5. \A w : ParksFor(x, w) <=> x.on = w
    BY <2>1 DEF ParksFor
  <2>6. \A q : Carrying(x, q) <=> r = q
    BY <2>1 DEF Carrying
  <2>7. held.is = "waiting" /\ held.on = x.on /\ held.at = runs[r].at
    BY DelayShapes
  <2> HIDE DEF held
  <2>8. Follows(t, Holding(x, held))
    BY <2>4, <2>5, <2>6, <2>7, ShapesLemma, DelayShapes DEF Follows
  <2> QED
    BY <2>3, <2>8
<1>11. CASE Finish(t)
  <2>1. x.pc = "finish"
    BY <1>11 DEF Finish
  <2>2. Live(runs[r])
    BY <1>1, <1>2, <2>1 DEF Carrying
  <2>3. Becomes(t, Holding(x, Ended(runs[r], x.on)))
    BY <1>11, <2>2 DEF Finish, Live
  <2>4. Follows(t, Holding(x, Ended(runs[r], x.on)))
    <3> DEFINE held == Ended(runs[r], x.on)
    <3>1. held.is = "finished" /\ DelayStep(held)
      BY DelayShapes
    <3>2. (\A q : Carrying(x, q) <=> x.run = q) /\ \A w : ~ParksFor(x, w)
      BY <2>1, AtIt
    <3> HIDE DEF held
    <3>3. Follows(t, Holding(x, held))
      BY <3>1, <3>2, ShapesLemma, DelayShapes DEF Follows
    <3> QED
      BY <3>3 DEF held
  <2> QED
    BY <2>3, <2>4
<1>12. CASE Record(t)
  <2>1. x.pc = "record" /\ \A w : ~ParksFor(x, w)
    BY <1>12 DEF Record, ParksFor
  <2>2. CASE Becomes(t, Idle) /\ x.held.is # "running"
    <3>1. \A q : ~Carrying(x, q)
      BY <2>1, <2>2 DEF Carrying
    <3>2. Follows(t, Idle)
      BY <2>1, <3>1, ShapesLemma, DelayShapes DEF Follows
    <3> QED
      BY <2>2, <3>2
  <2>3. CASE Becomes(t, Driving(r)) /\ x.held.is = "running"
    <3>1. Follows(t, Driving(r))
      BY <2>1, <2>3, AtIt, ShapesLemma, DelayShapes DEF Follows
    <3> QED
      BY <2>3, <3>1
  <2>4. CASE Becomes(t, Working("begin", r, Absent, x.by)) /\ x.held.is = "running"
    <3>1. Follows(t, Working("begin", r, Absent, x.by))
      BY <2>1, <2>4, AtIt, ShapesLemma, DelayShapes DEF Follows
    <3> QED
      BY <2>4, <3>1
  <2> QED
    BY <1>12, <2>2, <2>3, <2>4, RecordGoes
<1>13. CASE Begin(t)
  <2>1. x.pc = "begin" /\ Becomes(t, Driving(r))
    BY <1>13 DEF Begin
  <2>2. Follows(t, Driving(r))
    BY <2>1, AtIt, ShapesLemma, DelayShapes DEF Follows
  <2> QED
    BY <2>1, <2>2
<1> QED
  BY <1>3, <1>4, <1>5, <1>6, <1>7, <1>8, <1>9, <1>10, <1>11, <1>12, <1>13 DEF QuietWork

\* Where the rest of the invariant stands when one task has moved.
LEMMA RestKeeps ==
    ASSUME Typed, Solo, HeldInPlace, DelaySteps, DelaysConfigured, NotTheOperators,
           NEW t \in Tasks, NEW next, Becomes(t, next), UNCHANGED <<runs, recovery, known>>,
           \A r \in Runs : DelayStep(disk'[r]),
           DelayStep(next.held), next.pc = "sleep" => next.by = "none",
           next.pc = "insert" /\ next.held.is = "waiting" => next.held.at = runs[next.run].at,
           next.pc = "open" => next.held.at \in known,
           \A r \in Runs : Carrying(next, r) /\ runs[r].is = "waiting" /\ runs[r].on # "approval"
                             => next.by # "operator"
    PROVE  HeldInPlace' /\ DelaySteps' /\ DelaysConfigured' /\ NotTheOperators'
<1>1. task'[t] = next /\ \A u \in Tasks \ {t} : task'[u] = task[u]
  BY DEF Becomes, Typed, TypeOK
<1>2. runs' = runs /\ recovery' = recovery /\ known' = known
  OBVIOUS
<1>3. HeldInPlace'
  BY <1>1, <1>2 DEF HeldInPlace
<1>4. DelaySteps'
  <2>1. \A r \in Runs : DelayStep(runs'[r]) /\ DelayStep(recovery'.rows[r])
    BY <1>2 DEF DelaySteps
  <2>2. \A u \in Tasks : DelayStep(task'[u].held)
    BY <1>1 DEF DelaySteps
  <2> QED
    BY <2>1, <2>2 DEF DelaySteps
<1>5. DelaysConfigured'
  BY <1>2 DEF DelaysConfigured
<1>6. NotTheOperators'
  <2>1. \A u \in Tasks : task'[u].pc = "sleep" => task'[u].by = "none"
    BY <1>1 DEF NotTheOperators
  <2>2. ASSUME NEW u \in Tasks, NEW r \in Runs, Carrying(task'[u], r), runs'[r].is = "waiting",
               runs'[r].on # "approval"
        PROVE  task'[u].by # "operator"
    BY <1>1, <1>2, <2>2 DEF NotTheOperators, Carries
  <2> QED
    BY <2>1, <2>2 DEF NotTheOperators, Carries
<1> QED
  BY <1>3, <1>4, <1>5, <1>6

LEMMA FollowsKeeps ==
    ASSUME Typed, Typed', Solo, Expected, NEW t \in Tasks, NEW next, Becomes(t, next),
           Follows(t, next), task[t].pc # "sleep",
           UNCHANGED <<runs, recovery, known, turns, agentNews>>,
           \A r \in Runs : DelayStep(disk'[r])
    PROVE  Expected' /\ Quietly
<1>1. Quietly
  BY TurnQuietly DEF Follows
<1>2. OnItsStep' /\ Asleep' /\ Owed'
  BY <1>1, QuietKeeps DEF Expected
<1>3. ASSUME NEW r \in Runs, Carrying(next, r), runs[r].is = "waiting",
             runs[r].on # "approval"
      PROVE  next.by # "operator"
  <2>1. Carries(t, r)
    BY <1>3 DEF Follows, Carries
  <2>2. task[t].by # "operator"
    BY <1>3, <2>1 DEF Expected, NotTheOperators
  <2> QED
    BY <2>2 DEF Follows
<1>4. HeldInPlace' /\ DelaySteps' /\ DelaysConfigured' /\ NotTheOperators'
  BY <1>3, RestKeeps DEF Follows, Expected
<1> QED
  BY <1>1, <1>2, <1>4 DEF Expected

LEMMA WorkKeeps ==
    ASSUME Typed, Typed', Solo, Expected, NEW t \in Tasks, QuietWork(t)
    PROVE  /\ Expected' /\ Quietly /\ UNCHANGED termNews
           /\ UNCHANGED proc \/ ExecuteClose(t)
<1> DEFINE x == task[t]
<1>1. PICK next : Becomes(t, next) /\ Follows(t, next)
  BY WorkFollows DEF Expected
<1>2. /\ UNCHANGED <<runs, recovery, known, turns, agentNews>> /\ x.pc # "sleep"
      /\ UNCHANGED termNews /\ (UNCHANGED proc \/ ExecuteClose(t))
  BY DEF QuietWork, Advance, RunsOut, StepMissing, ExecuteEmit, ExecuteEnd, ExecuteCondition,
         ExecuteApproval, ExecuteAction, ExecuteClose, StepTo, Park, Finish, Record, Begin,
         Executes, workers, world
<1>3. ASSUME NEW r \in Runs
      PROVE  DelayStep(disk'[r])
  <2>1. CASE Record(t)
    <3>1. disk' = disk \/ disk' = [disk EXCEPT ![x.run] = x.held]
      BY <2>1 DEF Record, Saved
    <3>2. disk'[r] = disk[r] \/ disk'[r] = x.held
      BY <3>1 DEF Typed, TypeOK
    <3> QED
      BY <3>2 DEF Expected, DelaySteps
  <2>2. CASE ~Record(t)
    <3>1. disk' = disk
      BY <2>2 DEF QuietWork, Advance, RunsOut, StepMissing, ExecuteEmit, ExecuteEnd,
         ExecuteCondition, ExecuteApproval, ExecuteAction, ExecuteClose, StepTo, Park, Finish,
         Begin, Executes, store
    <3> QED
      BY <3>1 DEF Expected, DelaySteps
  <2> QED
    BY <2>1, <2>2
<1> QED
  BY <1>1, <1>2, <1>3, FollowsKeeps

\* A step that has its run parked: one run more expects the worker of the step.
Joins(r, v) ==
    /\ \A w \in WaitedOn \ {v} : Expecting(w)' = Expecting(w) /\ Parkers(w)' = Parkers(w)
    /\ Expecting(v)' = Expecting(v) \cup {r} /\ Parkers(v)' = Parkers(v) \cup {r}

LEMMA TurnJoins ==
    ASSUME NEW t \in Tasks, NEW r \in Runs, NEW v \in WaitedOn, UNCHANGED runs,
           task[t].pc \in {"execute", "open"}, task[t].run = r,
           task'[t] = Parking(task[t], v),
           \A u \in Tasks \ {t} : \/ task'[u] = task[u]
                                  \/ task[u].pc = "idle" /\ task'[u].pc = "sleep"
    PROVE  Joins(r, v)
<1>1. /\ \A q : Carrying(task[t], q) <=> q = r
      /\ \A w : ~ParksFor(task[t], w)
      /\ \A q : Carrying(task'[t], q) <=> q = r
      /\ \A w : ParksFor(task'[t], w) <=> w = v
  BY AtIt, ShapesLemma
<1>2. ASSUME NEW w \in WaitedOn, NEW q \in Runs, w # v \/ q # r
      PROVE  /\ q \in Parkers(w)' <=> q \in Parkers(w)
             /\ q \in Expecting(w)' <=> q \in Expecting(w)
  BY <1>1, <1>2, TurnExpects
<1>3. r \in Parkers(v)'
  BY <1>1 DEF Parkers, Carries
<1>4. r \in Expecting(v)'
  BY <1>3 DEF Expecting
<1>5. \A w : /\ Expecting(w)' \subseteq Runs /\ Expecting(w) \subseteq Runs
             /\ Parkers(w)' \subseteq Runs /\ Parkers(w) \subseteq Runs
  BY DEF Expecting, Parkers
<1>6. \A w \in WaitedOn \ {v} : Expecting(w)' = Expecting(w) /\ Parkers(w)' = Parkers(w)
  BY <1>2, <1>5
<1>7. Expecting(v)' = Expecting(v) \cup {r} /\ Parkers(v)' = Parkers(v) \cup {r}
  BY <1>2, <1>3, <1>4, <1>5
<1> QED
  BY <1>6, <1>7 DEF Joins

LEMMA JoinsItsStep ==
    ASSUME OnItsStep, NEW r \in Runs, NEW v \in WaitedOn, Joins(r, v),
           UNCHANGED <<runs, known>>, runs[r].at \in known, Graph[runs[r].at].kind \in KindsOf(v)
    PROVE  OnItsStep'
<1>1. runs' = runs /\ known' = known
  OBVIOUS
<1> SUFFICES ASSUME NEW w \in WaitedOn, NEW q \in Expecting(w)'
             PROVE  runs[q].at \in known /\ Graph[runs[q].at].kind \in KindsOf(w)
  BY <1>1 DEF OnItsStep, WaitedOn, KindsOf
<1>2. q \in Expecting(w) \/ (w = v /\ q = r)
  BY DEF Joins
<1> QED
  BY <1>2 DEF OnItsStep

\* The sleeper is there before the run is to be parked.
LEMMA DelayKeeps ==
    ASSUME Typed, Typed', Solo, Paced, Expected, NEW t \in Tasks, NEW s \in Tasks,
           ExecuteDelay(t, s)
    PROVE  /\ Expected' /\ UNCHANGED <<proc, termNews>>
           /\ \A p \in Terminals : Expecting(p)' = Expecting(p) /\ Parkers(p)' = Parkers(p)
<1> DEFINE x == task[t]
           r == x.run
<1>1. /\ x.pc = "execute" /\ r \in Runs /\ s # t /\ task[s].pc = "idle"
      /\ x.held.at \in known /\ Graph[x.held.at].kind = "delay"
  BY DEF ExecuteDelay, Executes, Free, Typed, TaskOK, Sound
<1>2. /\ UNCHANGED <<runs, disk, recovery, turns, agentNews, known>>
      /\ UNCHANGED <<proc, termNews>>
  BY DEF ExecuteDelay, store, workers, world
<1>3. /\ task'[t] = Parking(x, "delay") /\ task'[s] = Sleeping(r)
      /\ \A u \in Tasks \ {t, s} : task'[u] = task[u]
  BY <1>1 DEF ExecuteDelay, Typed, TypeOK
<1>4. x.held = runs[r]
  BY <1>1 DEF Paced, OnTrack
<1>5. task'[s].pc = "sleep" /\ task'[s].run = r /\ task'[s].by = "none"
      /\ DelayStep(task'[s].held) /\ ~Carrying(task'[s], r) /\ \A q : ~Carrying(task'[s], q)
  BY <1>3, DelayShapes, ShapesLemma
<1>6. /\ task'[t].pc = "park" /\ task'[t].by = x.by /\ DelayStep(task'[t].held)
      /\ \A q : Carrying(task'[t], q) <=> q = r
  BY <1>3, DelayShapes, ShapesLemma
<1>7. Joins(r, "delay")
  BY <1>1, <1>2, <1>3, <1>5, TurnJoins, WaitedOnLemma
<1>8. OnItsStep'
  <2>1. runs[r].at \in known /\ Graph[runs[r].at].kind \in KindsOf("delay")
    BY <1>1, <1>4 DEF KindsOf
  <2> QED
    BY <1>1, <1>2, <1>7, <2>1, JoinsItsStep, WaitedOnLemma DEF Expected
<1>9. Asleep'
  <2> SUFFICES ASSUME NEW q \in Expecting("delay")'
               PROVE  \E u \in Tasks : task'[u].pc = "sleep" /\ task'[u].run = q
    BY DEF Asleep
  <2>1. CASE q = r
    BY <1>5, <2>1
  <2>2. CASE q # r
    <3>1. q \in Expecting("delay")
      BY <1>7, <2>2 DEF Joins
    <3>2. PICK u \in Tasks : task[u].pc = "sleep" /\ task[u].run = q
      BY <3>1 DEF Expected, Asleep
    <3>3. u # t /\ u # s
      BY <1>1, <3>2
    <3> QED
      BY <1>3, <3>2, <3>3
  <2> QED
    BY <2>1, <2>2
<1>10. \A w \in Sessions \cup Terminals : Expecting(w)' = Expecting(w) /\ Parkers(w)' = Parkers(w)
  BY <1>7, WaitedOnLemma DEF Joins
<1>11. Owed'
  BY <1>2, <1>10, OwedAllStays DEF Expected
<1>12. HeldInPlace'
  <2>1. \A u \in Tasks : task'[u].pc \in {"insert", "open"} => task'[u] = task[u]
    BY <1>3, <1>5, <1>6
  <2> QED
    BY <1>2, <2>1 DEF Expected, HeldInPlace
<1>13. DelaySteps'
  <2>1. \A u \in Tasks : DelayStep(task'[u].held)
    BY <1>3, <1>5, <1>6 DEF Expected, DelaySteps
  <2>2. runs' = runs /\ disk' = disk /\ recovery' = recovery
    BY <1>2
  <2> QED
    BY <2>1, <2>2 DEF Expected, DelaySteps
<1>14. DelaysConfigured'
  BY <1>2 DEF Expected, DelaysConfigured
<1>15. NotTheOperators'
  <2>1. \A u \in Tasks : task'[u].pc = "sleep" => task'[u].by = "none"
    BY <1>3, <1>5, <1>6 DEF Expected, NotTheOperators
  <2>2. ASSUME NEW u \in Tasks, NEW q \in Runs, Carrying(task'[u], q), runs'[q].is = "waiting",
               runs'[q].on # "approval"
        PROVE  task'[u].by # "operator"
    <3>1. u # s
      BY <1>5, <2>2
    <3>2. Carrying(task[u], q) /\ task'[u].by = task[u].by
      <4>1. CASE u = t
        <5>1. q = r
          BY <1>6, <2>2, <4>1
        <5> QED
          BY <1>1, <1>6, <4>1, <5>1, AtIt
      <4>2. CASE u # t
        BY <1>3, <2>2, <3>1, <4>2
      <4> QED
        BY <4>1, <4>2
    <3> QED
      BY <1>2, <2>2, <3>2 DEF Expected, NotTheOperators, Carries
  <2> QED
    BY <2>1, <2>2 DEF NotTheOperators, Carries
<1> QED
  BY <1>2, <1>8, <1>9, <1>10, <1>11, <1>12, <1>13, <1>14, <1>15 DEF Expected

\* What a task that turns into one that parks its run leaves of the rest.
LEMMA ParkingKeeps ==
    ASSUME Typed, Solo, Expected, NEW t \in Tasks, NEW v,
           task[t].pc \in {"execute", "open"}, Becomes(t, Parking(task[t], v)),
           UNCHANGED <<runs, disk, recovery, known>>
    PROVE  HeldInPlace' /\ DelaySteps' /\ DelaysConfigured' /\ NotTheOperators'
<1> DEFINE x == task[t]
           next == Parking(x, v)
<1>1. /\ next.pc = "park" /\ next.by = x.by /\ DelayStep(next.held)
      /\ \A q : Carrying(next, q) <=> x.run = q
  BY DelayShapes, ShapesLemma
<1>2. \A q : Carrying(x, q) <=> x.run = q
  BY AtIt
<1>3. \A r \in Runs : DelayStep(disk'[r])
  BY DEF Expected, DelaySteps
<1> HIDE DEF next
<1>4. \A r \in Runs : Carrying(next, r) /\ runs[r].is = "waiting" /\ runs[r].on # "approval"
                        => next.by # "operator"
  BY <1>1, <1>2 DEF Expected, NotTheOperators, Carries
<1>5. Becomes(t, next)
  BY DEF next
<1> QED
  BY <1>1, <1>3, <1>4, <1>5, RestKeeps DEF Expected

\* A prompt is one turn more, and one run more that expects it.
LEMMA AgentKeeps ==
    ASSUME Typed, Typed', Solo, Paced, Expected, NEW t \in Tasks, ExecuteAgent(t)
    PROVE  /\ Expected' /\ UNCHANGED <<proc, termNews>>
           /\ \A p \in Terminals : Expecting(p)' = Expecting(p) /\ Parkers(p)' = Parkers(p)
<1> DEFINE x == task[t]
<1> PICK r \in Runs : r = x.run
  BY DEF ExecuteAgent, Executes, Typed, TaskOK, Sound
<1>1. /\ x.pc = "execute" /\ x.run = r /\ x.held.at \in known
      /\ Graph[x.held.at].kind = "agent"
      /\ UNCHANGED <<runs, disk, recovery, agentNews, known>> /\ UNCHANGED <<proc, termNews>>
  BY DEF ExecuteAgent, Executes, Typed, TaskOK, Sound, store, world
<1>2. x.held = runs[r]
  BY <1>1 DEF Paced, OnTrack
<1>3. Here(t).worker \in Sessions
  <2>1. x.held \in Run
    BY DEF Typed, TypeOK, Task
  <2>2. x.held.at \in Nodes
    BY <2>1 DEF Run
  <2> QED
    BY <1>1, <2>2, GraphLemma DEF Here
<1> PICK s \in Sessions : s = Here(t).worker
  BY <1>3
<1>0. s \in WaitedOn
  BY WaitedOnLemma
<1>4. CASE UNCHANGED turns /\ \E to, ok : Becomes(t, Stepping(r, x.by, to, ok))
  <2>1. PICK to, ok : Becomes(t, Stepping(r, x.by, to, ok))
    BY <1>4
  <2>2. Follows(t, Stepping(r, x.by, to, ok))
    BY <1>1, SteppingFollows
  <2>3. \A q \in Runs : DelayStep(disk'[q])
    BY <1>1 DEF Expected, DelaySteps
  <2>4. Expected' /\ Quietly
    BY <1>1, <1>4, <2>1, <2>2, <2>3, FollowsKeeps
  <2>5. \A p \in Terminals : Expecting(p)' = Expecting(p) /\ Parkers(p)' = Parkers(p)
    <3>1. task'[t] = Stepping(r, x.by, to, ok) /\ \A u \in Tasks \ {t} : task'[u] = task[u]
      BY <2>1 DEF Becomes, Typed, TypeOK
    <3>2. ASSUME NEW p \in Terminals, NEW q \in Runs
          PROVE  /\ q \in Parkers(p)' <=> q \in Parkers(p)
                 /\ q \in Expecting(p)' <=> q \in Expecting(p)
      <4>1. /\ Carrying(task'[t], q) <=> Carrying(task[t], q)
            /\ ParksFor(task'[t], p) <=> ParksFor(task[t], p)
        BY <2>2, <3>1, WaitedOnLemma DEF Follows
      <4> QED
        BY <1>1, <3>1, <4>1, TurnExpects
    <3>3. \A w : /\ Expecting(w)' \subseteq Runs /\ Expecting(w) \subseteq Runs
                 /\ Parkers(w)' \subseteq Runs /\ Parkers(w) \subseteq Runs
      BY DEF Expecting, Parkers
    <3> QED
      BY <3>2, <3>3
  <2> QED
    BY <1>1, <2>4, <2>5
<1>5. CASE turns' = [turns EXCEPT ![s] = @ + 1] /\ Becomes(t, Parking(x, s))
  <2>1. task'[t] = Parking(x, s) /\ \A u \in Tasks \ {t} : task'[u] = task[u]
    BY <1>5 DEF Becomes, Typed, TypeOK
  <2>2. Joins(r, s)
    BY <1>0, <1>1, <2>1, TurnJoins
  <2>3. OnItsStep'
    <3>1. runs[r].at \in known /\ Graph[runs[r].at].kind \in KindsOf(s)
      BY <1>1, <1>2, WaitedOnLemma DEF KindsOf
    <3> QED
      BY <1>0, <1>1, <2>2, <3>1, JoinsItsStep DEF Expected
  <2>4. \A w \in WaitedOn \ {s} : Expecting(w)' = Expecting(w) /\ Parkers(w)' = Parkers(w)
    BY <2>2 DEF Joins
  <2>5. Asleep'
    <3>1. Expecting("delay")' = Expecting("delay")
      BY <2>4, WaitedOnLemma
    <3>2. \A u \in Tasks : task[u].pc = "sleep" => task'[u] = task[u]
      BY <1>1, <2>1
    <3> QED
      BY <3>1, <3>2, AsleepStays DEF Expected
  <2>6. Owed'
    <3> SUFFICES ASSUME NEW c \in Sessions
                 PROVE  /\ IsFiniteSet(Expecting(c)')
                        /\ Cardinality(Expecting(c)') <= turns'[c] + Cardinality(NewsOf(c)')
                        /\ Cardinality(Parkers(c)') <= turns'[c]
      BY DEF Owed
    <3>1. NewsOf(c)' = NewsOf(c) /\ Cardinality(NewsOf(c)) \in Nat
      BY <1>1, NewsAreCounted DEF NewsOf
    <3>2. /\ IsFiniteSet(Expecting(c)) /\ turns[c] \in Nat
          /\ Cardinality(Expecting(c)) <= turns[c] + Cardinality(NewsOf(c))
          /\ Cardinality(Parkers(c)) <= turns[c]
      BY DEF Expected, Owed, Typed, TypeOK
    <3>3. CASE c = s
      <4>1. turns'[c] = turns[c] + 1
        BY <1>5, <3>3 DEF Typed, TypeOK
      <4>2. Expecting(c)' = Expecting(c) \cup {r} /\ Parkers(c)' = Parkers(c) \cup {r}
        BY <2>2, <3>3 DEF Joins
      <4>3. IsFiniteSet(Parkers(c))
        <5>1. Parkers(c) \subseteq Expecting(c)
          BY DEF Expecting, Parkers
        <5> QED
          BY <3>2, <5>1, FS_Subset
      <4>4. /\ IsFiniteSet(Expecting(c)')
            /\ Cardinality(Expecting(c)') <= Cardinality(Expecting(c)) + 1
            /\ Cardinality(Expecting(c)) \in Nat /\ Cardinality(Expecting(c)') \in Nat
        <5>1. /\ IsFiniteSet(Expecting(c)')
              /\ Cardinality(Expecting(c)') = IF r \in Expecting(c) THEN Cardinality(Expecting(c))
                                              ELSE Cardinality(Expecting(c)) + 1
          <6> DEFINE E == Expecting(c)
                     E1 == Expecting(c)'
          <6>1. IsFiniteSet(E) /\ E1 = E \cup {r}
            BY <3>2, <4>2
          <6> HIDE DEF E, E1
          <6>2. IsFiniteSet(E1) /\ Cardinality(E1) = IF r \in E THEN Cardinality(E)
                                                     ELSE Cardinality(E) + 1
            BY <6>1, FS_AddElement
          <6> QED
            BY <6>2 DEF E, E1
        <5>2. Cardinality(Expecting(c)) \in Nat
          BY <3>2, FS_CardinalityType
        <5> QED
          BY <5>1, <5>2
      <4>5. /\ Cardinality(Parkers(c)') <= Cardinality(Parkers(c)) + 1
            /\ Cardinality(Parkers(c)) \in Nat /\ Cardinality(Parkers(c)') \in Nat
        <5>1. Cardinality(Parkers(c)') = IF r \in Parkers(c) THEN Cardinality(Parkers(c))
                                         ELSE Cardinality(Parkers(c)) + 1
          BY <4>2, <4>3, FS_AddElement
        <5>2. Cardinality(Parkers(c)) \in Nat
          BY <4>3, FS_CardinalityType
        <5> QED
          BY <5>1, <5>2
      <4>6. Cardinality(NewsOf(c)') = Cardinality(NewsOf(c))
        BY <3>1
      <4> QED
        BY <3>1, <3>2, <4>1, <4>4, <4>5, <4>6
    <3>4. CASE c # s
      <4>1. turns'[c] = turns[c]
        BY <1>5, <3>4 DEF Typed, TypeOK
      <4>2. Expecting(c)' = Expecting(c) /\ Parkers(c)' = Parkers(c)
        BY <2>4, <3>4, WaitedOnLemma
      <4> QED
        BY <3>1, <3>2, <4>1, <4>2
    <3> QED
      BY <3>3, <3>4
  <2>7. HeldInPlace' /\ DelaySteps' /\ DelaysConfigured' /\ NotTheOperators'
    BY <1>1, <1>5, ParkingKeeps
  <2>8. \A p \in Terminals : Expecting(p)' = Expecting(p) /\ Parkers(p)' = Parkers(p)
    BY <2>4, WaitedOnLemma
  <2> QED
    BY <1>1, <2>3, <2>5, <2>6, <2>7, <2>8 DEF Expected
<1> QED
  BY <1>1, <1>4, <1>5 DEF ExecuteAgent

\* The one run there is, in somebody's hands and not to be parked, has nothing open.
LEMMA NothingOpen ==
    ASSUME Typed, Solo, OneRun, InHand, NEW t \in Tasks, NEW r \in Runs, Carries(t, r),
           \A p \in Terminals : ~ParksFor(task[t], p)
    PROVE  /\ \A p \in Terminals : Expecting(p) = {} /\ Parkers(p) = {} /\ proc[p] = "none"
           /\ DOMAIN termNews = {}
<1>1. ASSUME NEW p \in Terminals, NEW q \in Runs
      PROVE  q \notin Expecting(p) /\ q \notin Parkers(p)
  <2>1. q = r
    BY DEF OneRun
  <2>2. \A u \in Tasks : Carries(u, r) => u = t
    BY DEF Solo, OneDriver
  <2>3. r \notin Parkers(p)
    BY <2>2 DEF Parkers
  <2> QED
    BY <2>1, <2>3 DEF Expecting
<1>2. \A p \in Terminals : Expecting(p) \subseteq Runs /\ Parkers(p) \subseteq Runs
  BY DEF Expecting, Parkers
<1>3. \A p \in Terminals : Expecting(p) = {} /\ Parkers(p) = {}
  BY <1>1, <1>2
<1>4. \A p \in Terminals : proc[p] = "none"
  BY <1>3 DEF InHand
<1>5. \A i \in DOMAIN termNews : termNews[i].terminal \in Terminals
  <2> DEFINE News1 == [terminal: Terminals, ok: BOOLEAN]
  <2>1. termNews \in Seq(News1)
    BY DEF Typed, TypeOK
  <2> HIDE DEF News1
  <2>2. \A i \in DOMAIN termNews : termNews[i] \in News1
    BY <2>1
  <2> QED
    BY <2>2 DEF News1
<1>6. DOMAIN termNews = {}
  BY <1>4, <1>5 DEF InHand
<1> QED
  BY <1>3, <1>4, <1>6

\* A terminal that is opened, or was open, is expected by the run that opens it.
LEMMA OpenKeeps ==
    ASSUME Typed, Typed', Solo, Paced, Expected, NEW t \in Tasks, ExecuteOpen(t)
    PROVE  /\ Expected' /\ UNCHANGED termNews
           /\ OneRun /\ InHand => InHand'
<1> DEFINE x == task[t]
<1>1. x.pc = "open" /\ x.run \in Runs /\ Graph[x.held.at].kind = "terminal"
      /\ x.held \in Run
  BY DEF ExecuteOpen, Typed, TypeOK, TaskOK, Sound, Task
<1>2. UNCHANGED <<runs, disk, recovery, turns, agentNews, known>> /\ UNCHANGED termNews
  BY DEF ExecuteOpen, store, world
<1>3. x.held = runs[x.run]
  BY <1>1 DEF Paced, OnTrack
<1> PICK r \in Runs : r = x.run
  BY <1>1
<1>4. Here(t).worker \in Terminals
  <2>1. x.held.at \in Nodes
    BY <1>1 DEF Run
  <2> QED
    BY <1>1, <2>1, GraphLemma DEF Here
<1> PICK p \in Terminals : p = Here(t).worker
  BY <1>4
<1>5. p \in WaitedOn /\ p \notin Sessions /\ p # "delay"
  BY WaitedOnLemma
<1>6. Carries(t, r) /\ \A w : ~ParksFor(x, w)
  BY <1>1, AtIt DEF Carries
<1>7. CASE UNCHANGED proc /\ \E to, ok : Becomes(t, Stepping(x.run, x.by, to, ok))
  <2>1. PICK to, ok : Becomes(t, Stepping(x.run, x.by, to, ok))
    BY <1>7
  <2>2. Follows(t, Stepping(x.run, x.by, to, ok))
    BY <1>1, SteppingFollows
  <2>3. \A q \in Runs : DelayStep(disk'[q])
    BY <1>2 DEF Expected, DelaySteps
  <2>4. Expected' /\ Quietly
    BY <1>1, <1>2, <2>1, <2>2, <2>3, FollowsKeeps
  <2>5. InHand => InHand'
    BY <1>2, <1>7, <2>4, InHandStays, WaitedOnLemma DEF Quietly
  <2> QED
    BY <1>2, <2>4, <2>5
<1>8. CASE /\ Becomes(t, Parking(x, p))
           /\ \/ proc[p] = "none" /\ proc' = [proc EXCEPT ![p] = "live"]
              \/ proc[p] # "none" /\ UNCHANGED proc
  <2>1. task'[t] = Parking(x, p) /\ \A u \in Tasks \ {t} : task'[u] = task[u]
    BY <1>8 DEF Becomes, Typed, TypeOK
  <2>2. Joins(r, p)
    BY <1>1, <1>2, <1>5, <2>1, TurnJoins
  <2>3. OnItsStep'
    <3>1. Graph[runs[r].at].kind \in KindsOf(p)
      BY <1>1, <1>3, <1>5 DEF KindsOf
    <3>2. runs[r].at \in known
      BY <1>1, <1>3 DEF Expected, HeldInPlace
    <3> QED
      BY <1>2, <1>5, <2>2, <3>1, <3>2, JoinsItsStep DEF Expected
  <2>4. \A w \in WaitedOn \ {p} : Expecting(w)' = Expecting(w) /\ Parkers(w)' = Parkers(w)
    BY <2>2 DEF Joins
  <2>5. Asleep'
    <3>1. Expecting("delay")' = Expecting("delay")
      BY <1>5, <2>4, WaitedOnLemma
    <3>2. \A u \in Tasks : task[u].pc = "sleep" => task'[u] = task[u]
      BY <1>1, <2>1
    <3> QED
      BY <3>1, <3>2, AsleepStays DEF Expected
  <2>6. Owed'
    BY <1>2, <1>5, <2>4, OwedAllStays, WaitedOnLemma DEF Expected
  <2>7. HeldInPlace' /\ DelaySteps' /\ DelaysConfigured' /\ NotTheOperators'
    BY <1>1, <1>2, <1>8, ParkingKeeps
  <2>8. ASSUME OneRun, InHand
        PROVE  InHand'
    <3>1. /\ \A w \in Terminals : Expecting(w) = {} /\ Parkers(w) = {} /\ proc[w] = "none"
          /\ DOMAIN termNews = {}
      BY <1>6, <2>8, NothingOpen
    <3>2. proc' = [proc EXCEPT ![p] = "live"] /\ termNews' = termNews
      BY <1>2, <1>8, <3>1
    <3>3. proc'[p] = "live" /\ \A w \in Terminals \ {p} : proc'[w] = "none"
      BY <3>1, <3>2 DEF Typed, TypeOK
    <3>4. Expecting(p)' = {r} /\ Parkers(p)' = {r}
      BY <2>2, <3>1 DEF Joins
    <3>5. \A w \in Terminals \ {p} : Expecting(w)' = {} /\ Parkers(w)' = {}
      BY <2>4, <3>1, WaitedOnLemma
    <3>6. ASSUME NEW w \in Terminals
          PROVE  /\ proc'[w] # "none" <=> Expecting(w)' # {}
                 /\ Parkers(w)' # {} => proc'[w] = "live"
      BY <3>3, <3>4, <3>5
    <3> QED
      BY <3>1, <3>2, <3>6 DEF InHand
  <2> QED
    BY <1>2, <2>3, <2>5, <2>6, <2>7, <2>8 DEF Expected
<1> QED
  BY <1>7, <1>8 DEF ExecuteOpen

\* What was in a task's hands is in the map: who expected what still does.
LEMMA InsertKeeps ==
    ASSUME Typed, Typed', Solo, Expected, NEW t \in Tasks, Insert(t)
    PROVE  Expected' /\ Quietly /\ UNCHANGED <<proc, termNews>>
<1> DEFINE x == task[t]
           next == Working("record", x.run, x.held, x.by)
<1>1. /\ x.pc = "insert" /\ x.run \in Runs /\ x.held \in Run /\ TypeOK
      /\ task \in [Tasks -> Task]
  BY DEF Insert, Typed, TypeOK, TaskOK, Sound, Task
<1> PICK r \in Runs : r = x.run
  BY <1>1
<1>2. /\ UNCHANGED <<disk, recovery, turns, agentNews, known>> /\ UNCHANGED <<proc, termNews>>
      /\ Remembered(x.run, x.held)
  BY DEF Insert, store, workers, world
<1>3. task'[t] = next /\ \A u \in Tasks \ {t} : task'[u] = task[u]
  BY <1>1 DEF Insert, Becomes
<1>4. /\ \A q \in Runs \ {r} : \/ runs'[q] = runs[q]
                               \/ runs[q].is = "finished" /\ runs'[q] = Absent
      /\ runs'[r] = x.held \/ (x.held.is = "finished" /\ runs'[r] = Absent)
  <2>1. /\ \A q \in Runs \ {x.run} : \/ runs'[q] = runs[q]
                                     \/ runs[q].is = "finished" /\ runs'[q] = Absent
        /\ runs'[x.run] = x.held \/ (x.held.is = "finished" /\ runs'[x.run] = Absent)
    BY <1>1, <1>2, RememberedOthers
  <2> QED
    BY <2>1
<1>5. Absent.is = "absent"
  BY DEF Absent
<1>6. /\ \A q : Carrying(x, q) <=> q = r
      /\ \A w : ParksFor(x, w) <=> Waits(x.held, w)
  BY <1>1 DEF Carrying, ParksFor, Waits
<1>7. /\ next.pc = "record" /\ next.held = x.held /\ \A w : ~ParksFor(next, w)
      /\ x.held.is = "running" => \A q : Carrying(next, q) <=> q = r
      /\ x.held.is # "running" => \A q : ~Carrying(next, q)
  BY ShapesLemma, DelayShapes
<1> HIDE DEF x, next
<1>8. \A u \in Tasks \ {t} : ~Carrying(task[u], r) /\ ~Carrying(task'[u], r)
  BY <1>3, <1>6 DEF Solo, OneDriver, Carries, x
<1>9. \A u \in Tasks, q \in Runs \ {r} : /\ Carrying(task[u], q) => u # t
                                         /\ Carrying(task'[u], q) => u # t
  BY <1>3, <1>6, <1>7 DEF x
<1>10. \A q \in Runs \ {r}, u \in Tasks : Carrying(task'[u], q) <=> Carrying(task[u], q)
  BY <1>3, <1>9
<1>11. \A q \in Runs \ {r} : \A w : Waits(runs'[q], w) <=> Waits(runs[q], w)
  BY <1>4, <1>5 DEF Waits
<1>12. ASSUME NEW w, NEW q \in Runs \ {r}
       PROVE  /\ q \in Parkers(w)' <=> q \in Parkers(w)
              /\ q \in Expecting(w)' <=> q \in Expecting(w)
  <2>1. q \in Parkers(w)' <=> q \in Parkers(w)
    BY <1>3, <1>9 DEF Parkers, Carries
  <2> QED
    BY <1>10, <1>11, <2>1 DEF Expecting, Carries
<1>13. ASSUME NEW w
       PROVE  r \notin Parkers(w)' /\ (r \in Expecting(w)' <=> r \in Expecting(w))
  <2>1. r \notin Parkers(w)'
    BY <1>3, <1>7, <1>8 DEF Parkers, Carries
  <2>2. r \in Expecting(w) <=> Waits(x.held, w)
    <3>1. r \in Parkers(w) <=> ParksFor(x, w)
      BY <1>6, <1>8 DEF Parkers, Carries, x
    <3>2. Carries(t, r)
      BY <1>6 DEF Carries, x
    <3> QED
      BY <1>6, <3>1, <3>2 DEF Expecting
  <2>3. CASE Waits(x.held, w)
    <3>1. runs'[r] = x.held /\ x.held.is # "running"
      BY <1>4, <2>3 DEF Waits
    <3>2. \A u \in Tasks : ~Carrying(task'[u], r)
      BY <1>3, <1>7, <1>8, <3>1
    <3> QED
      BY <2>1, <2>2, <2>3, <3>1, <3>2 DEF Expecting, Carries
  <2>4. CASE ~Waits(x.held, w)
    <3>1. ~Waits(runs'[r], w)
      BY <1>4, <1>5, <2>4 DEF Waits
    <3> QED
      BY <2>1, <2>2, <2>4, <3>1 DEF Expecting
  <2> QED
    BY <2>1, <2>3, <2>4
<1>14. \A w \in WaitedOn : Expecting(w)' = Expecting(w) /\ Parkers(w)' \subseteq Parkers(w)
  <2>1. \A w : /\ Expecting(w)' \subseteq Runs /\ Expecting(w) \subseteq Runs
               /\ Parkers(w)' \subseteq Runs /\ Parkers(w) \subseteq Runs
    BY DEF Expecting, Parkers
  <2> QED
    BY <1>12, <1>13, <2>1
<1>15. \A u \in Tasks, q \in Runs \ {r} : Carrying(task[u], q) => runs'[q] = runs[q]
  BY <1>4 DEF Solo, CarriedIsLive, Carries, Live
<1>16. ASSUME NEW w \in WaitedOn, NEW q \in Expecting(w)
       PROVE  runs'[q].at = runs[q].at
  <2>0. q \in Runs
    BY DEF Expecting
  <2>1. CASE q = r
    <3>1. r \in Parkers(w)
      BY <1>6, <2>1 DEF Expecting, Carries, x
    <3>2. Waits(x.held, w)
      BY <1>6, <1>8, <3>1 DEF Parkers, Carries, x
    <3>3. x.held.at = runs[r].at /\ runs'[r] = x.held
      BY <1>1, <1>4, <3>2 DEF Waits, Expected, HeldInPlace, x
    <3> QED
      BY <2>1, <3>3
  <2>2. CASE q # r
    <3>1. CASE q \in Parkers(w)
      BY <1>15, <2>0, <2>2, <3>1 DEF Parkers, Carries
    <3>2. CASE Waits(runs[q], w)
      BY <1>4, <2>0, <2>2, <3>2 DEF Waits
    <3> QED
      BY <3>1, <3>2 DEF Expecting
  <2> QED
    BY <2>1, <2>2
<1>17. \A u \in Tasks : task[u].pc = "sleep" => task'[u] = task[u]
  BY <1>1, <1>3 DEF x
<1>18. Quietly
  <2>1. UNCHANGED <<turns, agentNews, known>>
    BY <1>2
  <2> QED
    BY <1>14, <1>16, <1>17, <2>1 DEF Quietly
<1>19. OnItsStep' /\ Asleep' /\ Owed'
  BY <1>18, QuietKeeps DEF Expected
<1>20. HeldInPlace'
  <2>1. \A u \in Tasks : task'[u].pc \in {"insert", "open"} => u # t /\ task'[u] = task[u]
    BY <1>3, <1>7
  <2>2. ASSUME NEW u \in Tasks, task'[u].pc = "insert", task'[u].held.is = "waiting"
        PROVE  task'[u].held.at = runs'[task'[u].run].at
    <3>1. u # t /\ task'[u] = task[u] /\ task[u].pc = "insert"
      BY <2>1, <2>2
    <3>2. task[u].run \in Runs /\ Carrying(task[u], task[u].run)
      BY <3>1 DEF Typed, TaskOK, Sound, Carrying
    <3>3. task[u].run # r
      BY <1>8, <3>1, <3>2
    <3>4. runs'[task[u].run] = runs[task[u].run]
      BY <1>15, <3>2, <3>3
    <3> QED
      BY <2>2, <3>1, <3>4 DEF Expected, HeldInPlace
  <2>3. \A u \in Tasks : task'[u].pc = "open" => task'[u].held.at \in known'
    BY <1>2, <2>1 DEF Expected, HeldInPlace
  <2> QED
    BY <2>2, <2>3 DEF HeldInPlace
<1>21. DelaySteps'
  <2>1. DelayStep(x.held)
    BY DEF Expected, DelaySteps, x
  <2>2. \A u \in Tasks : DelayStep(task'[u].held)
    BY <1>3, <1>7, <2>1 DEF Expected, DelaySteps
  <2>3. \A q \in Runs : DelayStep(runs'[q])
    BY <1>4, <2>1, DelayShapes DEF Expected, DelaySteps
  <2>4. disk' = disk /\ recovery' = recovery
    BY <1>2
  <2> QED
    BY <2>2, <2>3, <2>4 DEF Expected, DelaySteps
<1>22. DelaysConfigured'
  BY <1>2 DEF Expected, DelaysConfigured
<1>23. NotTheOperators'
  <2>1. \A u \in Tasks : task'[u].pc = "sleep" => task'[u].by = "none"
    BY <1>3, <1>7 DEF Expected, NotTheOperators
  <2>2. ASSUME NEW u \in Tasks, NEW q \in Runs, Carrying(task'[u], q), runs'[q].is = "waiting",
               runs'[q].on # "approval"
        PROVE  task'[u].by # "operator"
    <3>1. CASE q = r
      <4>1. u = t
        BY <1>8, <2>2, <3>1
      <4>2. x.held.is = "running"
        BY <1>3, <1>7, <2>2, <4>1
      <4>3. runs'[r] = x.held
        BY <1>4, <4>2
      <4> QED
        BY <2>2, <3>1, <4>2, <4>3
    <3>2. CASE q # r
      <4>1. u # t /\ task'[u] = task[u]
        BY <1>3, <1>9, <2>2, <3>2
      <4>2. runs'[q] = runs[q]
        BY <1>15, <2>2, <3>2, <4>1
      <4> QED
        BY <2>2, <4>1, <4>2 DEF Expected, NotTheOperators, Carries
    <3> QED
      BY <3>1, <3>2
  <2> QED
    BY <2>1, <2>2 DEF NotTheOperators, Carries
<1> QED
  BY <1>2, <1>18, <1>19, <1>20, <1>21, <1>22, <1>23 DEF Expected

\* A run that waits, in nobody's hands, is taken up: it no longer expects what it
\* waited for.
LEMMA TurnLeaves ==
    ASSUME Typed, NEW t \in Tasks, NEW r \in Runs, NEW v \in WaitedOn, NEW next,
           Becomes(t, next), UNCHANGED runs, task[t].pc \in {"idle", "sleep"},
           Waits(runs[r], v), \A u \in Tasks : ~Carries(u, r),
           \A q : Carrying(next, q) <=> q = r, \A w : ~ParksFor(next, w)
    PROVE  /\ r \in Expecting(v) /\ Expecting(v)' = Expecting(v) \ {r}
           /\ \A w \in WaitedOn \ {v} : Expecting(w)' = Expecting(w)
           /\ \A w \in WaitedOn : Parkers(w)' = Parkers(w)
<1>1. task'[t] = next /\ \A u \in Tasks \ {t} : task'[u] = task[u]
  BY DEF Becomes, Typed, TypeOK
<1>2. /\ \A q : ~Carrying(task[t], q)
      /\ \A w : ~ParksFor(task[t], w)
  BY DEF Carrying, ParksFor
<1>3. r \in Expecting(v)
  BY DEF Expecting
<1>4. ASSUME NEW w \in WaitedOn, NEW q \in Runs, w # v \/ q # r
      PROVE  q \in Expecting(w)' <=> q \in Expecting(w)
  <2>1. (Carrying(task'[t], q) <=> Carrying(task[t], q)) \/ ~Waits(runs[q], w)
    BY <1>1, <1>2, <1>4 DEF Waits
  <2> QED
    BY <1>1, <1>2, <2>1, TurnExpects
<1>5. ASSUME NEW w \in WaitedOn, NEW q \in Runs
      PROVE  q \in Parkers(w)' <=> q \in Parkers(w)
  BY <1>1, <1>2 DEF Parkers, Carries
<1>6. r \notin Expecting(v)'
  <2>1. \A u \in Tasks : ~Carries(u, r)
    OBVIOUS
  <2>2. r \notin Parkers(v)
    BY <2>1 DEF Parkers
  <2>3. Carrying(task'[t], r)
    BY <1>1
  <2> QED
    BY <1>5, <2>2, <2>3 DEF Expecting, Carries
<1>7. \A w : /\ Expecting(w)' \subseteq Runs /\ Expecting(w) \subseteq Runs
             /\ Parkers(w)' \subseteq Runs /\ Parkers(w) \subseteq Runs
  BY DEF Expecting, Parkers
<1> QED
  BY <1>3, <1>4, <1>5, <1>6, <1>7

LEMMA LeavesKeeps ==
    ASSUME Typed, Solo, Expected, NEW t \in Tasks, NEW r \in Runs, NEW v \in WaitedOn,
           NEW by, NEW to, NEW ok, by # "operator",
           Becomes(t, Stepping(r, by, to, ok)), UNCHANGED <<runs, disk, recovery, known>>,
           task[t].pc \in {"idle", "sleep"},
           Waits(runs[r], v), \A u \in Tasks : ~Carries(u, r)
    PROVE  /\ r \in Expecting(v) /\ Expecting(v)' = Expecting(v) \ {r}
           /\ \A w \in WaitedOn \ {v} : Expecting(w)' = Expecting(w)
           /\ \A w \in WaitedOn : Parkers(w)' = Parkers(w)
           /\ OnItsStep' /\ HeldInPlace' /\ DelaySteps' /\ DelaysConfigured'
           /\ NotTheOperators'
<1> DEFINE next == Stepping(r, by, to, ok)
<1>1. /\ next.pc = "step" /\ next.by = by /\ DelayStep(next.held)
      /\ \A q : Carrying(next, q) <=> q = r
      /\ \A w : ~ParksFor(next, w)
  BY ShapesLemma, DelayShapes
<1>2. Becomes(t, next)
  OBVIOUS
<1> HIDE DEF next
<1>3. /\ r \in Expecting(v) /\ Expecting(v)' = Expecting(v) \ {r}
      /\ \A w \in WaitedOn \ {v} : Expecting(w)' = Expecting(w)
      /\ \A w \in WaitedOn : Parkers(w)' = Parkers(w)
  BY <1>1, <1>2, TurnLeaves
<1>4. OnItsStep'
  <2>1. \A w \in WaitedOn : Expecting(w)' \subseteq Expecting(w)
    BY <1>3
  <2> QED
    BY <2>1, OnItsStepStays DEF Expected
<1>5. \A q \in Runs : DelayStep(disk'[q])
  BY DEF Expected, DelaySteps
<1>6. HeldInPlace' /\ DelaySteps' /\ DelaysConfigured' /\ NotTheOperators'
  BY <1>1, <1>2, <1>5, RestKeeps DEF Expected
<1> QED
  BY <1>3, <1>4, <1>6

\* A sleep that is over finds its run waiting for it, on the step it slept for.
LEMMA WakeKeeps ==
    ASSUME Typed, Typed', Solo, Expected, NothingHasty, NEW t \in Tasks, Wake(t)
    PROVE  /\ Expected' /\ UNCHANGED <<proc, termNews>>
           /\ \A p \in Terminals : Expecting(p)' = Expecting(p) /\ Parkers(p)' = Parkers(p)
<1> DEFINE x == task[t]
<1>1. /\ x.pc = "sleep" /\ x.run \in Runs /\ x.by = "none"
      /\ UNCHANGED <<runs, disk, recovery, turns, agentNews, known>>
      /\ UNCHANGED <<proc, termNews>>
  BY DEF Wake, Typed, TaskOK, Sound, store, workers, world, Expected, NotTheOperators
<1> PICK r \in Runs : r = x.run
  BY <1>1
<1>2. Waits(runs[r], "delay") /\ \A u \in Tasks : ~Carries(u, r)
  <2>1. \A u \in Tasks : Carries(u, r) => ~ParksFor(task[u], "delay")
    BY DEF Wake, NothingHasty, ParksFor, Carries, Carrying
  <2>2. Slept(r)
    BY <1>1 DEF Solo, SleeperWaits
  <2> QED
    BY <2>1, <2>2 DEF Slept
<1>3. runs[r].at \in known /\ Graph[runs[r].at].kind = "delay"
  BY <1>2, WaitedOnLemma DEF Expected, OnItsStep, KindsOf, Expecting
<1>4. Becomes(t, Stepping(r, "none", Graph[runs[r].at].next, runs[r].ok))
  BY <1>1, <1>2, <1>3 DEF Wake
<1>5. /\ Expecting("delay")' = Expecting("delay") \ {r}
      /\ \A w \in WaitedOn \ {"delay"} : Expecting(w)' = Expecting(w)
      /\ \A w \in WaitedOn : Parkers(w)' = Parkers(w)
      /\ OnItsStep' /\ HeldInPlace' /\ DelaySteps' /\ DelaysConfigured'
      /\ NotTheOperators'
  <2> DEFINE to == Graph[runs[r].at].next
             ok == runs[r].ok
  <2>1. /\ "delay" \in WaitedOn /\ "none" # "operator" /\ task[t].pc \in {"idle", "sleep"}
        /\ Becomes(t, Stepping(r, "none", to, ok)) /\ UNCHANGED <<runs, disk, recovery, known>>
    BY <1>1, <1>4, WaitedOnLemma
  <2> HIDE DEF to, ok
  <2> QED
    BY <1>2, <2>1, LeavesKeeps
<1>6. Asleep'
  <2>1. \A u \in Tasks \ {t} : task'[u] = task[u]
    BY <1>4 DEF Becomes, Typed, TypeOK
  <2>2. \A u \in Tasks : task[u].run \in Expecting("delay")' => u # t
    BY <1>5
  <2> QED
    BY <1>5, <2>1, <2>2, AsleepStays DEF Expected
<1>7. Owed'
  BY <1>1, <1>5, OwedAllStays, WaitedOnLemma DEF Expected
<1> QED
  BY <1>1, <1>5, <1>6, <1>7, WaitedOnLemma DEF Expected

\* Whatever a task does with its run.
LEMMA CarryKeeps ==
    ASSUME Typed, Typed', Solo, Paced, Expected, NothingHasty, NEW t \in Tasks, Carry(t)
    PROVE  Expected' /\ (OneRun /\ InHand => InHand')
<1>1. CASE QuietWork(t)
  <2>1. /\ Expected' /\ Quietly /\ UNCHANGED termNews
        /\ UNCHANGED proc \/ ExecuteClose(t)
    BY <1>1, WorkKeeps
  <2>2. ASSUME OneRun, InHand
        PROVE  InHand'
    <3>1. UNCHANGED proc
      <4>1. CASE ExecuteClose(t)
        <5>1. task[t].pc = "execute" /\ task[t].run \in Runs /\ task[t].held \in Run
              /\ Graph[task[t].held.at].kind = "terminal"
          BY <4>1 DEF ExecuteClose, Executes, Typed, TypeOK, TaskOK, Sound, Task
        <5>2. Carries(t, task[t].run) /\ \A w : ~ParksFor(task[t], w)
          BY <5>1, AtIt DEF Carries
        <5>3. \A p \in Terminals : proc[p] = "none"
          BY <2>2, <5>1, <5>2, NothingOpen
        <5>4. Here(t).worker \in Terminals
          BY <5>1, GraphLemma DEF Here, Run
        <5>5. proc' = [proc EXCEPT ![Here(t).worker] = "none"]
          BY <4>1, <5>3, <5>4 DEF ExecuteClose
        <5> QED
          BY <5>3, <5>4, <5>5 DEF Typed, TypeOK
      <4> QED
        BY <2>1, <4>1
    <3> QED
      BY <2>1, <2>2, <3>1, InHandStays, WaitedOnLemma DEF Quietly
  <2> QED
    BY <2>1, <2>2
<1>2. CASE \E s \in Tasks : ExecuteDelay(t, s)
  BY <1>2, DelayKeeps, InHandStays
<1>3. CASE ExecuteAgent(t)
  BY <1>3, AgentKeeps, InHandStays
<1>4. CASE ExecuteOpen(t)
  BY <1>4, OpenKeeps
<1>5. CASE Insert(t)
  BY <1>5, InsertKeeps, InHandStays, WaitedOnLemma DEF Quietly
<1>6. CASE Wake(t)
  BY <1>6, WakeKeeps, InHandStays
<1> QED
  BY <1>1, <1>2, <1>3, <1>4, <1>5, <1>6 DEF Carry, Execute, QuietWork

\* Steps that leave the runs and whoever is on them as they are.
LEMMA NobodyMoves ==
    ASSUME Expected, UNCHANGED <<runs, task, known>>,
           \A r \in Runs : DelayStep(disk'[r]) /\ DelayStep(recovery'.rows[r])
    PROVE  /\ \A w : Expecting(w)' = Expecting(w) /\ Parkers(w)' = Parkers(w)
           /\ OnItsStep' /\ HeldInPlace' /\ DelaySteps' /\ DelaysConfigured'
           /\ Asleep' /\ NotTheOperators'
<1>1. runs' = runs /\ task' = task /\ known' = known
  OBVIOUS
<1>2. \A w : Expecting(w)' = Expecting(w) /\ Parkers(w)' = Parkers(w)
  BY <1>1 DEF Expecting, Parkers, Carries
<1>3. OnItsStep'
  BY <1>1, <1>2, OnItsStepStays DEF Expected
<1>4. HeldInPlace' /\ DelaysConfigured' /\ NotTheOperators'
  BY <1>1 DEF Expected, HeldInPlace, DelaysConfigured, NotTheOperators, Carries
<1>5. DelaySteps'
  <2>1. \A r \in Runs : DelayStep(runs'[r])
    BY <1>1 DEF Expected, DelaySteps
  <2>2. \A u \in Tasks : DelayStep(task'[u].held)
    BY <1>1 DEF Expected, DelaySteps
  <2> QED
    BY <2>1, <2>2 DEF DelaySteps
<1>6. Asleep'
  BY <1>1, <1>2, AsleepStays DEF Expected
<1> QED
  BY <1>2, <1>3, <1>4, <1>5, <1>6

\* Whoever brings the news of a worker finds a run that expects it on a step that
\* waits for one, and moves it on.
LEMMA ReleasedTakes ==
    ASSUME Expected, NEW t \in Tasks, NEW v \in Sessions \cup Terminals, NEW ok, NEW by,
           Released(t, v, ok, by),
           \A r \in Runs : Waits(runs[r], v) => \A u \in Tasks : ~Carries(u, r)
    PROVE  \/ UNCHANGED task /\ \A r \in Runs : ~Waits(runs[r], v)
           \/ \E r \in Runs : /\ Waits(runs[r], v)
                              /\ \E to, well : Becomes(t, Stepping(r, by, to, well))
<1>1. CASE \A r \in Runs : ~Waits(runs[r], v)
  <2>1. {r \in Runs : Waits(runs[r], v)} = {}
    BY <1>1
  <2>2. UNCHANGED task
    BY <2>1 DEF Released
  <2> QED
    BY <1>1, <2>2
<1>2. CASE ~\A r \in Runs : ~Waits(runs[r], v)
  <2> DEFINE waiting == {r \in Runs : Waits(runs[r], v)}
             parted(r) ==
                LET node == Graph[runs[r].at]
                IN  IF runs[r].at \in known /\ node.kind \in {"agent", "terminal"}
                    THEN Becomes(t, Stepping(r, by, IF ok THEN node.next ELSE node.alt, ok))
                    ELSE UNCHANGED task
  <2>1. waiting # {}
    BY <1>2
  <2>2. \E r \in waiting : parted(r)
    BY <2>1, Zenon DEF Released
  <2>3. PICK r \in waiting : parted(r)
    BY <2>2
  <2>4. r \in Expecting(v) /\ r \in Runs /\ Waits(runs[r], v)
    BY <2>3 DEF Expecting
  <2>5. v \in WaitedOn /\ v # "delay"
    BY WaitedOnLemma
  <2>6. runs[r].at \in known /\ Graph[runs[r].at].kind \in {"agent", "terminal"}
    BY <2>4, <2>5 DEF Expected, OnItsStep, KindsOf
  <2>7. \E to, well : Becomes(t, Stepping(r, by, to, well))
    BY <2>3, <2>6
  <2> QED
    BY <2>4, <2>7
<1> QED
  BY <1>1, <1>2

\* The news of a session release one of those that expect it, or are of a turn
\* that nobody but a run still to be parked has expected.
LEMMA AgentNewsKeep ==
    ASSUME Typed, Typed', Solo, Expected, NEW t \in Tasks, AgentFinished(t)
    PROVE  /\ Expected' /\ UNCHANGED <<proc, termNews>>
           /\ \A p \in Terminals : Expecting(p)' = Expecting(p) /\ Parkers(p)' = Parkers(p)
<1> DEFINE News1 == [session: Sessions, state: {"completed", "failed", "waiting_approval"}]
<1>1. /\ task[t].pc = "idle" /\ \A u \in Tasks : task[u].by # "agents"
      /\ agentNews # <<>> /\ agentNews' = Tail(agentNews)
      /\ UNCHANGED <<runs, disk, recovery, turns, known>> /\ UNCHANGED <<proc, termNews>>
  BY DEF AgentFinished, Free, Busy, store, world
<1>2. Head(agentNews).session \in Sessions
  <2>1. agentNews \in Seq(News1)
    BY DEF Typed, TypeOK
  <2> HIDE DEF News1
  <2>2. Head(agentNews) \in News1
    BY <1>1, <2>1
  <2> QED
    BY <2>2 DEF News1
<1> PICK s \in Sessions : s = Head(agentNews).session
  BY <1>2
<1>3. Released(t, s, Head(agentNews).state = "completed", "agents")
  BY DEF AgentFinished
<1>4. \A r \in Runs : Waits(runs[r], s) => \A u \in Tasks : ~Carries(u, r)
  BY <1>1 DEF Waits, Solo, TakenFrom, Taken
<1>5. s \in WaitedOn /\ s # "delay" /\ s \notin Terminals /\ "delay" \in WaitedOn
      /\ \A c \in Sessions : c \in WaitedOn
      /\ \A p \in Terminals : p \in WaitedOn /\ p # s
  BY WaitedOnLemma
<1>6. ASSUME NEW c \in Sessions
      PROVE  /\ IsFiniteSet(Expecting(c)) /\ Cardinality(Expecting(c)) \in Nat
             /\ Cardinality(Expecting(c)) <= turns[c] + Cardinality(NewsOf(c))
             /\ Cardinality(Parkers(c)) <= turns[c] /\ turns[c] \in Nat /\ turns'[c] = turns[c]
             /\ Cardinality(NewsOf(c)) \in Nat /\ Cardinality(NewsOf(c)') \in Nat
             /\ c # s => Cardinality(NewsOf(c)') >= Cardinality(NewsOf(c))
             /\ c = s => Cardinality(NewsOf(c)') >= Cardinality(NewsOf(c)) - 1
  <2>1. Cardinality(NewsOf(c)) \in Nat /\ Cardinality(NewsOf(c)') \in Nat
    BY NewsAreCounted
  <2>2. IF Head(agentNews).session = c
           THEN Cardinality(NewsOf(c)') >= Cardinality(NewsOf(c)) - 1
           ELSE Cardinality(NewsOf(c)') >= Cardinality(NewsOf(c))
    BY <1>1, NewsHeard
  <2>3. IsFiniteSet(Expecting(c)) /\ turns[c] \in Nat
    BY DEF Expected, Owed, Typed, TypeOK
  <2>4. Cardinality(Expecting(c)) \in Nat
    BY <2>3, FS_CardinalityType
  <2>5. /\ Cardinality(Expecting(c)) <= turns[c] + Cardinality(NewsOf(c))
        /\ Cardinality(Parkers(c)) <= turns[c]
    BY DEF Expected, Owed
  <2> QED
    BY <1>1, <2>1, <2>2, <2>3, <2>4, <2>5
<1>7. CASE UNCHANGED task /\ \A r \in Runs : ~Waits(runs[r], s)
  <2>1. \A r \in Runs : DelayStep(disk'[r]) /\ DelayStep(recovery'.rows[r])
    BY <1>1 DEF Expected, DelaySteps
  <2>2. /\ \A w : Expecting(w)' = Expecting(w) /\ Parkers(w)' = Parkers(w)
        /\ OnItsStep' /\ HeldInPlace' /\ DelaySteps' /\ DelaysConfigured'
        /\ Asleep' /\ NotTheOperators'
    BY <1>1, <1>7, <2>1, NobodyMoves
  <2>3. Expecting(s) = Parkers(s)
    BY <1>7 DEF Expecting, Parkers
  <2>4. Owed'
    <3> SUFFICES ASSUME NEW c \in Sessions
                 PROVE  /\ IsFiniteSet(Expecting(c)')
                        /\ Cardinality(Expecting(c)') <= turns'[c] + Cardinality(NewsOf(c)')
                        /\ Cardinality(Parkers(c)') <= turns'[c]
      BY DEF Owed
    <3>1. Expecting(c)' = Expecting(c) /\ Parkers(c)' = Parkers(c)
      BY <2>2
    <3>2. CASE c = s
      <4>1. Cardinality(Expecting(c)) <= turns[c]
        BY <1>6, <2>3, <3>2
      <4> QED
        BY <1>6, <3>1, <4>1
    <3>3. CASE c # s
      BY <1>6, <3>1, <3>3
    <3> QED
      BY <3>2, <3>3
  <2> QED
    BY <1>1, <2>2, <2>4 DEF Expected
<1>8. ASSUME NEW r \in Runs, Waits(runs[r], s), NEW to, NEW well,
             Becomes(t, Stepping(r, "agents", to, well))
      PROVE  /\ Expected'
             /\ \A p \in Terminals : Expecting(p)' = Expecting(p) /\ Parkers(p)' = Parkers(p)
  <2>1. "agents" # "operator" /\ task[t].pc \in {"idle", "sleep"}
        /\ \A u \in Tasks : ~Carries(u, r)
    BY <1>1, <1>4, <1>8
  <2>2. /\ r \in Expecting(s) /\ Expecting(s)' = Expecting(s) \ {r}
        /\ \A w \in WaitedOn \ {s} : Expecting(w)' = Expecting(w)
        /\ \A w \in WaitedOn : Parkers(w)' = Parkers(w)
        /\ OnItsStep' /\ HeldInPlace' /\ DelaySteps' /\ DelaysConfigured'
        /\ NotTheOperators'
    BY <1>1, <1>5, <1>8, <2>1, LeavesKeeps
  <2>3. Asleep'
    <3>1. \A u \in Tasks \ {t} : task'[u] = task[u]
      BY <1>8 DEF Becomes, Typed, TypeOK
    <3> QED
      BY <1>1, <1>5, <2>2, <3>1, AsleepStays DEF Expected
  <2>4. Owed'
    <3> SUFFICES ASSUME NEW c \in Sessions
                 PROVE  /\ IsFiniteSet(Expecting(c)')
                        /\ Cardinality(Expecting(c)') <= turns'[c] + Cardinality(NewsOf(c)')
                        /\ Cardinality(Parkers(c)') <= turns'[c]
      BY DEF Owed
    <3>0. Parkers(c)' = Parkers(c)
      BY <1>5, <2>2
    <3>1. CASE c = s
      <4> DEFINE E == Expecting(c)
                 E1 == Expecting(c)'
      <4>1. IsFiniteSet(E) /\ r \in E /\ E1 = E \ {r}
        BY <1>6, <2>2, <3>1
      <4> HIDE DEF E, E1
      <4>2. IsFiniteSet(E1) /\ Cardinality(E1) = Cardinality(E) - 1
        BY <4>1, FS_RemoveElement
      <4>3. IsFiniteSet(Expecting(c)') /\ Cardinality(Expecting(c)') = Cardinality(Expecting(c)) - 1
        BY <4>2 DEF E, E1
      <4> QED
        BY <1>6, <3>0, <3>1, <4>3
    <3>2. CASE c # s
      <4>1. Expecting(c)' = Expecting(c)
        BY <1>5, <2>2, <3>2
      <4> QED
        BY <1>6, <3>0, <3>2, <4>1
    <3> QED
      BY <3>1, <3>2
  <2> QED
    BY <1>5, <2>2, <2>3, <2>4 DEF Expected
<1>9. \/ UNCHANGED task /\ \A r \in Runs : ~Waits(runs[r], s)
      \/ \E r \in Runs : /\ Waits(runs[r], s)
                         /\ \E to, well : Becomes(t, Stepping(r, "agents", to, well))
  BY <1>3, <1>4, ReleasedTakes
<1> QED
  BY <1>1, <1>7, <1>8, <1>9

\* The news of an exit release the run that expects it, and it is the only one there
\* is where terminals are opened.
LEMMA TerminalNewsKeep ==
    ASSUME Typed, Typed', Solo, Expected, ExitsAreOwn, NEW t \in Tasks, TerminalFinished(t)
    PROVE  Expected' /\ (OneRun /\ InHand => InHand')
<1> DEFINE News1 == [terminal: Terminals, ok: BOOLEAN]
<1>1. /\ task[t].pc = "idle" /\ \A u \in Tasks : task[u].by # "terminals"
      /\ termNews # <<>> /\ termNews' = Tail(termNews)
      /\ UNCHANGED <<runs, disk, recovery, turns, agentNews, known>>
  BY DEF TerminalFinished, Free, Busy, store, world
<1>2. /\ DOMAIN termNews = 1 .. Len(termNews) /\ Len(termNews) \in Nat \ {0}
      /\ DOMAIN termNews' = 1 .. (Len(termNews) - 1)
      /\ \A i \in DOMAIN termNews' : i + 1 \in DOMAIN termNews /\ termNews'[i] = termNews[i + 1]
      /\ 1 \in DOMAIN termNews /\ Head(termNews) = termNews[1]
      /\ \A i \in DOMAIN termNews : termNews[i].terminal \in Terminals
  <2>1. termNews \in Seq(News1) /\ termNews' \in Seq(News1)
    BY DEF Typed, TypeOK
  <2>2. /\ Len(termNews') = Len(termNews) - 1
        /\ \A i \in 1 .. Len(termNews') : termNews'[i] = termNews[i + 1]
    BY <1>1, <2>1, HeadTailProperties
  <2> HIDE DEF News1
  <2>3. /\ DOMAIN termNews' = 1 .. Len(termNews') /\ DOMAIN termNews = 1 .. Len(termNews)
        /\ Len(termNews) \in Nat \ {0} /\ Head(termNews) = termNews[1]
        /\ \A i \in DOMAIN termNews : termNews[i] \in News1
    BY <1>1, <2>1
  <2>4. \A i \in DOMAIN termNews : termNews[i].terminal \in Terminals
    BY <2>3 DEF News1
  <2> QED
    BY <2>2, <2>3, <2>4
<1> PICK p \in Terminals : p = Head(termNews).terminal
  BY <1>2
<1>3. Released(t, p, Head(termNews).ok, "terminals") /\ proc' = [proc EXCEPT ![p] = "none"]
  BY DEF TerminalFinished
<1>4. \A r \in Runs : Waits(runs[r], p) => \A u \in Tasks : ~Carries(u, r)
  BY <1>1, <1>2 DEF Waits, ExitsAreOwn
<1>5. /\ p \in WaitedOn /\ p # "delay" /\ p \notin Sessions /\ "delay" \in WaitedOn
      /\ \A c \in Sessions : c \in WaitedOn /\ c # p
      /\ \A q \in Terminals : q \in WaitedOn
  BY WaitedOnLemma
<1>6. CASE UNCHANGED task /\ \A r \in Runs : ~Waits(runs[r], p)
  <2>1. \A r \in Runs : DelayStep(disk'[r]) /\ DelayStep(recovery'.rows[r])
    BY <1>1 DEF Expected, DelaySteps
  <2>2. /\ \A w : Expecting(w)' = Expecting(w) /\ Parkers(w)' = Parkers(w)
        /\ OnItsStep' /\ HeldInPlace' /\ DelaySteps' /\ DelaysConfigured'
        /\ Asleep' /\ NotTheOperators'
    BY <1>1, <1>6, <2>1, NobodyMoves
  <2>3. Owed'
    BY <1>1, <2>2, OwedAllStays DEF Expected
  <2>4. ~InHand
    <3>1. Expecting(p) \subseteq Parkers(p)
      BY <1>6 DEF Expecting
    <3>2. termNews[1].terminal = p
      BY <1>2
    <3> QED
      BY <1>2, <3>1, <3>2 DEF InHand
  <2> QED
    BY <2>2, <2>3, <2>4 DEF Expected
<1>7. ASSUME NEW r \in Runs, Waits(runs[r], p), NEW to, NEW well,
             Becomes(t, Stepping(r, "terminals", to, well))
      PROVE  Expected' /\ (OneRun /\ InHand => InHand')
  <2>1. "terminals" # "operator" /\ task[t].pc \in {"idle", "sleep"}
        /\ \A u \in Tasks : ~Carries(u, r)
    BY <1>1, <1>4, <1>7
  <2>2. /\ r \in Expecting(p) /\ Expecting(p)' = Expecting(p) \ {r}
        /\ \A w \in WaitedOn \ {p} : Expecting(w)' = Expecting(w)
        /\ \A w \in WaitedOn : Parkers(w)' = Parkers(w)
        /\ OnItsStep' /\ HeldInPlace' /\ DelaySteps' /\ DelaysConfigured'
        /\ NotTheOperators'
    BY <1>1, <1>5, <1>7, <2>1, LeavesKeeps
  <2>3. Asleep'
    <3>1. \A u \in Tasks \ {t} : task'[u] = task[u]
      BY <1>7 DEF Becomes, Typed, TypeOK
    <3> QED
      BY <1>1, <1>5, <2>2, <3>1, AsleepStays DEF Expected
  <2>4. Owed'
    BY <1>1, <1>5, <2>2, OwedAllStays DEF Expected
  <2>5. ASSUME OneRun, InHand
        PROVE  InHand'
    <3>1. Expecting(p)' = {}
      <4>1. Expecting(p)' \subseteq Runs
        BY DEF Expecting
      <4> QED
        BY <2>2, <2>5, <4>1 DEF OneRun
    <3>2. proc'[p] = "none" /\ \A w \in Terminals \ {p} : proc'[w] = proc[w]
      BY <1>3 DEF Typed, TypeOK
    <3>3. termNews[1].terminal = p /\ proc[p] = "exited"
      BY <1>2, <2>5 DEF InHand
    <3>4. Parkers(p)' = {}
      BY <1>5, <2>2, <2>5, <3>3 DEF InHand
    <3>5. ASSUME NEW w \in Terminals
          PROVE  /\ proc'[w] # "none" <=> Expecting(w)' # {}
                 /\ Parkers(w)' # {} => proc'[w] = "live"
      <4>1. CASE w = p
        BY <3>1, <3>2, <3>4, <4>1
      <4>2. CASE w # p
        BY <1>5, <2>2, <2>5, <3>2, <4>2 DEF InHand
      <4> QED
        BY <4>1, <4>2
    <3>6. ASSUME NEW i \in DOMAIN termNews'
          PROVE  i + 1 \in DOMAIN termNews /\ i + 1 # 1 /\ termNews'[i] = termNews[i + 1]
      BY <1>2
    <3>7. \A i \in DOMAIN termNews' : proc'[termNews'[i].terminal] = "exited"
      BY <1>2, <2>5, <3>2, <3>3, <3>6 DEF InHand
    <3>8. ASSUME NEW i \in DOMAIN termNews', NEW j \in DOMAIN termNews',
                 termNews'[i].terminal = termNews'[j].terminal
          PROVE  i = j
      <4>1. termNews[i + 1].terminal = termNews[j + 1].terminal
            /\ i + 1 \in DOMAIN termNews /\ j + 1 \in DOMAIN termNews
        BY <3>6, <3>8
      <4>2. i + 1 = j + 1
        BY <2>5, <4>1 DEF InHand
      <4> QED
        BY <1>2, <4>2
    <3> QED
      BY <3>5, <3>7, <3>8 DEF InHand
  <2> QED
    BY <2>2, <2>3, <2>4, <2>5 DEF Expected
<1>8. \/ UNCHANGED task /\ \A r \in Runs : ~Waits(runs[r], p)
      \/ \E r \in Runs : /\ Waits(runs[r], p)
                         /\ \E to, well : Becomes(t, Stepping(r, "terminals", to, well))
  BY <1>3, <1>4, ReleasedTakes
<1> QED
  BY <1>6, <1>7, <1>8

\* A run that was not there is put in the map, and only a sleeper may leave it
\* waiting.
LEMMA EnterKeeps ==
    ASSUME Typed, Typed', Solo, Expected, NEW r \in Runs, NEW next,
           UNCHANGED <<turns, agentNews, known>>, runs[r] = Absent,
           \A u \in Tasks : task[u].pc # "idle" => task[u].run # r,
           \A q \in Runs \ {r} : \/ runs'[q] = runs[q]
                                 \/ runs[q].is = "finished" /\ runs'[q] = Absent,
           \A u \in Tasks : \/ task'[u] = task[u]
                            \/ task[u].pc = "idle" /\ task'[u] = next,
           \A q \in Runs : Carrying(next, q) => q = r, \A w : ~ParksFor(next, w),
           next.pc \notin {"insert", "open"}, DelayStep(next.held),
           next.pc = "sleep" => next.by = "none",
           Carrying(next, r) /\ runs'[r].is = "waiting" => next.by # "operator",
           \A q \in Runs : DelayStep(disk'[q]) /\ DelayStep(recovery'.rows[q]),
           DelayStep(runs'[r]),
           \A w \in WaitedOn : Waits(runs'[r], w) =>
               \/ \E u \in Tasks : Carrying(task'[u], r)
               \/ /\ w = "delay" /\ runs'[r].at \in known
                  /\ \E u \in Tasks : task'[u].pc = "sleep" /\ task'[u].run = r
    PROVE  /\ Expected'
           /\ \A p \in Terminals : Expecting(p)' = Expecting(p) /\ Parkers(p)' = Parkers(p)
<1>1. \A u \in Tasks : ~Carrying(task[u], r) /\ (task[u].pc = "idle" => \A q : ~Carrying(task[u], q))
  BY DEF Carrying
<1>2. ASSUME NEW q \in Runs \ {r}, NEW u \in Tasks
      PROVE  /\ Carrying(task'[u], q) <=> Carrying(task[u], q)
             /\ Carrying(task[u], q) => task'[u] = task[u]
  BY <1>1
<1>3. \A u \in Tasks : \A w : ~(Carrying(task'[u], r) /\ ParksFor(task'[u], w))
  BY <1>1
<1>4. Absent.is = "absent"
  BY DEF Absent
<1>5. \A q \in Runs \ {r} : \A w : Waits(runs'[q], w) <=> Waits(runs[q], w)
  BY <1>4 DEF Waits
<1>6. \A w : ~Waits(runs[r], w)
  BY <1>4 DEF Waits
<1>7. ASSUME NEW w, NEW q \in Runs
      PROVE  q \in Parkers(w)' <=> q \in Parkers(w)
  <2>1. CASE q = r
    BY <1>1, <1>3, <2>1 DEF Parkers, Carries
  <2>2. CASE q # r
    BY <1>2, <2>2 DEF Parkers, Carries
  <2> QED
    BY <2>1, <2>2
<1>8. ASSUME NEW w, NEW q \in Runs \ {r}
      PROVE  q \in Expecting(w)' <=> q \in Expecting(w)
  <2>1. \A u \in Tasks : Carrying(task'[u], q) <=> Carrying(task[u], q)
    BY <1>2
  <2> QED
    BY <1>5, <1>7, <2>1 DEF Expecting, Carries
<1>9. ASSUME NEW w \in WaitedOn
      PROVE  /\ r \notin Expecting(w)
             /\ r \in Expecting(w)' =>
                  /\ w = "delay" /\ runs'[r].at \in known /\ Graph[runs'[r].at].kind = "delay"
                  /\ \E u \in Tasks : task'[u].pc = "sleep" /\ task'[u].run = r
  <2>1. r \notin Parkers(w) /\ r \notin Parkers(w)'
    BY <1>1, <1>7 DEF Parkers, Carries
  <2>2. r \notin Expecting(w)
    BY <1>6, <2>1 DEF Expecting
  <2>3. ASSUME r \in Expecting(w)'
        PROVE  /\ w = "delay" /\ runs'[r].at \in known /\ Graph[runs'[r].at].kind = "delay"
               /\ \E u \in Tasks : task'[u].pc = "sleep" /\ task'[u].run = r
    <3>1. Waits(runs'[r], w) /\ \A u \in Tasks : ~Carrying(task'[u], r)
      BY <2>1, <2>3 DEF Expecting, Carries
    <3> QED
      BY <3>1 DEF DelayStep
  <2> QED
    BY <2>2, <2>3
<1>10. \A w : /\ Expecting(w)' \subseteq Runs /\ Expecting(w) \subseteq Runs
              /\ Parkers(w)' \subseteq Runs /\ Parkers(w) \subseteq Runs
  BY DEF Expecting, Parkers
<1>11. \A w : Parkers(w)' = Parkers(w)
  <2> TAKE w
  <2>1. Parkers(w)' \subseteq Runs /\ Parkers(w) \subseteq Runs
    BY <1>10
  <2>2. \A q \in Runs : q \in Parkers(w)' <=> q \in Parkers(w)
    BY <1>7
  <2> QED
    BY <2>1, <2>2
<1>12. \A w \in WaitedOn \ {"delay"} : Expecting(w)' = Expecting(w)
  <2> TAKE w \in WaitedOn \ {"delay"}
  <2>1. Expecting(w)' \subseteq Runs /\ Expecting(w) \subseteq Runs
    BY <1>10
  <2>2. \A q \in Runs \ {r} : q \in Expecting(w)' <=> q \in Expecting(w)
    BY <1>8
  <2>3. r \notin Expecting(w) /\ r \notin Expecting(w)'
    BY <1>9
  <2> QED
    BY <2>1, <2>2, <2>3
<1>13. \A c \in Sessions \cup Terminals : Expecting(c)' = Expecting(c)
  BY <1>12, WaitedOnLemma
<1>14. ASSUME NEW q \in Runs \ {r}, NEW u \in Tasks, Carrying(task[u], q)
       PROVE  runs'[q] = runs[q]
  BY <1>14 DEF Solo, CarriedIsLive, Carries, Live
<1>15. OnItsStep'
  <2> SUFFICES ASSUME NEW w \in WaitedOn, NEW q \in Expecting(w)'
               PROVE  runs'[q].at \in known' /\ Graph[runs'[q].at].kind \in KindsOf(w)
    BY DEF OnItsStep, WaitedOn, KindsOf
  <2>1. CASE q = r
    BY <1>9, <2>1 DEF KindsOf
  <2>2. CASE q # r
    <3>1. q \in Expecting(w) /\ q \in Runs
      BY <1>8, <1>10, <2>2
    <3>2. runs'[q] = runs[q]
      <4>1. CASE q \in Parkers(w)
        BY <1>14, <2>2, <3>1, <4>1 DEF Parkers, Carries
      <4>2. CASE Waits(runs[q], w)
        BY <2>2, <3>1, <4>2 DEF Waits
      <4> QED
        BY <3>1, <4>1, <4>2 DEF Expecting
    <3> QED
      BY <3>1, <3>2 DEF Expected, OnItsStep
  <2> QED
    BY <2>1, <2>2
<1>16. Asleep'
  <2> SUFFICES ASSUME NEW q \in Expecting("delay")'
               PROVE  \E u \in Tasks : task'[u].pc = "sleep" /\ task'[u].run = q
    BY DEF Asleep
  <2>1. CASE q = r
    BY <1>9, <2>1, WaitedOnLemma
  <2>2. CASE q # r
    <3>1. q \in Expecting("delay")
      BY <1>8, <1>10, <2>2
    <3>2. PICK u \in Tasks : task[u].pc = "sleep" /\ task[u].run = q
      BY <3>1 DEF Expected, Asleep
    <3> QED
      BY <3>2
  <2> QED
    BY <2>1, <2>2
<1>17. Owed'
  BY <1>11, <1>13, OwedAllStays DEF Expected
<1>18. HeldInPlace'
  <2>1. ASSUME NEW u \in Tasks, task'[u].pc = "insert", task'[u].held.is = "waiting"
        PROVE  task'[u].held.at = runs'[task'[u].run].at
    <3>1. task'[u] = task[u] /\ task[u].pc = "insert"
      BY <2>1
    <3>2. task[u].run \in Runs /\ Carrying(task[u], task[u].run)
      BY <3>1 DEF Typed, TaskOK, Sound, Carrying
    <3>3. task[u].run # r
      BY <1>1, <3>2
    <3>4. runs'[task[u].run] = runs[task[u].run]
      BY <1>14, <3>2, <3>3
    <3> QED
      BY <2>1, <3>1, <3>4 DEF Expected, HeldInPlace
  <2>2. \A u \in Tasks : task'[u].pc = "open" => task'[u].held.at \in known'
    BY DEF Expected, HeldInPlace
  <2> QED
    BY <2>1, <2>2 DEF HeldInPlace
<1>19. DelaySteps'
  <2>1. \A u \in Tasks : DelayStep(task'[u].held)
    BY DEF Expected, DelaySteps
  <2>2. \A q \in Runs : DelayStep(runs'[q])
    BY DelayShapes DEF Expected, DelaySteps
  <2> QED
    BY <2>1, <2>2 DEF DelaySteps
<1>20. DelaysConfigured'
  BY DEF Expected, DelaysConfigured
<1>21. NotTheOperators'
  <2>1. \A u \in Tasks : task'[u].pc = "sleep" => task'[u].by = "none"
    BY DEF Expected, NotTheOperators
  <2>2. ASSUME NEW u \in Tasks, NEW q \in Runs, Carrying(task'[u], q), runs'[q].is = "waiting",
               runs'[q].on # "approval"
        PROVE  task'[u].by # "operator"
    <3>1. CASE q = r
      <4>1. task'[u] = next
        BY <1>1, <2>2, <3>1
      <4> QED
        BY <2>2, <3>1, <4>1
    <3>2. CASE q # r
      <4>1. Carrying(task[u], q) /\ task'[u] = task[u]
        BY <1>2, <2>2, <3>2
      <4>2. runs'[q] = runs[q]
        BY <1>14, <3>2, <4>1
      <4> QED
        BY <2>2, <4>1, <4>2 DEF Expected, NotTheOperators, Carries
    <3> QED
      BY <3>1, <3>2
  <2> QED
    BY <2>1, <2>2 DEF NotTheOperators, Carries
<1> QED
  BY <1>11, <1>13, <1>15, <1>16, <1>17, <1>18, <1>19, <1>20, <1>21 DEF Expected

LEMMA ResumeKeeps ==
    ASSUME Typed, Typed', Solo, Expected, Resume
    PROVE  /\ Expected' /\ UNCHANGED <<proc, termNews>>
           /\ \A p \in Terminals : Expecting(p)' = Expecting(p) /\ Parkers(p)' = Parkers(p)
<1>1. /\ UNCHANGED <<turns, agentNews, known>> /\ UNCHANGED disk
      /\ UNCHANGED <<proc, termNews>>
  BY DEF Resume, ReadUnfinished, PickUpApproval, PickUpGone, PickUpStep, PickUpDelay,
         store, workers, world
<1>2. CASE ReadUnfinished
  <2>0. ASSUME NEW r \in Runs
        PROVE  recovery'.rows[r] \in {disk[r], Absent, recovery.rows[r]}
    <3>1. CASE recovery' = [read |-> TRUE, rows |-> recovery.rows]
      BY <3>1
    <3>2. CASE recovery' = [read |-> TRUE,
                            rows |-> [q \in Runs |-> IF Live(disk[q]) THEN disk[q] ELSE Absent]]
      <4>1. recovery'.rows = [q \in Runs |-> IF Live(disk[q]) THEN disk[q] ELSE Absent]
        BY <3>2
      <4>2. recovery'.rows[r] = IF Live(disk[r]) THEN disk[r] ELSE Absent
        BY <4>1
      <4> QED
        BY <4>2
    <3> QED
      BY <1>2, <3>1, <3>2 DEF ReadUnfinished
  <2>1. \A r \in Runs : recovery'.rows[r] \in {disk[r], Absent, recovery.rows[r]}
    BY <2>0
  <2>2. \A r \in Runs : DelayStep(disk'[r]) /\ DelayStep(recovery'.rows[r])
    BY <1>1, <2>1, DelayShapes DEF Expected, DelaySteps
  <2>3. UNCHANGED <<runs, task, known>>
    BY <1>1, <1>2 DEF ReadUnfinished
  <2>4. /\ \A w : Expecting(w)' = Expecting(w) /\ Parkers(w)' = Parkers(w)
        /\ OnItsStep' /\ HeldInPlace' /\ DelaySteps' /\ DelaysConfigured'
        /\ Asleep' /\ NotTheOperators'
    BY <2>2, <2>3, NobodyMoves
  <2>5. Owed'
    BY <1>1, <2>4, OwedAllStays DEF Expected
  <2> QED
    BY <1>1, <2>4, <2>5 DEF Expected
<1>3. ASSUME NEW r \in Runs, PicksUp(r)
      PROVE  /\ runs[r] = Absent /\ \A u \in Tasks : task[u].pc # "idle" => task[u].run # r
             /\ recovery.rows[r] \in Run /\ Live(recovery.rows[r])
             /\ \A q \in Runs : DelayStep(disk'[q]) /\ DelayStep(recovery'.rows[q])
             /\ DelayStep(recovery.rows[r])
             /\ \A q \in Runs : runs[q] \in Run
  <2>1. recovery.rows[r] # Absent /\ recovery.rows \in [Runs -> Run]
        /\ recovery'.rows = [recovery.rows EXCEPT ![r] = Absent]
    BY <1>3 DEF PicksUp, Typed, TypeOK
  <2>2. \A q \in Runs : DelayStep(recovery'.rows[q])
    BY <2>1, DelayShapes DEF Expected, DelaySteps
  <2> QED
    BY <1>1, <2>1, <2>2 DEF Solo, Unpicked, Expected, DelaySteps, Typed, TypeOK
<1>4. CASE \E t \in Tasks, r \in Runs : PickUpGone(t, r)
  <2> PICK t \in Tasks, r \in Runs : PickUpGone(t, r)
    BY <1>4
  <2> DEFINE run == Ended(recovery.rows[r], "failed")
             next == Working("record", r, run, "resume")
  <2>1. PicksUp(r) /\ task[t].pc = "idle" /\ Remembered(r, run) /\ Becomes(t, next)
    BY DEF PickUpGone, Free
  <2>2. run \in Run /\ run.is = "finished" /\ DelayStep(run)
    BY <1>3, <2>1, RecordLemma, DelayShapes DEF Outcomes
  <2>3. /\ next.pc = "record" /\ next.held = run
        /\ \A q : ~Carrying(next, q) /\ \A w : ~ParksFor(next, w)
    BY <2>2, ShapesLemma, DelayShapes
  <2> HIDE DEF run, next
  <2>4. /\ \A q \in Runs \ {r} : \/ runs'[q] = runs[q]
                                 \/ runs[q].is = "finished" /\ runs'[q] = Absent
        /\ runs'[r] = run \/ runs'[r] = Absent
    BY <2>1, <2>2, RememberedOthers DEF Typed
  <2>5. DelayStep(runs'[r]) /\ \A w : ~Waits(runs'[r], w)
    BY <2>2, <2>4, DelayShapes DEF Waits, Absent
  <2>6. \A u \in Tasks : task'[u] = task[u] \/ (task[u].pc = "idle" /\ task'[u] = next)
    BY <2>1 DEF Becomes, Typed, TypeOK
  <2> QED
    BY <1>1, <1>3, <2>1, <2>2, <2>3, <2>4, <2>5, <2>6, EnterKeeps
<1>5. ASSUME NEW r \in Runs, PicksUp(r), runs' = [runs EXCEPT ![r] = recovery.rows[r]]
      PROVE  runs'[r] = recovery.rows[r] /\ \A q \in Runs \ {r} : runs'[q] = runs[q]
  BY <1>5 DEF Typed, TypeOK
<1>6. CASE \E t \in Tasks, r \in Runs : PickUpStep(t, r)
  <2> PICK t \in Tasks, r \in Runs : PickUpStep(t, r)
    BY <1>6
  <2> DEFINE next == Driving(r)
  <2>1. PicksUp(r) /\ task[t].pc = "idle" /\ Becomes(t, next)
        /\ runs' = [runs EXCEPT ![r] = recovery.rows[r]]
    BY DEF PickUpStep, Free
  <2>2. /\ next.pc = "loop" /\ next.by = "none" /\ DelayStep(next.held)
        /\ \A q : Carrying(next, q) <=> q = r
        /\ \A w : ~ParksFor(next, w)
    <3>1. /\ next.pc = "loop" /\ next.by = "none" /\ next.held = Absent
          /\ DelayStep(Absent)
      BY DelayShapes
    <3>2. \A q : Carrying(next, q) <=> q = r
      BY ShapesLemma
    <3> HIDE DEF next
    <3>3. \A w : ~ParksFor(next, w)
      BY <3>1 DEF ParksFor
    <3> QED
      BY <3>1, <3>2, <3>3
  <2> HIDE DEF next
  <2>3. /\ task'[t] = next
        /\ \A u \in Tasks : task'[u] = task[u] \/ (task[u].pc = "idle" /\ task'[u] = next)
    BY <2>1 DEF Becomes, Typed, TypeOK
  <2>4. runs'[r] = recovery.rows[r] /\ \A q \in Runs \ {r} : runs'[q] = runs[q]
    BY <1>5, <2>1
  <2>5. \E u \in Tasks : Carrying(task'[u], r)
    BY <2>2, <2>3
  <2> QED
    BY <1>1, <1>3, <2>1, <2>2, <2>3, <2>4, <2>5, EnterKeeps
<1>7. CASE \E t \in Tasks, r \in Runs : PickUpDelay(t, r)
  <2> PICK t \in Tasks, r \in Runs : PickUpDelay(t, r)
    BY <1>7
  <2> DEFINE next == Sleeping(r)
  <2>1. PicksUp(r) /\ task[t].pc = "idle" /\ Becomes(t, next) /\ Start \in known
        /\ runs' = [runs EXCEPT ![r] = recovery.rows[r]] /\ Waits(recovery.rows[r], "delay")
    BY DEF PickUpDelay, Free, Configured
  <2>2. /\ next.pc = "sleep" /\ next.by = "none" /\ DelayStep(next.held) /\ next.run = r
        /\ \A q : ~Carrying(next, q)
        /\ \A w : ~ParksFor(next, w)
    <3>1. /\ next.pc = "sleep" /\ next.by = "none" /\ next.held = Absent /\ next.run = r
          /\ DelayStep(Absent)
      BY DelayShapes
    <3> HIDE DEF next
    <3> QED
      BY <3>1 DEF Carrying, ParksFor
  <2> HIDE DEF next
  <2>3. /\ task'[t] = next
        /\ \A u \in Tasks : task'[u] = task[u] \/ (task[u].pc = "idle" /\ task'[u] = next)
    BY <2>1 DEF Becomes, Typed, TypeOK
  <2>4. runs'[r] = recovery.rows[r] /\ \A q \in Runs \ {r} : runs'[q] = runs[q]
    BY <1>5, <2>1
  <2>5. runs'[r].at \in known
    <3>1. Graph[recovery.rows[r].at].kind = "delay" /\ recovery.rows[r].at \in Nodes
      BY <1>3, <2>1 DEF DelayStep, Run
    <3> QED
      BY <2>1, <2>4, <3>1 DEF Expected, DelaysConfigured
  <2>6. \A w : Waits(runs'[r], w) => w = "delay"
    BY <2>1, <2>4 DEF Waits
  <2>7. \E u \in Tasks : task'[u].pc = "sleep" /\ task'[u].run = r
    BY <2>2, <2>3
  <2> QED
    BY <1>1, <1>3, <2>1, <2>2, <2>3, <2>4, <2>5, <2>6, <2>7, EnterKeeps
<1>8. CASE \E r \in Runs : PickUpApproval(r)
  <2> PICK r \in Runs : PickUpApproval(r)
    BY <1>8
  <2>1. PicksUp(r) /\ task' = task /\ Waits(recovery.rows[r], "approval")
        /\ runs' = [runs EXCEPT ![r] = recovery.rows[r]]
    BY DEF PickUpApproval
  <2>2. /\ Idle.pc = "idle" /\ Idle.by = "none" /\ DelayStep(Idle.held)
        /\ \A q : ~Carrying(Idle, q) /\ \A w : ~ParksFor(Idle, w)
    BY ShapesLemma, DelayShapes
  <2>3. \A u \in Tasks : task'[u] = task[u]
    BY <2>1
  <2>4. runs'[r] = recovery.rows[r] /\ \A q \in Runs \ {r} : runs'[q] = runs[q]
    BY <1>5, <2>1
  <2>5. \A w \in WaitedOn : ~Waits(runs'[r], w)
    BY <2>1, <2>4, WaitedOnLemma DEF Waits
  <2> QED
    BY <1>1, <1>3, <2>1, <2>2, <2>3, <2>4, <2>5, EnterKeeps
<1> QED
  BY <1>2, <1>4, <1>6, <1>7, <1>8 DEF Resume

\* The operator starts a run, answers one, or a call of his is dropped: he has none
\* in his hands that waits for a worker.
LEMMA OperatorKeeps ==
    ASSUME Typed, Typed', Solo, Expected, NothingCancels, OneCallAtATime, Operator
    PROVE  /\ Expected' /\ UNCHANGED <<proc, termNews>>
           /\ \A p \in Terminals : Expecting(p)' = Expecting(p) /\ Parkers(p)' = Parkers(p)
<1>0. ~\E t \in Tasks, r \in Runs : Cancel(t, r)
  BY DEF Cancel, NothingCancels
<1>1. /\ UNCHANGED <<turns, agentNews, known>> /\ UNCHANGED recovery
      /\ UNCHANGED <<proc, termNews>>
  BY <1>0 DEF Operator, StartRun, Answer, CallDropped, workers, world
<1>2. CASE \E t \in Tasks, r \in Runs : StartRun(t, r)
  <2> PICK t \in Tasks, r \in Runs : StartRun(t, r)
    BY <1>2
  <2> DEFINE next == Working("record", r, Beginning, "operator")
  <2>1. /\ task[t].pc = "idle" /\ runs[r] = Absent /\ \A u \in Tasks : task[u].run # r
        /\ Remembered(r, Beginning) /\ Becomes(t, next) /\ disk' = disk
    BY DEF StartRun, Called, Free, Fresh, store
  <2>2. Beginning \in Run /\ Beginning.is = "running" /\ DelayStep(Beginning)
    BY RecordLemma, DelayShapes DEF Beginning
  <2>3. /\ next.pc = "record" /\ next.held = Beginning
        /\ \A q : Carrying(next, q) <=> q = r
    <3>1. next.pc = "record" /\ next.held = Beginning /\ next.run = r
      BY DEF Working
    <3> HIDE DEF next
    <3> QED
      BY <2>2, <3>1 DEF Carrying
  <2> HIDE DEF next
  <2>4. /\ \A q \in Runs \ {r} : \/ runs'[q] = runs[q]
                                 \/ runs[q].is = "finished" /\ runs'[q] = Absent
        /\ runs'[r] = Beginning
    BY <2>1, <2>2, RememberedOthers DEF Typed
  <2>5. \A w : ~Waits(runs'[r], w) /\ ~ParksFor(next, w)
    BY <2>2, <2>3, <2>4 DEF Waits, ParksFor
  <2>6. \A u \in Tasks : task'[u] = task[u] \/ (task[u].pc = "idle" /\ task'[u] = next)
    BY <2>1 DEF Becomes, Typed, TypeOK
  <2>7. \A q \in Runs : DelayStep(disk'[q]) /\ DelayStep(recovery'.rows[q])
    BY <1>1, <2>1 DEF Expected, DelaySteps
  <2> QED
    BY <1>1, <2>1, <2>2, <2>3, <2>4, <2>5, <2>6, <2>7, EnterKeeps
<1>3. ASSUME NEW t \in Tasks, NEW next, Becomes(t, next), runs' = runs,
             task[t].pc # "sleep",
             next.pc \notin {"sleep", "insert", "open"}, DelayStep(next.held),
             \A r \in Runs : DelayStep(disk'[r]),
             \A r \in Runs : Carrying(next, r) => runs[r].on = "approval",
             \A r \in Runs, w \in WaitedOn :
               /\ (Carrying(next, r) <=> Carrying(task[t], r)) \/ ~Waits(runs[r], w)
               /\ Carrying(next, r) /\ ParksFor(next, w)
                     <=> Carrying(task[t], r) /\ ParksFor(task[t], w)
      PROVE  /\ Expected'
             /\ \A p \in Terminals : Expecting(p)' = Expecting(p) /\ Parkers(p)' = Parkers(p)
  <2>1. Quietly
    BY <1>1, <1>3, TurnQuietly
  <2>2. OnItsStep' /\ Asleep' /\ Owed'
    BY <2>1, QuietKeeps DEF Expected
  <2>3. HeldInPlace' /\ DelaySteps' /\ DelaysConfigured' /\ NotTheOperators'
    BY <1>1, <1>3, RestKeeps DEF Expected
  <2>4. task'[t] = next /\ \A u \in Tasks \ {t} : task'[u] = task[u]
    BY <1>3 DEF Becomes, Typed, TypeOK
  <2>5. ASSUME NEW p \in Terminals
        PROVE  Expecting(p)' = Expecting(p) /\ Parkers(p)' = Parkers(p)
    <3>1. Expecting(p)' = Expecting(p)
      BY <2>1, WaitedOnLemma DEF Quietly
    <3>2. ASSUME NEW r \in Runs
          PROVE  r \in Parkers(p)' <=> r \in Parkers(p)
      <4>1. Carrying(task'[t], r) /\ ParksFor(task'[t], p)
               <=> Carrying(task[t], r) /\ ParksFor(task[t], p)
        BY <1>3, <2>4, WaitedOnLemma
      <4> QED
        BY <2>4, <4>1 DEF Parkers, Carries
    <3>3. Parkers(p)' \subseteq Runs /\ Parkers(p) \subseteq Runs
      BY DEF Parkers
    <3> QED
      BY <3>1, <3>2, <3>3
  <2> QED
    BY <2>2, <2>3, <2>5 DEF Expected
<1>4. CASE \E t \in Tasks, r \in Runs, allow \in BOOLEAN : Answer(t, r, allow)
  <2> PICK t \in Tasks, r \in Runs, allow \in BOOLEAN : Answer(t, r, allow)
    BY <1>4
  <2>1. /\ task[t].pc = "idle" /\ Waits(runs[r], "approval") /\ Calls < MaxCalls
        /\ runs' = runs /\ disk' = disk
        /\ \E to : Becomes(t, Stepping(r, "operator", to, allow))
    BY DEF Answer, Called, Free, store
  <2> PICK to : Becomes(t, Stepping(r, "operator", to, allow))
    BY <2>1
  <2> DEFINE next == Stepping(r, "operator", to, allow)
  <2>2. /\ next.pc = "step" /\ DelayStep(next.held)
        /\ \A q : Carrying(next, q) <=> q = r
        /\ \A w : ~ParksFor(next, w)
    BY ShapesLemma, DelayShapes
  <2>3. Becomes(t, next)
    OBVIOUS
  <2> HIDE DEF next
  <2>4. \A q : ~Carrying(task[t], q)
    BY <2>1 DEF Carrying
  <2>5. \A w \in WaitedOn : ~Waits(runs[r], w)
    BY <2>1, WaitedOnLemma DEF Waits
  <2>6. \A q \in Runs : DelayStep(disk'[q])
    BY <2>1 DEF Expected, DelaySteps
  <2>7. \A q \in Runs : Carrying(next, q) => runs[q].on = "approval"
    BY <2>1, <2>2 DEF Waits
  <2>8. \A q \in Runs, w \in WaitedOn :
               /\ (Carrying(next, q) <=> Carrying(task[t], q)) \/ ~Waits(runs[q], w)
               /\ Carrying(next, q) /\ ParksFor(next, w)
                     <=> Carrying(task[t], q) /\ ParksFor(task[t], w)
    BY <2>2, <2>4, <2>5
  <2> QED
    BY <1>1, <1>3, <2>1, <2>2, <2>3, <2>6, <2>7, <2>8
<1>5. CASE \E t \in Tasks : CallDropped(t)
  <2> PICK t \in Tasks : CallDropped(t)
    BY <1>5
  <2>1. /\ task[t].by = "operator" /\ Becomes(t, Idle) /\ runs' = runs
        /\ disk' = disk \/ disk' = [disk EXCEPT ![task[t].run] = task[t].held]
    BY DEF CallDropped, Saved
  <2>2. task[t].pc # "sleep"
    BY <2>1 DEF Expected, NotTheOperators
  <2>3. Idle.pc = "idle" /\ DelayStep(Idle.held) /\ \A q : ~Carrying(Idle, q)
    BY ShapesLemma, DelayShapes
  <2>4. \A q \in Runs : DelayStep(disk'[q])
    <3> TAKE q \in Runs
    <3>1. disk'[q] = disk[q] \/ disk'[q] = task[t].held
      BY <2>1 DEF Typed, TypeOK
    <3> QED
      BY <3>1 DEF Expected, DelaySteps
  <2>5. \A w : ~ParksFor(task[t], w)
    BY <2>1 DEF Solo, DriversOwn, Drives, ParksFor
  <2>6. \A q \in Runs, w \in WaitedOn : Carrying(task[t], q) => ~Waits(runs[q], w)
    BY <2>1, WaitedOnLemma DEF Expected, NotTheOperators, Carries, Waits
  <2>7. \A q \in Runs, w \in WaitedOn :
               /\ (Carrying(Idle, q) <=> Carrying(task[t], q)) \/ ~Waits(runs[q], w)
               /\ Carrying(Idle, q) /\ ParksFor(Idle, w)
                     <=> Carrying(task[t], q) /\ ParksFor(task[t], w)
    BY <2>3, <2>5, <2>6
  <2> QED
    BY <1>1, <1>3, <2>1, <2>2, <2>3, <2>4, <2>7
<1> QED
  BY <1>0, <1>2, <1>4, <1>5 DEF Operator

LEMMA NewsCome ==
    ASSUME Typed, NEW s \in Sessions, NEW state, agentNews' = Append(agentNews, News(s, state)),
           Typed', NEW c
    PROVE  Cardinality(NewsOf(c)') = IF c = s THEN Cardinality(NewsOf(c)) + 1
                                              ELSE Cardinality(NewsOf(c))
<1> DEFINE News1 == [session: Sessions, state: {"completed", "failed", "waiting_approval"}]
           n == Len(agentNews)
           new == News(s, state)
<1>1. /\ agentNews \in Seq(News1)
      /\ new.session = s
  BY DEF Typed, TypeOK, News
<1> HIDE DEF News1, new
<1>2. agentNews' = Append(agentNews, new)
  BY DEF new
<1>3. /\ n \in Nat /\ DOMAIN agentNews = 1 .. n /\ DOMAIN agentNews' = 1 .. (n + 1)
      /\ agentNews'[n + 1] = new /\ \A i \in 1 .. n : agentNews'[i] = agentNews[i]
  BY <1>1, <1>2
<1> HIDE DEF n
<1>4. CASE c = s
  <2> DEFINE E == NewsOf(c)
             E1 == NewsOf(c)'
  <2>1. E1 = E \cup {n + 1} /\ n + 1 \notin E
    BY <1>1, <1>3, <1>4 DEF NewsOf
  <2>2. IsFiniteSet(E)
    BY NewsAreCounted
  <2> HIDE DEF E, E1
  <2>3. Cardinality(E1) = Cardinality(E) + 1
    BY <2>1, <2>2, FS_AddElement
  <2> QED
    BY <1>4, <2>3 DEF E, E1
<1>5. CASE c # s
  <2>1. NewsOf(c)' = NewsOf(c)
    BY <1>1, <1>3, <1>5 DEF NewsOf
  <2> QED
    BY <1>5, <2>1
<1> QED
  BY <1>4, <1>5

\* A turn that ends is one turn less and one piece of news more, and nobody is still
\* to be parked for it; a question is only news.
LEMMA SessionKeeps ==
    ASSUME Typed, Typed', Expected, NothingHasty, NEW s \in Sessions, NEW state,
           TurnEnds(s, state) \/ (AgentAsks(s) /\ state = "waiting_approval")
    PROVE  /\ Expected' /\ UNCHANGED <<proc, termNews>>
           /\ \A p \in Terminals : Expecting(p)' = Expecting(p) /\ Parkers(p)' = Parkers(p)
<1>1. /\ UNCHANGED <<runs, task, known>> /\ UNCHANGED <<disk, recovery>>
      /\ UNCHANGED <<proc, termNews>>
      /\ agentNews' = Append(agentNews, News(s, state))
      /\ \A c \in Sessions \ {s} : turns'[c] = turns[c]
      /\ turns[s] > 0
      /\ turns'[s] \in {turns[s], turns[s] - 1}
      /\ \A t \in Tasks : ~ParksFor(task[t], s)
  BY DEF TurnEnds, AgentAsks, store, world, Typed, TypeOK, NothingHasty, InTime, Awaited,
         ParksFor
<1>2. \A r \in Runs : DelayStep(disk'[r]) /\ DelayStep(recovery'.rows[r])
  BY <1>1 DEF Expected, DelaySteps
<1>3. /\ \A w : Expecting(w)' = Expecting(w) /\ Parkers(w)' = Parkers(w)
      /\ OnItsStep' /\ HeldInPlace' /\ DelaySteps' /\ DelaysConfigured'
      /\ Asleep' /\ NotTheOperators'
  BY <1>1, <1>2, NobodyMoves
<1>4. Owed'
  <2> SUFFICES ASSUME NEW c \in Sessions
               PROVE  /\ IsFiniteSet(Expecting(c)')
                      /\ Cardinality(Expecting(c)') <= turns'[c] + Cardinality(NewsOf(c)')
                      /\ Cardinality(Parkers(c)') <= turns'[c]
    BY DEF Owed
  <2>1. Expecting(c)' = Expecting(c) /\ Parkers(c)' = Parkers(c)
    BY <1>3
  <2>2. /\ IsFiniteSet(Expecting(c)) /\ turns[c] \in Nat /\ turns'[c] \in Nat
        /\ Cardinality(Expecting(c)) <= turns[c] + Cardinality(NewsOf(c))
        /\ Cardinality(Parkers(c)) <= turns[c]
    BY DEF Expected, Owed, Typed, TypeOK
  <2>3. Cardinality(Expecting(c)) \in Nat
    BY <2>2, FS_CardinalityType
  <2>4. Cardinality(NewsOf(c)) \in Nat
    BY NewsAreCounted
  <2>5. Cardinality(NewsOf(c)') = IF c = s THEN Cardinality(NewsOf(c)) + 1
                                           ELSE Cardinality(NewsOf(c))
    BY <1>1, NewsCome
  <2>6. CASE c = s
    <3>1. Parkers(c) = {}
      BY <1>1, <2>6 DEF Parkers
    <3>2. Cardinality(Parkers(c)) = 0
      BY <3>1, FS_EmptySet
    <3> QED
      BY <1>1, <2>1, <2>2, <2>3, <2>4, <2>5, <2>6, <3>2
  <2>7. CASE c # s
    BY <1>1, <2>1, <2>2, <2>5, <2>7
  <2> QED
    BY <2>6, <2>7
<1> QED
  BY <1>1, <1>3, <1>4 DEF Expected

\* A process that ends was expected, by a run that is parked.
LEMMA ExitKeeps ==
    ASSUME Typed, Typed', Expected, NothingHasty, NEW p \in Terminals, NEW ok,
           ProcessExits(p, ok)
    PROVE  Expected' /\ (InHand => InHand')
<1> DEFINE News1 == [terminal: Terminals, ok: BOOLEAN]
           n == Len(termNews)
           new == [terminal |-> p, ok |-> ok]
<1>1. /\ UNCHANGED <<runs, task, known>> /\ UNCHANGED <<disk, recovery>>
      /\ UNCHANGED <<turns, agentNews>>
      /\ termNews' = Append(termNews, new)
      /\ proc' = [proc EXCEPT ![p] = "exited"] /\ proc[p] \in {"live", "dying"}
      /\ \A t \in Tasks : ~ParksFor(task[t], p)
  BY DEF ProcessExits, store, world, NothingHasty, InTime, Awaited, ParksFor
<1>2. \A r \in Runs : DelayStep(disk'[r]) /\ DelayStep(recovery'.rows[r])
  BY <1>1 DEF Expected, DelaySteps
<1>3. /\ \A w : Expecting(w)' = Expecting(w) /\ Parkers(w)' = Parkers(w)
      /\ OnItsStep' /\ HeldInPlace' /\ DelaySteps' /\ DelaysConfigured'
      /\ Asleep' /\ NotTheOperators'
  BY <1>1, <1>2, NobodyMoves
<1>4. Owed'
  BY <1>1, <1>3, OwedAllStays DEF Expected
<1>5. ASSUME InHand
      PROVE  InHand'
  <2>1. termNews \in Seq(News1) /\ new.terminal = p
    BY DEF Typed, TypeOK
  <2> HIDE DEF News1, new
  <2>2. /\ n \in Nat /\ DOMAIN termNews = 1 .. n /\ DOMAIN termNews' = 1 .. (n + 1)
        /\ termNews'[n + 1] = new /\ \A i \in 1 .. n : termNews'[i] = termNews[i]
    BY <1>1, <2>1
  <2> HIDE DEF n
  <2>3. proc'[p] = "exited" /\ \A w \in Terminals \ {p} : proc'[w] = proc[w]
    BY <1>1 DEF Typed, TypeOK
  <2>4. Parkers(p) = {}
    BY <1>1 DEF Parkers
  <2>5. ASSUME NEW w \in Terminals
        PROVE  /\ proc'[w] # "none" <=> Expecting(w)' # {}
               /\ Parkers(w)' # {} => proc'[w] = "live"
    <3>1. CASE w = p
      BY <1>1, <1>3, <1>5, <2>3, <2>4, <3>1 DEF InHand
    <3>2. CASE w # p
      BY <1>3, <1>5, <2>3, <3>2 DEF InHand
    <3> QED
      BY <3>1, <3>2
  <2>6. \A i \in 1 .. n : /\ termNews[i].terminal # p
                          /\ proc[termNews[i].terminal] = "exited"
    BY <1>1, <1>5, <2>2 DEF InHand
  <2>7. ASSUME NEW i \in DOMAIN termNews'
        PROVE  /\ i # n + 1 => i \in 1 .. n /\ termNews'[i] = termNews[i]
               /\ i = n + 1 => termNews'[i].terminal = p
    BY <2>1, <2>2
  <2>8. ASSUME NEW i \in DOMAIN termNews'
        PROVE  proc'[termNews'[i].terminal] = "exited"
    <3>1. CASE i = n + 1
      BY <2>3, <2>7, <3>1
    <3>2. CASE i # n + 1
      <4>1. i \in 1 .. n /\ termNews'[i] = termNews[i]
        BY <2>7, <3>2
      <4>2. \A j \in 1 .. n : termNews[j].terminal \in Terminals
        <5>1. \A j \in 1 .. n : termNews[j] \in News1
          BY <2>1, <2>2
        <5> QED
          BY <5>1 DEF News1
      <4> QED
        BY <2>3, <2>6, <4>1, <4>2
    <3> QED
      BY <3>1, <3>2
  <2>9. ASSUME NEW i \in DOMAIN termNews', NEW j \in DOMAIN termNews',
               termNews'[i].terminal = termNews'[j].terminal
        PROVE  i = j
    <3>1. CASE i = n + 1 \/ j = n + 1
      BY <2>6, <2>7, <2>9, <3>1
    <3>2. CASE i # n + 1 /\ j # n + 1
      BY <1>5, <2>2, <2>7, <2>9, <3>2 DEF InHand
    <3> QED
      BY <3>1, <3>2
  <2> QED
    BY <2>5, <2>8, <2>9 DEF InHand
<1> QED
  BY <1>3, <1>4, <1>5 DEF Expected

\* A restart leaves nothing that is expected, and no run asleep on a step that has
\* gone.
LEMMA NothingExpected ==
    ASSUME \A r \in Runs : runs[r] = Absent, \A t \in Tasks : task[t] = Idle
    PROVE  /\ \A w : Expecting(w) = {} /\ Parkers(w) = {}
           /\ OnItsStep /\ Asleep /\ HeldInPlace /\ NotTheOperators
           /\ \A r \in Runs : DelayStep(runs[r])
           /\ \A t \in Tasks : DelayStep(task[t].held)
<1>1. Absent.is = "absent"
  BY DEF Absent
<1>2. \A t \in Tasks, r \in Runs : ~Carries(t, r)
  BY ShapesLemma DEF Carries
<1>3. \A w : Parkers(w) = {}
  BY <1>2 DEF Parkers
<1>4. \A w : Expecting(w) = {}
  BY <1>1, <1>3 DEF Expecting, Waits
<1> QED
  BY <1>2, <1>3, <1>4, DelayShapes DEF OnItsStep, Asleep, HeldInPlace, NotTheOperators

LEMMA NothingOwed ==
    ASSUME \A w : Expecting(w) = {} /\ Parkers(w) = {}, \A s \in Sessions : turns[s] = 0,
           agentNews = <<>>
    PROVE  Owed
<1> SUFFICES ASSUME NEW s \in Sessions
             PROVE  /\ IsFiniteSet(Expecting(s))
                    /\ Cardinality(Expecting(s)) <= turns[s] + Cardinality(NewsOf(s))
                    /\ Cardinality(Parkers(s)) <= turns[s]
  BY DEF Owed
<1>1. NewsOf(s) = {}
  BY DEF NewsOf
<1>2. IsFiniteSet({}) /\ Cardinality({}) = 0
  BY FS_EmptySet
<1>3. Expecting(s) = {} /\ Parkers(s) = {} /\ turns[s] = 0
  OBVIOUS
<1> QED
  BY <1>1, <1>2, <1>3

LEMMA InitExpected == Init => Expected /\ InHand
<1> SUFFICES ASSUME Init PROVE Expected /\ InHand
  OBVIOUS
<1>1. /\ \A r \in Runs : runs[r] = Absent /\ disk[r] = Absent /\ recovery.rows[r] = Absent
      /\ \A t \in Tasks : task[t] = Idle
      /\ \A s \in Sessions : turns[s] = 0
      /\ agentNews = <<>> /\ termNews = <<>> /\ known = Nodes
      /\ \A p \in Terminals : proc[p] = "none"
  BY DEF Init
<1>2. /\ \A w : Expecting(w) = {} /\ Parkers(w) = {}
      /\ OnItsStep /\ Asleep /\ HeldInPlace /\ NotTheOperators
      /\ \A t \in Tasks : DelayStep(task[t].held)
  BY <1>1, NothingExpected
<1>3. Owed
  BY <1>1, <1>2, NothingOwed
<1>4. DelaySteps
  BY <1>1, <1>2, DelayShapes DEF DelaySteps
<1>5. DelaysConfigured
  BY <1>1 DEF DelaysConfigured
<1>6. InHand
  BY <1>1, <1>2 DEF InHand
<1> QED
  BY <1>2, <1>3, <1>4, <1>5, <1>6 DEF Expected

LEMMA CrashKeeps ==
    ASSUME Typed, Typed', Expected, DelaysStay, Crash
    PROVE  Expected' /\ InHand'
<1>1. /\ \A r \in Runs : runs'[r] = Absent /\ recovery'.rows[r] = Absent
      /\ \A t \in Tasks : task'[t] = Idle
      /\ \A s \in Sessions : turns'[s] = 0
      /\ agentNews' = <<>> /\ termNews' = <<>> /\ known' \in Editions
      /\ \A p \in Terminals : proc'[p] = "none"
  BY DEF Crash
<1>2. Absent.is = "absent"
  BY DEF Absent
<1>3. \A t \in Tasks : \A q : ~Carrying(task'[t], q)
  BY <1>1, ShapesLemma
<1>4. \A w : Parkers(w)' = {}
  BY <1>3 DEF Parkers, Carries
<1>5. \A w : Expecting(w)' = {}
  BY <1>1, <1>2, <1>4 DEF Expecting, Waits
<1>6. OnItsStep' /\ Asleep'
  BY <1>5 DEF OnItsStep, Asleep
<1>7. HeldInPlace'
  BY <1>1, DelayShapes DEF HeldInPlace
<1>8. NotTheOperators'
  BY <1>1, <1>3, DelayShapes DEF NotTheOperators, Carries
<1>9. DelaySteps'
  <2>1. ASSUME NEW r \in Runs
        PROVE  DelayStep(disk'[r])
    <3>1. disk \in [Runs -> Run] /\ DelayStep(disk[r])
      BY DEF Typed, TypeOK, Expected, DelaySteps
    <3>2. disk'[r] = IF disk[r].on \in Sessions
                     THEN [disk[r] EXCEPT !.on = "lost session"] ELSE disk[r]
      BY DEF Crash
    <3>3. CASE disk[r].on \in Sessions
      <4>1. disk'[r].on = "lost session"
        BY <3>1, <3>2, <3>3 DEF Run
      <4> QED
        BY <4>1 DEF DelayStep, Waits
    <3>4. CASE disk[r].on \notin Sessions
      BY <3>1, <3>2, <3>4
    <3> QED
      BY <3>3, <3>4
  <2>2. \A r \in Runs : DelayStep(runs'[r]) /\ DelayStep(recovery'.rows[r])
    BY <1>1, DelayShapes
  <2>3. \A t \in Tasks : DelayStep(task'[t].held)
    BY <1>1, DelayShapes
  <2> QED
    BY <2>1, <2>2, <2>3 DEF DelaySteps
<1>10. DelaysConfigured'
  BY <1>1 DEF DelaysConfigured, DelaysStay
<1>11. Owed'
  <2> SUFFICES ASSUME NEW s \in Sessions
               PROVE  /\ IsFiniteSet(Expecting(s)')
                      /\ Cardinality(Expecting(s)') <= turns'[s] + Cardinality(NewsOf(s)')
                      /\ Cardinality(Parkers(s)') <= turns'[s]
    BY DEF Owed
  <2>1. NewsOf(s)' = {}
    BY <1>1 DEF NewsOf
  <2>2. IsFiniteSet({}) /\ Cardinality({}) = 0
    BY FS_EmptySet
  <2>3. Expecting(s)' = {} /\ Parkers(s)' = {} /\ turns'[s] = 0
    BY <1>1, <1>4, <1>5
  <2> QED
    BY <2>1, <2>2, <2>3
<1>12. InHand'
  BY <1>1, <1>4, <1>5 DEF InHand
<1> QED
  BY <1>6, <1>7, <1>8, <1>9, <1>10, <1>11, <1>12 DEF Expected

LEMMA NextExpected ==
    ASSUME Typed, Typed', Solo, Paced, Expected, ExitsAreOwn, NothingCancels,
           OneCallAtATime, NothingHasty, DelaysStay, [Next]_vars
    PROVE  Expected' /\ (OneRun /\ InHand => InHand')
<1>1. ASSUME UNCHANGED <<runs, task, known>>, UNCHANGED <<disk, recovery>>,
             UNCHANGED <<turns, agentNews>>, UNCHANGED <<proc, termNews>>
      PROVE  Expected' /\ (InHand => InHand')
  <2>1. \A r \in Runs : DelayStep(disk'[r]) /\ DelayStep(recovery'.rows[r])
    BY <1>1 DEF Expected, DelaySteps
  <2>2. /\ \A w : Expecting(w)' = Expecting(w) /\ Parkers(w)' = Parkers(w)
        /\ OnItsStep' /\ HeldInPlace' /\ DelaySteps' /\ DelaysConfigured'
        /\ Asleep' /\ NotTheOperators'
    BY <1>1, <2>1, NobodyMoves
  <2>3. Owed'
    BY <1>1, <2>2, OwedAllStays DEF Expected
  <2>4. InHand => InHand'
    BY <1>1, <2>2, InHandStays
  <2> QED
    BY <2>2, <2>3, <2>4 DEF Expected
<1>2. CASE UNCHANGED vars
  BY <1>1, <1>2 DEF vars
<1>3. ASSUME NEW t \in Tasks, Carry(t) \/ AgentFinished(t) \/ TerminalFinished(t)
      PROVE  Expected' /\ (OneRun /\ InHand => InHand')
  BY <1>3, CarryKeeps, AgentNewsKeep, TerminalNewsKeep, InHandStays
<1>4. CASE Resume
  BY <1>4, ResumeKeeps, InHandStays
<1>5. CASE Operator
  BY <1>5, OperatorKeeps, InHandStays
<1>6. CASE Environment
  <2>1. CASE Crash
    BY <2>1, CrashKeeps
  <2>2. CASE \E r \in Runs : TimePasses(r)
    BY <1>1, <2>2 DEF TimePasses, store, workers
  <2>3. ASSUME NEW s \in Sessions, NEW state,
               TurnEnds(s, state) \/ (AgentAsks(s) /\ state = "waiting_approval")
        PROVE  Expected' /\ (InHand => InHand')
    BY <2>3, SessionKeeps, InHandStays
  <2>4. ASSUME NEW p \in Terminals, NEW ok, ProcessExits(p, ok)
        PROVE  Expected' /\ (InHand => InHand')
    BY <2>4, ExitKeeps
  <2> QED
    BY <1>6, <2>1, <2>2, <2>3, <2>4 DEF Environment
<1> QED
  BY <1>2, <1>3, <1>4, <1>5, <1>6 DEF Next

\* What is owed to a run that waits in nobody's hands has still to come.
LEMMA ExpectedComes ==
    ASSUME Typed, Expected, (OneRun /\ InHand) \/ TerminalFree
    PROVE  EveryWaitHasAnEnd
<1> SUFFICES ASSUME NEW r \in Runs, runs[r].is = "waiting"
             PROVE  /\ runs[r].on \in Sessions =>
                          \/ turns[runs[r].on] > 0
                          \/ \E i \in DOMAIN agentNews : agentNews[i].session = runs[r].on
                          \/ \E t \in Tasks : task[t].run = r /\ task[t].pc # "idle"
                    /\ runs[r].on \in Terminals =>
                          \/ proc[runs[r].on] # "none"
                          \/ \E t \in Tasks : task[t].run = r /\ task[t].pc # "idle"
                    /\ runs[r].on = "delay" => \E t \in Tasks : task[t].run = r /\ task[t].pc # "idle"
  BY DEF EveryWaitHasAnEnd
<1>1. CASE \E t \in Tasks : Carries(t, r)
  BY <1>1, CarryingLemma DEF Carries
<1>2. CASE \A t \in Tasks : ~Carries(t, r)
  <2>1. r \in Expecting(runs[r].on)
    BY <1>2 DEF Expecting, Waits
  <2>2. ASSUME runs[r].on \in Sessions
        PROVE  \/ turns[runs[r].on] > 0
               \/ \E i \in DOMAIN agentNews : agentNews[i].session = runs[r].on
    <3> DEFINE s == runs[r].on
               E == Expecting(s)
    <3>1. /\ IsFiniteSet(E) /\ turns[s] \in Nat
          /\ Cardinality(E) <= turns[s] + Cardinality(NewsOf(s))
      BY <2>2 DEF Expected, Owed, Typed, TypeOK
    <3>2. r \in E
      BY <2>1
    <3> HIDE DEF E, s
    <3>3. Cardinality(E) \in Nat /\ Cardinality(E) # 0
      BY <3>1, <3>2, FS_CardinalityType, FS_EmptySet
    <3>4. CASE NewsOf(s) = {}
      <4>1. Cardinality(NewsOf(s)) = 0
        BY <3>4, FS_EmptySet
      <4>2. turns[s] > 0
        BY <3>1, <3>3, <4>1
      <4> QED
        BY <4>2 DEF s
    <3>5. CASE NewsOf(s) # {}
      BY <3>5 DEF NewsOf, s
    <3> QED
      BY <3>4, <3>5
  <2>3. ASSUME runs[r].on \in Terminals
        PROVE  proc[runs[r].on] # "none"
    <3>1. CASE InHand
      BY <2>1, <2>3, <3>1 DEF InHand
    <3>2. CASE TerminalFree
      BY <2>3, <3>2 DEF TerminalFree, FreeRun
    <3> QED
      BY <3>1, <3>2
  <2>4. ASSUME runs[r].on = "delay"
        PROVE  \E t \in Tasks : task[t].run = r /\ task[t].pc # "idle"
    BY <2>1, <2>4 DEF Expected, Asleep
  <2> QED
    BY <2>2, <2>3, <2>4
<1> QED
  BY <1>1, <1>2

\* Every run that waits for a worker or a delay waits for something that has still
\* to come (engine.rs: a prompt, an opened terminal or a spawned sleep come before
\* park, and agent_finished and terminal_finished take one run for each piece of
\* news): for any number of runs that share their sessions, with questions, slow
\* calls, timeouts, failing writes and restarts.  Three things it rests on are the
\* instance's and not the engine's.  Parking is quicker than a turn, a process or a
\* delay; an edit of the workflow leaves its delays where they are, or takes all of
\* it; and a terminal has one run to open it.
THEOREM EveryWaitEnds ==
    ASSUME NothingCancels, RowsComeFirst, OneCallAtATime, NothingHasty, DelaysStay,
           OneRun \/ NoTerminalSteps
    PROVE  Spec => []EveryWaitHasAnEnd
<1>1. Init => Expected /\ InHand /\ TerminalFree /\ Entries
  BY InitExpected, InitFree, InitEntries
<1>2. CASE OneRun
  <2> DEFINE Inv == Typed /\ Solo /\ Entries /\ Tracked /\ Expected /\ InHand
  <2>1. NothingIsShared
    BY <1>2 DEF OneRun, NothingIsShared, NothingHasty
  <2>2. Init => Inv
    BY <1>1, InitTyped, InitSolo, InitTracked
  <2>3. Inv /\ [Next]_vars => Inv'
    <3> SUFFICES ASSUME Inv, [Next]_vars PROVE Inv'
      OBVIOUS
    <3>1. Typed' /\ ExitsAreOwn
      BY NextTyped, EntriesAreOwn
    <3>2. Solo' /\ Tracked'
      BY <3>1, NextSolo, NextTracked
    <3>3. Entries'
      BY <2>1, NextEntries
    <3>4. Expected' /\ InHand'
      BY <1>2, <3>1, NextExpected DEF Tracked
    <3> QED
      BY <3>1, <3>2, <3>3, <3>4
  <2>4. Inv => EveryWaitHasAnEnd
    BY <1>2, ExpectedComes
  <2> QED
    BY <2>2, <2>3, <2>4, PTL DEF Spec
<1>3. CASE NoTerminalSteps
  <2> DEFINE Inv == Typed /\ Solo /\ TerminalFree /\ Tracked /\ Expected
  <2>1. Init => Inv
    BY <1>1, InitTyped, InitSolo, InitTracked
  <2>2. Inv /\ [Next]_vars => Inv'
    <3> SUFFICES ASSUME Inv, [Next]_vars PROVE Inv'
      OBVIOUS
    <3>1. Typed' /\ ExitsAreOwn
      BY NextTyped, FreeExitsAreOwn
    <3>2. Solo' /\ Tracked'
      BY <3>1, NextSolo, NextTracked
    <3>3. TerminalFree'
      BY <1>3, NextFree
    <3>4. Expected'
      BY <3>1, NextExpected DEF Tracked
    <3> QED
      BY <3>1, <3>2, <3>3, <3>4
  <2>3. Inv => EveryWaitHasAnEnd
    BY ExpectedComes
  <2> QED
    BY <2>1, <2>2, <2>3, PTL DEF Spec
<1> QED
  BY <1>2, <1>3
=============================================================================
