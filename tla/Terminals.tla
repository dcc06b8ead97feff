------------------------------ MODULE Terminals ------------------------------
(***************************************************************************)
(* The terminals PushOS runs (pushos-terminal): the supervisor that the    *)
(* pads call, the registry of what it knows, the host that starts programs *)
(* on pseudo-terminals, the thread that reads each of them, and the task   *)
(* of the runtime that applies what the threads report.                    *)
(*                                                                         *)
(* A press runs in a task of its own.  The registry and the host have a    *)
(* lock each, held for one step; an action is the code between two points  *)
(* where a call awaits, so presses, programs and readers interleave there. *)
(*                                                                         *)
(* Instants are modelled by their order: `since' says which terminal was   *)
(* recorded after which, `newer' which was active after which.             *)
(***************************************************************************)
EXTENDS Naturals, FiniteSets, Sequences

CONSTANTS
    Ids,      \* the identifiers a terminal may be given
    Names,    \* what the operator calls terminals
    Calls,    \* the tasks presses run in
    Most,     \* MOST_TERMINALS
    Kept,     \* KEPT_FINISHED
    Backlog,  \* bound: reports on their way to the runtime
    None,     \* nothing
    Allowed   \* what may happen, see Weather

Weather == {"pressed twice", "quick exit", "dropped late", "opened late"}

ASSUME ConstantsAssumption ==
    /\ Most \in Nat \ {0} /\ Kept \in Nat \ {0} /\ Backlog \in Nat \ {0}
    /\ None \notin Ids \cup Names
    /\ Allowed \subseteq Weather
-----------------------------------------------------------------------------
VARIABLES
    reg,      \* the registry
    program,  \* the program in each terminal, and how far its reader has come
    killed,   \* the terminals whose killer has been taken
    reports,  \* what the readers have reported and nobody has applied
    pc,       \* where each call is
    wants,    \* the name a call opens
    id,       \* the terminal a call is about
    stage,    \* whether the runtime is up, ending terminals, or done
    doomed    \* the terminals shutdown has still to end

host  == <<program, killed, reports>>
calls == <<pc, wants, id>>
vars  == <<reg, host, calls, stage, doomed>>

Live     == {"starting", "running"}
Finished == {"exited", "stopped"}

Known(r) == {t \in Ids : r.status[t] # "unknown"}
Alive(r) == {t \in Ids : r.status[t] \in Live}
Done(r)  == {t \in Ids : r.status[t] \in Finished}

\* What the host's own table holds.
Hosted == {t \in Ids : program[t] \in {"runs", "ended"}}

\* status: what a terminal is doing; name: what it is called; since, newer:
\* the order of started_at and of last_activity; selected: what unqualified
\* actions act on; stopping: what PushOS was asked to end.
Registry == [status: [Ids -> Live \cup Finished \cup {"unknown"}],
             name: [Ids -> Names \cup {None}],
             since: SUBSET (Ids \X Ids), newer: SUBSET (Ids \X Ids),
             selected: Ids \cup {None}, stopping: SUBSET Ids]

\* Of two terminals that are known, one comes after the other.
Ordered(r, after) ==
    \A t, u \in Known(r) : t # u => (<<t, u>> \in after <=> <<u, t>> \notin after)

TypeOK ==
    /\ reg \in Registry /\ Ordered(reg, reg.since) /\ Ordered(reg, reg.newer)
    /\ program \in [Ids -> {"none", "runs", "ended", "reaped", "reported"}]
    /\ killed \subseteq Ids
    /\ reports \in Seq(Ids \X {"output", "exit"})
    /\ pc \in [Calls -> {"idle", "ask", "start", "record", "mark", "kill"}]
    /\ wants \in [Calls -> Names \cup {None}]
    /\ id \in [Calls -> Ids \cup {None}]
    /\ stage \in {"up", "ending", "down"}
    /\ doomed \subseteq Ids
-----------------------------------------------------------------------------
(* The registry, as functions of what it holds. *)

Last(t, S, after) == \A u \in S \ {t} : <<t, u>> \in after

\* The member of S that comes after every other (some member of S, if the
\* order had none).
Latest(S, after) ==
    CHOOSE t \in S : (\E u \in S : Last(u, S, after)) => Last(t, S, after)

\* resolve, by name: a running terminal before a finished one, and the most
\* recently started of several.
Called(r, n) ==
    LET those == {t \in Known(r) : r.name[t] = n}
        live  == those \cap Alive(r)
    IN  IF live # {} THEN Latest(live, r.since)
        ELSE IF those # {} THEN Latest(those, r.since) ELSE None

\* resolve: a target is a name, a terminal, or nothing for the selected one.
Resolve(r, target) ==
    IF target \in Names THEN Called(r, target)
    ELSE IF target \in Known(r) THEN target
    ELSE IF target = None THEN r.selected ELSE None

After(t, S, order) == {p \in order : t \notin {p[1], p[2]}} \cup ({t} \X (S \ {t}))

Selecting(r, t) == [status |-> r.status, name |-> r.name, since |-> r.since,
                    newer |-> r.newer, selected |-> t, stopping |-> r.stopping]

\* opened: a terminal is recorded, and selected.
Recorded(r, t, n) ==
    [status |-> [r.status EXCEPT ![t] = "starting"], name |-> [r.name EXCEPT ![t] = n],
     since |-> After(t, Known(r), r.since), newer |-> After(t, Known(r), r.newer),
     selected |-> t, stopping |-> r.stopping]

\* session.apply and session.stopped: what a report makes of a terminal.
Status(r, t, kind) ==
    IF kind = "output" THEN IF r.status[t] = "starting" THEN "running" ELSE r.status[t]
    ELSE IF t \in r.stopping THEN "stopped" ELSE "exited"

\* apply: anything at all clears the mark that the terminal was asked to stop.
Applied(r, t, kind) ==
    IF t \notin Known(r)
    THEN [status |-> r.status, name |-> r.name, since |-> r.since, newer |-> r.newer,
          selected |-> r.selected, stopping |-> r.stopping \ {t}]
    ELSE [status |-> [r.status EXCEPT ![t] = Status(r, t, kind)], name |-> r.name,
          since |-> r.since, newer |-> After(t, Known(r), r.newer),
          selected |-> r.selected, stopping |-> r.stopping \ {t}]

\* stopping: only a terminal the registry knows is marked.
Marked(r, t) ==
    [status |-> r.status, name |-> r.name, since |-> r.since, newer |-> r.newer,
     selected |-> r.selected, stopping |-> r.stopping \cup ({t} \cap Known(r))]

\* forget: the selection falls back to the most recently active live terminal.
Selection(r, gone) ==
    IF r.selected \notin gone THEN r.selected
    ELSE IF Alive(r) # {} THEN Latest(Alive(r), r.newer) ELSE None

\* The finished terminals beyond the Kept most recent.
Stale(r) == {t \in Done(r) : Cardinality({u \in Done(r) : <<u, t>> \in r.newer}) >= Kept}

\* forget_stale
Pruned(r) ==
    LET gone == Stale(r)
    IN  [status |-> [t \in Ids |-> IF t \in gone THEN "unknown" ELSE r.status[t]],
         name |-> [t \in Ids |-> IF t \in gone THEN None ELSE r.name[t]],
         since |-> {p \in r.since : {p[1], p[2]} \cap gone = {}},
         newer |-> {p \in r.newer : {p[1], p[2]} \cap gone = {}},
         selected |-> Selection(r, gone), stopping |-> r.stopping \ gone]
-----------------------------------------------------------------------------
(* A call opens a terminal. *)

\* A call moves to another place, about terminal t, to open one called n.
Goes(c, at, t, n) == /\ pc' = [pc EXCEPT ![c] = at]
                     /\ id' = [id EXCEPT ![c] = t]
                     /\ wants' = [wants EXCEPT ![c] = n]

Rests(c) == Goes(c, "idle", None, None)

\* Nobody listens to the pads once PushOS is stopping; calls in flight go on.
Pressed(c) == stage = "up" /\ pc[c] = "idle"

Opening(n) == \E c \in Calls : wants[c] = n

\* Mutant: only a terminal that has said something is handed out again.
ReusableRunning(n) == \E t \in Ids : reg.status[t] = "running" /\ reg.name[t] = n

\* reuse: what resolve finds for the name is running.
Reusable(n) == \E t \in Alive(reg) : reg.name[t] = n

\* open, when a terminal of that name is running: it is selected.
Reuse(c, n) ==
    /\ Pressed(c) /\ Reusable(n)
    /\ reg' = Selecting(reg, Called(reg, n))
    /\ UNCHANGED <<host, calls, stage, doomed>>

\* An identifier is made for one call, and never made again.
Fresh(t) == program[t] = "none" /\ \A c \in Calls : id[c] # t

\* open, when there is none.
Open(c, n) ==
    /\ Pressed(c) /\ ~Reusable(n)
    /\ "pressed twice" \in Allowed \/ ~Opening(n)
    /\ \E t \in Ids : Fresh(t) /\ Goes(c, "ask", t, n)
    /\ UNCHANGED <<reg, host, stage, doomed>>

\* The host counts what it holds.
Room == Cardinality(Hosted) < Most

\* host.open: the limit is looked at, and the program started somewhere else.
Ask(c) ==
    /\ pc[c] = "ask"
    /\ IF Room THEN Goes(c, "start", id[c], wants[c]) ELSE Rests(c)
    /\ UNCHANGED <<reg, host, stage, doomed>>

\* host.open: the program is running, the host holds it and a thread reads it.
Start(c) ==
    /\ pc[c] = "start"
    /\ program' = [program EXCEPT ![id[c]] = "runs"]
    /\ Goes(c, "record", id[c], wants[c])
    /\ UNCHANGED <<reg, killed, reports, stage, doomed>>

\* host.open: no pseudo-terminal, no such program, or no thread to read it.
StartFails(c) ==
    /\ pc[c] = "start"
    /\ Rests(c)
    /\ UNCHANGED <<reg, host, stage, doomed>>

\* open: what the host started is recorded.
Record(c) ==
    /\ pc[c] = "record"
    /\ reg' = Pruned(Recorded(reg, id[c], wants[c]))
    /\ Rests(c)
    /\ UNCHANGED <<host, stage, doomed>>
-----------------------------------------------------------------------------
(* A call chooses a terminal, or ends one. *)

\* select
Select(target) ==
    /\ stage = "up"
    /\ LET t == Resolve(reg, target)
       IN  t # None /\ reg' = Selecting(reg, t)
    /\ UNCHANGED <<host, calls, stage, doomed>>

\* require_live
Close(c, target) ==
    /\ Pressed(c)
    /\ LET t == Resolve(reg, target)
       IN  t \in Alive(reg) /\ Goes(c, "mark", t, None)
    /\ UNCHANGED <<reg, host, stage, doomed>>

\* close: the terminal is marked before the host is asked.
Mark(c) ==
    /\ pc[c] = "mark"
    /\ reg' = Marked(reg, id[c])
    /\ Goes(c, "kill", id[c], None)
    /\ UNCHANGED <<host, stage, doomed>>

\* host.close: the killer is taken once, from a terminal the host still holds.
Kills(t) == killed' = killed \cup ({t} \cap Hosted)

Kill(c) ==
    /\ pc[c] = "kill"
    /\ Kills(id[c])
    /\ Rests(c)
    /\ UNCHANGED <<reg, program, reports, stage, doomed>>

\* The dispatcher drops a call that has run out of its budget.  A program
\* whose start nobody waits for any more is hung up on and never seen.
Dropped(c) ==
    /\ pc[c] # "idle"
    /\ "dropped late" \in Allowed \/ pc[c] # "record"
    /\ Rests(c)
    /\ UNCHANGED <<reg, host, stage, doomed>>
-----------------------------------------------------------------------------
(* A program, and the thread that reads its terminal (pump). *)

\* The runtime listens until it begins to stop.
Observe(t, kind) ==
    reports' = IF stage = "up" THEN Append(reports, <<t, kind>>) ELSE reports

Say(t) ==
    /\ t \in Hosted /\ Len(reports) < Backlog
    /\ Observe(t, "output")
    /\ UNCHANGED <<reg, program, killed, calls, stage, doomed>>

\* A program ends when it likes, or because it was told to.
End(t) ==
    /\ program[t] = "runs"
    /\ "quick exit" \in Allowed \/ \A c \in Calls : pc[c] = "record" => id[c] # t
    /\ program' = [program EXCEPT ![t] = "ended"]
    /\ UNCHANGED <<reg, killed, reports, calls, stage, doomed>>

\* pump: the host forgets the terminal, and only then is the exit reported.
Reap(t) ==
    /\ program[t] = "ended"
    /\ program' = [program EXCEPT ![t] = "reaped"]
    /\ UNCHANGED <<reg, killed, reports, calls, stage, doomed>>

Report(t) ==
    /\ program[t] = "reaped"
    /\ program' = [program EXCEPT ![t] = "reported"]
    /\ Observe(t, "exit")
    /\ UNCHANGED <<reg, killed, calls, stage, doomed>>
-----------------------------------------------------------------------------
(* The runtime's task. *)

\* Mutant: a report is taken from the queue and the exit not applied.
ApplyOutputOnly ==
    /\ stage = "up" /\ reports # <<>>
    /\ reports' = Tail(reports)
    /\ reg' = IF Head(reports)[2] = "exit" THEN reg
              ELSE Applied(reg, Head(reports)[1], "output")
    /\ UNCHANGED <<program, killed, calls, stage, doomed>>

\* apply: what has finished is pruned when a terminal ends.
Apply ==
    /\ stage = "up" /\ reports # <<>>
    /\ reports' = Tail(reports)
    /\ LET t    == Head(reports)[1]
           kind == Head(reports)[2]
           r    == Applied(reg, t, kind)
       IN  reg' = IF kind = "exit" THEN Pruned(r) ELSE r
    /\ UNCHANGED <<program, killed, calls, stage, doomed>>

\* Mutant: a terminal that has not said anything yet is overlooked.
LeaveRunning ==
    /\ stage = "up"
    /\ "opened late" \in Allowed \/ \A c \in Calls : pc[c] \notin {"ask", "start", "record"}
    /\ stage' = "ending" /\ doomed' = {t \in Ids : reg.status[t] = "running"}
    /\ UNCHANGED <<reg, host, calls>>

\* PushOS stops, and the task looks at what is running.
Leave ==
    /\ stage = "up"
    /\ "opened late" \in Allowed \/ \A c \in Calls : pc[c] \notin {"ask", "start", "record"}
    /\ stage' = "ending" /\ doomed' = Alive(reg)
    /\ UNCHANGED <<reg, host, calls>>

\* shutdown: one of those is marked and ended.  Nothing is applied any more,
\* so what happens between the two shows nowhere.
EndNext(t) ==
    /\ stage = "ending" /\ t \in doomed
    /\ reg' = Marked(reg, t)
    /\ Kills(t)
    /\ doomed' = doomed \ {t}
    /\ UNCHANGED <<program, reports, calls, stage>>

Left ==
    /\ stage = "ending" /\ doomed = {}
    /\ stage' = "down"
    /\ UNCHANGED <<reg, host, calls, doomed>>
-----------------------------------------------------------------------------
Init ==
    /\ reg = [status |-> [t \in Ids |-> "unknown"], name |-> [t \in Ids |-> None],
              since |-> {}, newer |-> {}, selected |-> None, stopping |-> {}]
    /\ program = [t \in Ids |-> "none"]
    /\ killed = {} /\ reports = <<>>
    /\ pc = [c \in Calls |-> "idle"]
    /\ wants = [c \in Calls |-> None] /\ id = [c \in Calls |-> None]
    /\ stage = "up" /\ doomed = {}

Opens(c)  == \/ \E n \in Names : Reuse(c, n) \/ Open(c, n)
             \/ Ask(c) \/ Start(c) \/ StartFails(c) \/ Record(c)
Closes(c) == \/ \E target \in Names \cup Ids \cup {None} : Close(c, target)
             \/ Mark(c) \/ Kill(c)
Runs(t)   == Say(t) \/ End(t) \/ Reap(t) \/ Report(t)
Stops     == Leave \/ (\E t \in Ids : EndNext(t)) \/ Left

Next ==
    \/ \E c \in Calls : Opens(c) \/ Closes(c) \/ Dropped(c)
    \/ \E target \in Names \cup Ids \cup {None} : Select(target)
    \/ \E t \in Ids : Runs(t)
    \/ Apply \/ Stops

\* The readers and the runtime run; a program that is told to end does.
Fairness ==
    /\ \A t \in Ids : /\ WF_vars(Reap(t) \/ Report(t))
                      /\ WF_vars(t \in killed /\ End(t))
    /\ WF_vars(Apply)

Spec == Init /\ [][Next]_vars /\ Fairness
-----------------------------------------------------------------------------
(* What has to be so. *)

\* A pad pressed twice starts one program: no two terminals of one name run
\* (TerminalSupervisor::open and reuse).
OneOfAName == \A t, u \in Alive(reg) : reg.name[t] = reg.name[u] => t = u

\* The registry and the host, with a lock each and a queue between them, agree:
\* what the host holds is listed as running or about to be, and what is listed
\* as running has a program whose exit has not been applied.
ListedIsRunning ==
    stage = "up" =>
    \A t \in Ids :
        /\ t \in Hosted => \/ t \in Alive(reg)
                          \/ \E c \in Calls : pc[c] = "record" /\ id[c] = t
        /\ t \in Alive(reg) => \/ program[t] \in {"runs", "ended", "reaped"}
                              \/ \E i \in DOMAIN reports : reports[i] = <<t, "exit">>

\* When PushOS has ended its terminals nothing it started runs on unasked
\* (TerminalSupervisor::shutdown).
NoneLeftRunning ==
    stage = "down" => \A t \in Ids : program[t] = "runs" => t \in killed

\* A terminal that was ended is, in the end, listed as finished or no longer
\* listed, however the readers, the queue and the presses interleave.
ClosedTerminalEnds ==
    \A t \in Ids : t \in killed ~> (t \notin Alive(reg) \/ stage # "up")
=============================================================================
