------------------------------ MODULE Gestures ------------------------------
(***************************************************************************)
(* From a finger on the surface to what it is taken to mean.               *)
(*                                                                         *)
(* The loop of pushos-runtime/src/actors/input.rs owns a recogniser        *)
(* (pushos-bindings/src/gesture) and a rest clock (actors/rest.rs).  What  *)
(* the hardware reports waits in a channel, stamped with the moment it     *)
(* happened; the loop takes a reload first, then what waits, then a        *)
(* deadline, then word of the computer sleeping.  Time is counted in       *)
(* ticks: a deadline is the ticks left to it, below zero when the loop is  *)
(* late, and an event that waits has an age.                               *)
(***************************************************************************)
EXTENDS Integers, Sequences, FiniteSets

CONSTANTS
    Controls,     \* the pads and buttons
    NoControl,    \* stands for an Option<ControlId> that is None
    Interests,    \* the interest of the configurations a reload may bring
    Hold,         \* GestureTiming.hold_threshold
    Window,       \* GestureTiming.double_tap_window
    DimAfter,     \* RestPolicy.dim_after
    SleepAfter,   \* RestPolicy.sleep_after
    InputCapacity,\* how many events may wait, INPUT_CAPACITY
    MostTouches,  \* bound: how often a finger goes down or turns a knob
    MostLate,     \* bound: how many ticks behind the loop falls
    MostTurns,    \* bound: reloads, sleeps, questions and unpluggings in all
    Allowed       \* the weather: what may go wrong

ASSUME ControlsAssumption == NoControl \notin Controls
ASSUME TimingAssumption ==
    /\ Hold \in Nat /\ Window \in Nat \ {0} /\ Hold > Window
    /\ DimAfter \in Nat \ {0} /\ SleepAfter \in Nat /\ SleepAfter > DimAfter
ASSUME BoundsAssumption ==
    {InputCapacity, MostTouches, MostLate, MostTurns} \subseteq Nat
ASSUME InterestsAssumption ==
    Interests \subseteq [hold : SUBSET Controls, double : SUBSET Controls]
ASSUME AllowedAssumption ==
    Allowed \subseteq {"late loop", "dropped input", "touched while off"}

VARIABLES
    finger,    \* finger[c]: whether the control is physically down
    queue,     \* what the hardware has reported and the loop has not read
    state,     \* state[c]: GestureRecognizer.states, "idle" when absent
    interest,  \* GestureRecognizer.interest
    rest,      \* RestClock.state
    idle,      \* ticks since RestClock.touched
    waking,    \* RestClock.waking
    power,     \* what the computer last said, whether that is unread, if ever said
    said,      \* said[c]: the gestures reported so far, by kind
    lost,      \* lost[c]: presses the loop was never told of, or forgot
    displaced, \* displaced[c]: presses that woke the surface and were forgotten
    turns      \* how often each bounded thing has happened

gestures == <<state, interest, said>>
clock    == <<rest, idle, waking>>
missed   == <<lost, displaced>>
vars     == <<finger, queue, gestures, clock, power, missed, turns>>

Idle == [at |-> "idle", left |-> 0, armed |-> FALSE, reported |-> FALSE, second |-> FALSE]

Held(left, armed, reported, second) ==
    [at |-> "held", left |-> left, armed |-> armed, reported |-> reported, second |-> second]
Tapped(left) ==
    [at |-> "tapped", left |-> left, armed |-> FALSE, reported |-> FALSE, second |-> FALSE]

\* ControlState::deadline: whether the state produces a gesture on its own.
Waits(s) == s.at = "tapped" \/ (s.at = "held" /\ s.armed /\ ~s.reported)

\* hold_is_due, and the arm of poll for a tap: the deadline has come.
Due(s) == Waits(s) /\ s.left <= 0

Nothing == [press |-> 0, release |-> 0, tap |-> 0, hold |-> 0, double |-> 0]

-----------------------------------------------------------------------------
(* The rest clock. *)

Swallows(r) == r \in {"asleep", "off"}

\* Bound: a quiet longer than SleepAfter is as long as that.
Passed(quiet) == IF quiet < SleepAfter THEN quiet ELSE SleepAfter

\* RestPolicy::state_after
StateAfter(quiet) == CASE quiet >= SleepAfter -> "asleep"
                       [] quiet >= DimAfter /\ quiet < SleepAfter -> "dimmed"
                       [] OTHER -> "awake"

\* Mutant: time brings the surface back from off.
SettledByTime(r, quiet) == StateAfter(quiet)

\* settle: only the computer waking brings the surface back from off.
Settled(r, quiet) == IF r = "off" THEN "off" ELSE StateAfter(quiet)

\* Mutant: only what arrives in the dark is spent, not the release after it.
SpentInTheDark(e) == Swallows(rest) /\ e.phase # "up"

\* Whether the event is spent waking the surface, RestClock::on_input.
Spent(e) == waking = e.control \/ (Swallows(rest) /\ e.phase # "up")

\* What RestClock::on_input leaves in waking.
Waking(e) ==
    CASE waking = e.control -> IF e.phase = "up" THEN NoControl ELSE waking
      [] waking # e.control /\ Swallows(rest) /\ e.phase = "down" -> e.control
      [] OTHER -> waking

\* The press that woke the surface is no longer known to have, though its
\* release has not been read.
Displaces(c, next, by) == waking = c /\ next # c /\ by # c
Displaced(next, by) ==
    displaced' = [c \in Controls |-> displaced[c] + (IF Displaces(c, next, by) THEN 1 ELSE 0)]

\* RestClock::on_input: a touch restarts the timers and lights the surface,
\* unless it belongs to the press that woke it.
Touched(e) ==
    /\ idle' = Passed(e.age)
    /\ rest' = IF waking = e.control THEN rest ELSE "awake"
    /\ waking' = Waking(e)

-----------------------------------------------------------------------------
(* The recogniser. *)

Counted(s, kinds) == [k \in DOMAIN s |-> IF k \in kinds THEN s[k] + 1 ELSE s[k]]
Reports(c, kinds) == said' = [said EXCEPT ![c] = Counted(@, kinds)]

\* Whether a press at this moment is the second of a pair, in on_down.
PendingTap(e) == /\ state[e.control].at = "tapped"
                 /\ state[e.control].left + e.age > 0

\* GestureRecognizer::on_down
OnDown(e) ==
    LET c == e.control IN
    /\ Reports(c, {"press"})
    /\ state' = [state EXCEPT ![c] =
         Held(IF c \in interest.hold THEN Hold - e.age ELSE 0,
              c \in interest.hold, FALSE, PendingTap(e))]

\* Mutant: a press whose hold was reported is a tap as well when it is let go.
OnUpTwice(e) ==
    LET c == e.control IN
    /\ state' = [state EXCEPT ![c] = Idle]
    /\ Reports(c, {"release"} \cup IF state[c].at = "held" THEN {"tap"} ELSE {})

\* GestureRecognizer::on_up
OnUp(e) ==
    LET c == e.control
        held == state[c].at = "held"
        waitsForSecond == /\ held /\ ~state[c].reported /\ ~state[c].second
                          /\ c \in interest.double
    IN /\ state' = [state EXCEPT ![c] =
            IF waitsForSecond THEN Tapped(Window - e.age) ELSE Idle]
       /\ Reports(c, {"release"} \cup
            CASE ~held \/ state[c].reported \/ waitsForSecond -> {}
              [] held /\ ~state[c].reported /\ state[c].second -> {"double"}
              [] OTHER -> {"tap"})

\* GestureRecognizer::observe, for what the model has phases of.
Observe(e) == CASE e.phase = "down" -> OnDown(e)
                [] e.phase = "up"   -> OnUp(e)
                [] e.phase = "turn" -> UNCHANGED <<state, said>>

\* What poll reports of the controls whose moment has come: a hold, once, or
\* the tap that no second press followed.
Settles(due) ==
    /\ state' = [c \in Controls |->
         CASE c \in due /\ state[c].at = "held" -> Held(0, state[c].armed, TRUE, state[c].second)
           [] c \in due /\ state[c].at = "tapped" -> Idle
           [] OTHER -> state[c]]
    /\ said' = [c \in Controls |->
         Counted(said[c], CASE c \in due /\ state[c].at = "held" -> {"hold"}
                            [] c \in due /\ state[c].at = "tapped" -> {"tap"}
                            [] OTHER -> {})]

\* Mutant: only what is bound now is reported, whatever the press was armed with.
PollWhatIsBound ==
    Settles({c \in interest.hold \cup interest.double : Due(state[c])})

\* GestureRecognizer::poll
Poll == Settles({c \in Controls : Due(state[c])})

-----------------------------------------------------------------------------
(* The hand, and the hardware. *)

Takes(kind, most) == /\ turns[kind] < most
                     /\ turns' = [turns EXCEPT ![kind] = @ + 1]

\* The callback of the MIDI input: the event is stamped and offered to the
\* channel, which drops it when it is full.
Hears(c, phase) ==
    \/ /\ Len(queue) < InputCapacity
       /\ queue' = Append(queue, [control |-> c, phase |-> phase, age |-> 0])
       /\ UNCHANGED lost
    \/ /\ "dropped input" \in Allowed
       /\ lost' = IF phase = "down" THEN [lost EXCEPT ![c] = @ + 1] ELSE lost
       /\ UNCHANGED queue

\* A control is touched; while the computer sleeps, only if the weather has it.
Reachable == power.is = "running" \/ "touched while off" \in Allowed

Press(c) ==
    /\ Reachable /\ finger[c] = "up"
    /\ finger' = [finger EXCEPT ![c] = "down"]
    /\ Takes("touch", MostTouches) /\ Hears(c, "down")
    /\ UNCHANGED <<gestures, clock, power, displaced>>

LetGo(c) ==
    /\ Reachable /\ finger[c] = "down"
    /\ finger' = [finger EXCEPT ![c] = "up"]
    /\ Hears(c, "up")
    /\ UNCHANGED <<gestures, clock, power, displaced, turns>>

Turn(c) ==
    /\ Reachable
    /\ Takes("touch", MostTouches) /\ Hears(c, "turn")
    /\ UNCHANGED <<finger, gestures, clock, power, displaced>>

-----------------------------------------------------------------------------
(* The arms of the loop, in the order it tries them. *)

\* next_deadline: the first of the recogniser's and the rest clock's.
DeadlineCame == \/ \E c \in Controls : Due(state[c])
                \/ Settled(rest, idle) # rest

\* reconfigure, ahead of input: the recogniser waits for what is bound now.
Reconfigure ==
    /\ Takes("other", MostTurns)
    /\ \E wanted \in Interests \ {interest} : interest' = wanted
    /\ rest' = Settled(rest, idle)
    /\ UNCHANGED <<finger, queue, state, said, idle, waking, power, missed>>

\* on_input: what waits longest is spent on waking the surface, or observed.
OnInput ==
    /\ queue # <<>>
    /\ Displaced(Waking(Head(queue)), Head(queue).control)
    /\ queue' = Tail(queue)
    /\ Touched(Head(queue))
    /\ IF Spent(Head(queue)) THEN UNCHANGED <<state, said>> ELSE Observe(Head(queue))
    /\ UNCHANGED <<finger, interest, power, lost, turns>>

\* on_deadline, tried only when nothing waits to be read.
OnDeadline ==
    /\ queue = <<>> /\ DeadlineCame
    /\ Poll
    /\ rest' = Settled(rest, idle)
    /\ UNCHANGED <<finger, queue, interest, idle, waking, power, missed, turns>>

\* follow_power and on_machine: behind input and deadlines in the same loop.
FollowPower ==
    /\ queue = <<>> /\ ~DeadlineCame /\ power.changed
    /\ power' = [power EXCEPT !.changed = FALSE]
    /\ CASE power.is = "sleeping" ->
              /\ rest' = "off" /\ waking' = NoControl /\ UNCHANGED idle
              /\ Displaced(NoControl, NoControl)
         [] power.is = "running" /\ rest = "off" ->
              /\ idle' = DimAfter /\ rest' = StateAfter(DimAfter)
              /\ UNCHANGED <<waking, displaced>>
         [] OTHER -> UNCHANGED <<clock, displaced>>
    /\ UNCHANGED <<finger, queue, gestures, lost, turns>>

\* publish and on_asking: something new asks for a person, and wakes a surface
\* that rests for its own sake.
Asks ==
    /\ Takes("other", MostTurns)
    /\ LET wakes == rest \in {"dimmed", "asleep"} IN
       /\ rest' = IF wakes THEN "awake" ELSE rest
       /\ idle' = IF wakes THEN 0 ELSE idle
    /\ UNCHANGED <<finger, queue, gestures, waking, power, missed>>

\* next_event is None: the loop ends and forgets what is under way, and the
\* surface plugged in again is read by a new one, whose receiver is a copy of
\* one that never read whether the computer sleeps.
Unplugged ==
    /\ Takes("other", MostTurns)
    /\ queue' = <<>>
    /\ state' = [c \in Controls |-> Idle]
    /\ rest' = "awake" /\ idle' = 0 /\ waking' = NoControl
    /\ power' = [power EXCEPT !.changed = power.told]
    /\ lost' = [c \in Controls |-> lost[c] + (IF finger[c] = "down" THEN 1 ELSE 0)]
    /\ UNCHANGED <<finger, interest, said, displaced>>

\* The computer says it is about to sleep, or that it is awake.
MachineTurns ==
    /\ Takes("other", MostTurns)
    /\ power' = [is |-> IF power.is = "running" THEN "sleeping" ELSE "running",
                 changed |-> TRUE, told |-> TRUE]
    /\ UNCHANGED <<finger, queue, gestures, clock, missed>>

\* Time passes.  The loop is behind only in the weather that has it late.
Tick ==
    /\ "late loop" \in Allowed \/ (queue = <<>> /\ ~DeadlineCame)
    /\ \A i \in DOMAIN queue : queue[i].age < MostLate
    /\ \A c \in Controls : Waits(state[c]) => state[c].left > 0 - MostLate
    /\ queue' = [i \in DOMAIN queue |-> [queue[i] EXCEPT !.age = @ + 1]]
    /\ state' = [c \in Controls |->
         IF Waits(state[c]) THEN [state[c] EXCEPT !.left = @ - 1] ELSE state[c]]
    /\ idle' = Passed(idle + 1)
    /\ UNCHANGED <<finger, interest, rest, waking, power, said, missed, turns>>

Init ==
    /\ finger = [c \in Controls |-> "up"]
    /\ queue = <<>>
    /\ state = [c \in Controls |-> Idle]
    /\ interest \in Interests
    /\ rest = "awake" /\ idle = 0 /\ waking = NoControl
    /\ power = [is |-> "running", changed |-> FALSE, told |-> FALSE]
    /\ said = [c \in Controls |-> Nothing]
    /\ lost = [c \in Controls |-> 0] /\ displaced = [c \in Controls |-> 0]
    /\ turns = [k \in {"touch", "other"} |-> 0]

Next ==
    \/ \E c \in Controls : Press(c) \/ LetGo(c) \/ Turn(c)
    \/ Reconfigure \/ OnInput \/ OnDeadline \/ FollowPower \/ Asks
    \/ Unplugged \/ MachineTurns \/ Tick

\* The loop runs as long as it has an arm that is ready, and time passes.  No
\* hand is asked to come off a control and no computer to wake.
Fairness == WF_vars(OnInput) /\ WF_vars(OnDeadline) /\ WF_vars(FollowPower) /\ WF_vars(Tick)

Spec == Init /\ [][Next]_vars /\ Fairness

-----------------------------------------------------------------------------
(* What holds. *)

States == [at : {"idle", "held", "tapped"}, left : (0 - MostLate)..Hold,
           armed : BOOLEAN, reported : BOOLEAN, second : BOOLEAN]

\* Every variable is of its kind, and only a control that waits counts time.
TypeOK ==
    /\ finger \in [Controls -> {"up", "down"}]
    /\ queue \in Seq([control : Controls, phase : {"down", "up", "turn"}, age : 0..MostLate])
    /\ Len(queue) <= InputCapacity
    /\ state \in [Controls -> States]
    /\ \A c \in Controls : ~Waits(state[c]) => state[c].left = 0
    /\ interest \in Interests
    /\ rest \in {"awake", "dimmed", "asleep", "off"}
    /\ idle \in 0..SleepAfter
    /\ waking \in Controls \cup {NoControl}
    /\ power \in [is : {"running", "sleeping"}, changed : BOOLEAN, told : BOOLEAN]
    /\ \A c \in Controls : \A k \in DOMAIN said[c] : said[c][k] \in 0..MostTouches + MostTurns
    /\ lost \in [Controls -> Nat] /\ displaced \in [Controls -> Nat]

\* One press means one thing.  Each press the loop took in ends as at most one
\* tap or one hold, or is one half of a double tap: recogniser.rs drops a tap
\* whose hold was reported and a hold whose control was let go.
OneMeaning ==
    \A c \in Controls : said[c].tap + said[c].hold + 2 * said[c].double <= said[c].press

\* No half gesture goes unexplained.  A control is reported released more often
\* than pressed only for presses dropped on the way, cut off by an unplugging,
\* or spent on waking a surface that slept again before they were let go.
HalvesAreExplained ==
    \A c \in Controls : said[c].release <= said[c].press + lost[c] + displaced[c]

\* Asleep is dark.  Once the loop knows the computer sleeps the surface stays
\* off until it is told otherwise, whatever else the loop is told.
SleepingIsDark ==
    (power.is = "sleeping" /\ ~power.changed) => rest = "off"

\* A press nobody lets go of, or a tap that may be doubled, is not forgotten:
\* whatever is reloaded in between, what waits for a moment stops waiting.
NothingWaitsForEver ==
    \A c \in Controls : Waits(state[c]) ~> ~Waits(state[c])

=============================================================================
