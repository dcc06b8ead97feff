---------------------------- MODULE SurfaceLink ----------------------------
(***************************************************************************)
(* What the Push 2 shows, and how PushOS takes it and lets go of it.       *)
(*                                                                         *)
(* The input pipeline publishes a view.  The render task                   *)
(* (runtime/actors/render.rs) draws it: the brightness, the picture, the   *)
(* lights that changed, in that order and remembering what it has sent.    *)
(* Messages go to a thread that writes MIDI through a queue of bounded     *)
(* length (midi/transport.rs), pictures to a thread that owns the display  *)
(* through a slot of one (display/usb.rs, slot.rs).  A loop in the CLI     *)
(* connects whenever a surface is there (commands/run.rs), and lets go of  *)
(* it when the render task finds it gone or PushOS stops.                  *)
(***************************************************************************)
EXTENDS Integers, FiniteSets, Sequences

CONSTANTS
    Controls,    \* the controls with a light
    Views,       \* what the pipeline may publish
    None,        \* no picture
    Capacity,    \* OUTPUT_CAPACITY, 64 in the code
    MostViews,   \* bound: how many views are published
    MostPlugs,   \* bound: how often the surface is pulled out
    Allowed      \* the weather: what may go wrong

Rests == {"awake", "dimmed", "asleep", "off"}
Colours == {"steady", "asking"}
Strengths == {"full", "dim", "none"}
Pictures == [of : {"still", "moving", "black"}, frame : {0, 1}]

\* A LedPlan says something of some controls.
Plans == UNION {[lit -> Colours] : lit \in SUBSET Controls}

ASSUME NoneAssumption == None \notin Pictures \cup [lights : Strengths, screen : Strengths]
ASSUME CapacityAssumption == Capacity \in Nat \ {0}
ASSUME SurfaceBounds == {MostViews, MostPlugs} \subseteq Nat
ASSUME ViewsAssumption ==
    Views # {} /\ Views \subseteq [picture : {"still", "moving"}, leds : Plans, rest : Rests]
ASSUME SurfaceWeather ==
    Allowed \subseteq {"writer behind", "write fails", "transfer fails", "display taken"}

VARIABLES
    view,     \* the published SurfaceView
    changed,  \* it has changed since the render task looked
    plugged,  \* a Push 2 is attached
    hw,       \* what it is showing
    alive,    \* the open link is to the Push 2 attached now
    session,  \* what serve_hardware is at
    script,   \* what connecting or letting go has yet to say, waiting for room
    writer,   \* the MIDI thread: "none", "running", "stopped"
    queue,    \* what it has yet to write
    slot,     \* the picture the display thread has yet to take, or None
    sent,     \* the picture it sent last
    healthy,  \* DisplayLink.healthy
    render,   \* the render task
    stopping, \* PushOS is shutting down
    count     \* how many views and how many plugs there have been

surface == <<plugged, hw, alive>>
midi    == <<writer, queue>>
display == <<slot, sent, healthy>>
outside == <<stopping, count>>
vars    == <<view, changed, surface, session, script, midi, display, render, outside>>

-----------------------------------------------------------------------------
(* What is asked of the surface. *)

Unlit == [c \in {} |-> "steady"]
Black == [of |-> "black", frame |-> 0]

ShowsScreen(rest) == rest \in {"awake", "dimmed"}
KeepsAsking(rest) == rest # "off"

\* RestPolicy::levels
Levels(rest) == CASE rest = "awake"  -> [lights |-> "full", screen |-> "full"]
                  [] rest = "dimmed" -> [lights |-> "dim",  screen |-> "dim"]
                  [] rest = "asleep" -> [lights |-> "dim",  screen |-> "none"]
                  [] rest = "off"    -> [lights |-> "none", screen |-> "none"]

\* LedPlan::only_wanting_a_person
OnlyAsking(plan) == [c \in {d \in DOMAIN plan : plan[d] = "asking"} |-> "asking"]

\* The lights a view comes to.
Wanted(v) == IF ShowsScreen(v.rest) THEN v.leds
             ELSE IF KeepsAsking(v.rest) THEN OnlyAsking(v.leds) ELSE Unlit

\* Mutant: a control the new plan does not mention is left as it was.
ChangesForgets(wanted, lit) ==
    [c \in {d \in DOMAIN wanted : d \notin DOMAIN lit \/ lit[d] # wanted[d]} |-> wanted[c]]

\* LedPlan::changes_from
Changes(wanted, lit) ==
    [c \in {d \in DOMAIN wanted : d \notin DOMAIN lit \/ lit[d] # wanted[d]}
             \cup (DOMAIN lit \ DOMAIN wanted) |->
        IF c \in DOMAIN wanted THEN wanted[c] ELSE "off"]

\* The screen a view comes to, at a step of its animation.
Picture(v, frame) == IF ShowsScreen(v.rest)
                     THEN [of |-> v.picture, frame |-> IF v.picture = "moving" THEN frame ELSE 0]
                     ELSE Black

-----------------------------------------------------------------------------
(* The two threads, and the hardware. *)

Message(kind, to) == [kind |-> kind, to |-> to]
BlankAll == Message("lights", [c \in Controls |-> "off"])
Mode(mode) == Message("mode", mode)

\* set_midi_mode, MIDI_START and DisplayLink::open; then install_palette, the
\* touch strip and blank_all_leds, of which one palette entry stands for all.
Greeting == <<Mode("user"), Message("palette", "ours"), BlankAll>>

\* PushOutput::clear, and what dropping the device says.
Farewell == <<BlankAll, BlankAll, Mode("live")>>

\* A Push 2 as it is when it is plugged in.
Fresh == [lights |-> Unlit, level |-> "unknown", screen |-> "unknown", palette |-> "factory",
          mode |-> "live", picture |-> Black]

\* What a message does to the lights that are lit.
LitBy(changes, lights) ==
    [c \in {d \in DOMAIN lights \cup DOMAIN changes :
               IF d \in DOMAIN changes THEN changes[d] # "off" ELSE TRUE} |->
        IF c \in DOMAIN changes THEN changes[c] ELSE lights[c]]

Shows(m) == CASE m.kind = "lights"  -> [hw EXCEPT !.lights = LitBy(m.to, @)]
              [] m.kind = "level"   -> [hw EXCEPT !.level = m.to]
              [] m.kind = "screen"  -> [hw EXCEPT !.screen = m.to]
              [] m.kind = "palette" -> [hw EXCEPT !.palette = m.to]
              [] m.kind = "mode"    -> [hw EXCEPT !.mode = m.to]

Room == Len(queue) < Capacity

\* try_send: what there is no room for is dropped, and a writer that has
\* stopped takes nothing.
Queued(m) == writer = "running" /\ Room /\ queue' = Append(queue, m)
Dropped == \/ writer = "stopped"
           \/ writer = "running" /\ ~Room /\ "writer behind" \in Allowed

\* write_loop: the next message, or the end of the thread when it cannot be
\* written.
Write ==
    /\ writer = "running" /\ queue # <<>>
    /\ \/ /\ alive
          /\ hw' = Shows(Head(queue)) /\ queue' = Tail(queue) /\ UNCHANGED writer
       \/ /\ ~alive \/ "write fails" \in Allowed
          /\ writer' = "stopped" /\ queue' = <<>> /\ UNCHANGED hw
    /\ UNCHANGED <<view, changed, plugged, alive, session, script, display, render, outside>>

\* transfer_loop: the picture in the slot, or the last one again to keep the
\* panel from blanking itself, which a black one does not need.
Transfer ==
    /\ session # "looking" /\ healthy
    /\ slot # None \/ (sent # Black /\ ~alive)
    /\ \/ /\ alive
          /\ hw' = [hw EXCEPT !.picture = slot]
          /\ UNCHANGED healthy
       \/ /\ ~alive \/ "transfer fails" \in Allowed
          /\ healthy' = FALSE /\ UNCHANGED hw
    /\ sent' = (IF slot # None THEN slot ELSE sent) /\ slot' = None
    /\ UNCHANGED <<view, changed, plugged, alive, session, script, midi, render, outside>>

-----------------------------------------------------------------------------
(* The render task. *)

\* RenderTask::new.  drawn is the view it is drawing, lit what it believes is
\* lit, last the picture the renderer drew, brightness the levels it sent.
NewRender == [at |-> "starting", drawn |-> view, lit |-> Unlit, last |-> None,
              brightness |-> None, dark |-> FALSE, animating |-> FALSE, frame |-> 0]

At(step) == session = "serving" /\ render.at = step
Goes(task, step) == [task EXCEPT !.at = step]

\* The task at a step, with what it knows of the screen.
Screened(step, last, dark, animating) ==
    [at |-> step, drawn |-> render.drawn, lit |-> render.lit, last |-> last,
     brightness |-> render.brightness, dark |-> dark, animating |-> animating,
     frame |-> render.frame]

\* draw: the view is taken, and marked as seen, before anything is sent.
Begins(frame) ==
    /\ render' = [at |-> IF render.brightness = Levels(view.rest) THEN "picture" ELSE "level",
                  drawn |-> view, lit |-> render.lit, last |-> render.last,
                  brightness |-> render.brightness, dark |-> render.dark,
                  animating |-> render.animating, frame |-> frame]
    /\ changed' = FALSE
    /\ UNCHANGED <<view, surface, session, script, midi, display, outside>>

\* The first pass always draws; after it, when the view changes.
Draw == (At("starting") \/ (At("waiting") /\ changed /\ ~stopping)) /\ Begins(render.frame)

\* next_frame: the time of the next one has come.
Animate == /\ At("waiting") /\ ~changed /\ ~stopping /\ render.animating
           /\ Begins(1 - render.frame)

\* set_brightness, of the lights and then of the screen.  What could not be
\* queued is said again the next time something is drawn.
OfferLevel ==
    /\ At("level")
    /\ \/ Queued(Message("level", Levels(render.drawn.rest).lights))
          /\ render' = Goes(render, "screen")
       \/ Dropped /\ UNCHANGED queue /\ render' = Goes(render, "picture")
    /\ UNCHANGED <<view, changed, surface, session, script, writer, display, outside>>

OfferScreen ==
    /\ At("screen")
    /\ \/ Queued(Message("screen", Levels(render.drawn.rest).screen))
          /\ render' = Goes([render EXCEPT !.brightness = Levels(render.drawn.rest)], "picture")
       \/ Dropped /\ UNCHANGED queue /\ render' = Goes(render, "picture")
    /\ UNCHANGED <<view, changed, surface, session, script, writer, display, outside>>

\* Letting go begins: what there is to say, and a black screen if it can be.
LetsGo == /\ session' = "leaving" /\ script' = Farewell
          /\ slot' = IF healthy THEN Black ELSE slot

\* draw_screen: nothing that looks the same is presented again.  A display that
\* has stopped is what says the surface is gone.
DrawScreen ==
    LET picture == Picture(render.drawn, render.frame)
        drew(next) == Screened(next, picture, FALSE, picture.of = "moving") IN
    /\ At("picture") /\ ShowsScreen(render.drawn.rest)
    /\ IF picture = render.last
       THEN render' = drew("lights") /\ UNCHANGED <<session, script, slot>>
       ELSE IF healthy
       THEN render' = drew("lights") /\ slot' = picture /\ UNCHANGED <<session, script>>
       ELSE render' = drew("waiting") /\ LetsGo
    /\ UNCHANGED <<view, changed, surface, midi, sent, healthy, outside>>

\* darken_screen: once, and again until it has been.
DarkenScreen ==
    LET darkened(next, dark) ==
            Screened(next, IF dark /\ ~render.dark THEN None ELSE render.last, dark, FALSE) IN
    /\ At("picture") /\ ~ShowsScreen(render.drawn.rest)
    /\ IF render.dark
       THEN render' = darkened("lights", TRUE) /\ UNCHANGED slot
       ELSE IF healthy
       THEN render' = darkened("lights", TRUE) /\ slot' = Black
       ELSE render' = darkened("waiting", FALSE) /\ UNCHANGED slot
    /\ UNCHANGED <<view, changed, surface, session, script, midi, sent, healthy, outside>>

\* Mutant: what was published while the view was drawn is taken as seen.
SendLightsLate ==
    LET wanted == Wanted(render.drawn)
        changes == Changes(wanted, render.lit) IN
    /\ At("lights")
    /\ IF changes = Unlit THEN UNCHANGED queue
       ELSE Queued(Message("lights", changes)) \/ (Dropped /\ UNCHANGED queue)
    /\ render' = Goes([render EXCEPT !.lit = wanted], "waiting")
    /\ changed' = FALSE
    /\ UNCHANGED <<view, surface, session, script, writer, display, outside>>

\* The end of draw: the lights that changed go in one batch, and are taken as
\* lit whether or not there was room for it.
SendLights ==
    LET wanted == Wanted(render.drawn)
        changes == Changes(wanted, render.lit) IN
    /\ At("lights")
    /\ IF changes = Unlit THEN UNCHANGED queue
       ELSE Queued(Message("lights", changes)) \/ (Dropped /\ UNCHANGED queue)
    /\ render' = Goes([render EXCEPT !.lit = wanted], "waiting")
    /\ UNCHANGED <<view, changed, surface, session, script, writer, display, outside>>

-----------------------------------------------------------------------------
(* Taking the surface, and letting go of it. *)

\* The loop of serve_hardware: Push2Device::connect finds the ports.  One whose
\* display somebody else holds is let go of as it is, and looked for again.
Connect ==
    /\ session = "looking" /\ plugged /\ ~stopping
    /\ \/ session' = "greeting" /\ script' = Greeting
       \/ "display taken" \in Allowed
          /\ session' = "closing" /\ script' = <<Mode("user")>>
    /\ alive' = TRUE
    /\ writer' = "running" /\ queue' = <<>>
    /\ slot' = None /\ sent' = Black /\ healthy' = TRUE
    /\ UNCHANGED <<view, changed, plugged, hw, render, outside>>

\* Mutant: what there is no room for is dropped, while letting go too.
SayIfRoom ==
    /\ session \in {"greeting", "leaving", "closing"} /\ script # <<>>
    /\ IF writer = "running" /\ Room THEN queue' = Append(queue, Head(script))
       ELSE UNCHANGED queue
    /\ script' = Tail(script)
    /\ UNCHANGED <<view, changed, surface, session, writer, display, render, outside>>

\* Mutant: room is waited for, from a writer that has stopped too.
SayWhenHeard ==
    /\ session \in {"greeting", "leaving", "closing"} /\ script # <<>>
    /\ writer = "running" /\ Room /\ queue' = Append(queue, Head(script))
    /\ script' = Tail(script)
    /\ UNCHANGED <<view, changed, surface, session, writer, display, render, outside>>

\* send_now, send_batch_now: the next thing is said when there is room for it.
Say ==
    /\ session \in {"greeting", "leaving", "closing"} /\ script # <<>>
    /\ \/ writer = "running" /\ Room /\ queue' = Append(queue, Head(script))
       \/ writer = "stopped" /\ UNCHANGED queue
    /\ script' = Tail(script)
    /\ UNCHANGED <<view, changed, surface, session, writer, display, render, outside>>

\* serve begins: a render task of its own, which knows nothing of the surface.
Serve ==
    /\ session = "greeting" /\ script = <<>>
    /\ session' = "serving" /\ render' = NewRender
    /\ UNCHANGED <<view, changed, surface, script, midi, display, outside>>

\* The render task is told to stop, and has finished the frame it was on.
Leave ==
    /\ At("waiting") /\ stopping
    /\ LetsGo
    /\ UNCHANGED <<view, changed, surface, midi, sent, healthy, render, outside>>

\* The device is dropped: its threads have written what they had and ended.
Release ==
    /\ session \in {"leaving", "closing"} /\ script = <<>>
    /\ queue = <<>> /\ (slot = None \/ ~healthy)
    /\ session' = "looking" /\ alive' = FALSE /\ writer' = "none"
    /\ slot' = None
    /\ UNCHANGED <<view, changed, plugged, hw, script, queue, sent, healthy, render, outside>>

\* The loop ends once PushOS is stopping.
Stops ==
    /\ session = "looking" /\ stopping
    /\ session' = "stopped"
    /\ UNCHANGED <<view, changed, surface, script, midi, display, render, outside>>

-----------------------------------------------------------------------------
(* What comes from outside. *)

\* InputTask::publish
Publish ==
    /\ count.views < MostViews
    /\ \E v \in Views \ {view} : view' = v
    /\ changed' = TRUE
    /\ count' = [count EXCEPT !.views = @ + 1]
    /\ UNCHANGED <<surface, session, script, midi, display, render, stopping>>

\* The cable is pulled out.  A link that was open stays open, to nothing.
Unplug ==
    /\ plugged /\ count.plugs < MostPlugs
    /\ plugged' = FALSE /\ alive' = FALSE
    /\ count' = [count EXCEPT !.plugs = @ + 1]
    /\ UNCHANGED <<view, changed, hw, session, script, midi, display, render, stopping>>

Plug ==
    /\ ~plugged
    /\ plugged' = TRUE /\ hw' = Fresh
    /\ UNCHANGED <<view, changed, alive, session, script, midi, display, render, outside>>

\* Ctrl-C.
Stop ==
    /\ ~stopping /\ stopping' = TRUE
    /\ UNCHANGED <<view, changed, surface, session, script, midi, display, render, count>>

Init ==
    /\ view \in Views /\ changed = FALSE
    /\ plugged = TRUE /\ hw = Fresh /\ alive = FALSE
    /\ session = "looking" /\ script = <<>>
    /\ writer = "none" /\ queue = <<>>
    /\ slot = None /\ sent = Black /\ healthy = TRUE
    /\ render = NewRender
    /\ stopping = FALSE
    /\ count = [views |-> 0, plugs |-> 0]

Task == \/ Draw \/ Animate \/ OfferLevel \/ OfferScreen \/ DrawScreen \/ DarkenScreen \/ SendLights
        \/ Connect \/ Say \/ Serve \/ Leave \/ Release \/ Stops

Next == Task \/ Write \/ Transfer \/ Publish \/ Unplug \/ Plug \/ Stop

\* The task that serves the surface and the two threads go on whenever they
\* can.  Nobody has to press anything, plug anything in, or stop PushOS.
Fairness == WF_vars(Task) /\ WF_vars(Write) /\ WF_vars(Transfer)

Spec == Init /\ [][Next]_vars /\ Fairness

-----------------------------------------------------------------------------
(* What holds. *)

\* Every variable is of its kind; there is a thread to write to exactly while a
\* link is open, and the task that draws has begun only on one that is.
TypeOK ==
    /\ view \in Views /\ changed \in BOOLEAN /\ stopping \in BOOLEAN /\ plugged \in BOOLEAN
    /\ session \in {"looking", "greeting", "serving", "leaving", "closing", "stopped"}
    /\ writer \in {"none", "running", "stopped"}
    /\ (writer = "none") = (session \in {"looking", "stopped"})
    /\ alive => plugged /\ writer # "none"
    /\ Len(queue) <= Capacity /\ (queue # <<>> => writer = "running")
    /\ slot \in Pictures \cup {None} /\ sent \in Pictures /\ healthy \in BOOLEAN
    /\ script # <<>> => session \in {"greeting", "leaving", "closing"}
    /\ DOMAIN hw.lights \subseteq Controls /\ DOMAIN render.lit \subseteq Controls

\* What the surface shows when the view is v.
Right(v) ==
    /\ hw.mode = "user" /\ hw.palette = "ours"
    /\ hw.lights = Wanted(v)
    /\ [lights |-> hw.level, screen |-> hw.screen] = Levels(v.rest)
    /\ hw.picture.of = Picture(v, 0).of

\* A surface nothing is on its way to shows what was last published: every
\* light, the picture and both brightnesses, whatever it showed before and
\* however drawing and writing took turns.
AtRestItIsRight ==
    (At("waiting") /\ ~changed /\ alive /\ queue = <<>> /\ slot = None) => Right(view)

\* A surface PushOS is not serving has been given back: nothing is lit, and it
\* talks to Live as one that was never taken.
HandedBack ==
    (session \in {"looking", "stopped"} /\ plugged) => hw.mode = "live" /\ hw.lights = Unlit

\* What is published gets there: as long as the surface stays, it ends up
\* showing the view.
ShownInTheEnd == <>[](session = "serving" /\ alive /\ ~stopping => Right(view))

\* Stopping ends, whatever has become of the surface by then.
StopEnds == stopping ~> session = "stopped"

\* A surface that is pulled out is found to be gone, and let go of.
UnpluggedIsLetGo == (session = "serving" /\ ~alive) ~> session # "serving"

=============================================================================
