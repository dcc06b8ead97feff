-------------------------- MODULE SurfaceLinkProofs --------------------------
(***************************************************************************)
(* What the surface comes to show is what the render task believes it      *)
(* does, and a surface that is let go of is given back as it was taken.    *)
(***************************************************************************)
EXTENDS SurfaceLink, TLAPS

-----------------------------------------------------------------------------
(* Types. *)

Given    == Colours \cup {"off"}
Batches  == UNION {[told -> Given] : told \in SUBSET Controls}
Kinds    == {"level", "screen", "palette", "mode"}
Words    == Strengths \cup {"ours", "factory", "user", "live", "unknown"}
Messages == [kind : {"lights"}, to : Batches] \cup [kind : Kinds, to : Words]
Hardware == [lights : Plans, level : Words, screen : Words, palette : Words, mode : Words,
             picture : Pictures]
Steps    == {"starting", "level", "screen", "picture", "lights", "waiting"}
Tasks    == [at : Steps, drawn : Views, lit : Plans, last : Pictures \cup {None},
             brightness : [lights : Strengths, screen : Strengths] \cup {None},
             dark : BOOLEAN, animating : BOOLEAN, frame : {0, 1}]

\* TypeOK, and what is in what is shown, said and drawn.
Typed ==
    /\ TypeOK
    /\ hw \in Hardware /\ render \in Tasks
    /\ queue \in Seq(Messages) /\ script \in Seq(Messages)

-----------------------------------------------------------------------------
(* What the surface comes to. *)

\* An aspect of the surface is a light, or one of the four things a message of
\* its own is about.
Light(c)  == [kind |-> "lights", of |-> c]
The(kind) == [kind |-> kind, of |-> None]
Aspects   == {Light(c) : c \in Controls} \cup {The(kind) : kind \in Kinds}

Speaks(m, a) == m.kind = a.kind /\ (a.kind = "lights" => a.of \in DOMAIN m.to)
Value(m, a)  == IF a.kind = "lights" THEN m.to[a.of] ELSE m.to
Lit(plan, c) == IF c \in DOMAIN plan THEN plan[c] ELSE "off"
Now(h, a)    == CASE a.kind = "lights"  -> Lit(h.lights, a.of)
                  [] a.kind = "level"   -> h.level
                  [] a.kind = "screen"  -> h.screen
                  [] a.kind = "palette" -> h.palette
                  [] a.kind = "mode"    -> h.mode

\* Once the messages of q are written to a surface that shows h, a is v: the
\* last one to speak of it says so, or none does and it is so now.
Comes(q, h, a, v) ==
    \/ \E i \in 1..Len(q) : /\ Speaks(q[i], a) /\ Value(q[i], a) = v
                            /\ \A j \in i+1..Len(q) : ~Speaks(q[j], a)
    \/ Now(h, a) = v /\ \A j \in 1..Len(q) : ~Speaks(q[j], a)

Ends(a, v) == Comes(queue, hw, a, v)
GoesDark   == \A c \in Controls : Ends(Light(c), "off")

\* The picture that will be on the screen.
Last == IF slot # None THEN slot ELSE hw.picture

-----------------------------------------------------------------------------
(* The invariants. *)

\* A thread stops only when what it serves has gone.
WriterRuns  == alive => writer = "running"
DisplayRuns == alive => healthy

\* What has been said of a greeting.
Greeted ==
    (session = "greeting" /\ alive) =>
        \/ script = Greeting
        \/ script = <<Message("palette", "ours"), BlankAll>> /\ Ends(The("mode"), "user")
        \/ /\ script = <<BlankAll>>
           /\ Ends(The("mode"), "user") /\ Ends(The("palette"), "ours")
        \/ /\ script = <<>> /\ GoesDark
           /\ Ends(The("mode"), "user") /\ Ends(The("palette"), "ours")

\* What the render task knows of the surface is what the surface comes to.
Known ==
    /\ Ends(The("mode"), "user") /\ Ends(The("palette"), "ours")
    /\ \A c \in Controls : Ends(Light(c), Lit(render.lit, c))
    /\ (render.brightness # None /\ render.at # "screen") =>
          /\ Ends(The("level"), render.brightness.lights)
          /\ Ends(The("screen"), render.brightness.screen)
    /\ render.last # None => Last = render.last
    /\ render.dark => Last = Black /\ render.last = None

\* How far it is with what it draws.
Reached ==
    /\ (render.at # "starting" /\ ~changed) => render.drawn = view
    /\ render.at = "screen" => Ends(The("level"), Levels(render.drawn.rest).lights)
    /\ render.at \in {"picture", "lights", "waiting"} =>
          render.brightness = Levels(render.drawn.rest)
    /\ render.at \in {"lights", "waiting"} =>
          IF ShowsScreen(render.drawn.rest)
          THEN render.last = Picture(render.drawn, render.frame)
          ELSE render.dark
    /\ render.at = "waiting" => render.lit = Wanted(render.drawn)

Served == (session = "serving" /\ alive) => Known /\ Reached

\* What has been said of a farewell.
Parting ==
    (session = "leaving" /\ alive) =>
        \/ script = Farewell
        \/ script = <<BlankAll, Mode("live")>> /\ GoesDark
        \/ script = <<Mode("live")>> /\ GoesDark
        \/ script = <<>> /\ GoesDark /\ Ends(The("mode"), "live")

\* A surface nobody writes to is as it is when it is plugged in.
Untaken == (plugged /\ ~alive) => hw.mode = "live" /\ hw.lights = Unlit

-----------------------------------------------------------------------------
(* Messages and views. *)

\* What a plan of lights is.
LEMMA PlanLemma ==
    ASSUME NEW D \in SUBSET Controls, NEW f \in [D -> Colours]
    PROVE  f \in Plans
BY DEF Plans

LEMMA PlansAre ==
    ASSUME NEW f \in Plans
    PROVE  /\ DOMAIN f \in SUBSET Controls
           /\ f \in [DOMAIN f -> Colours]
BY DEF Plans

LEMMA BatchesAre ==
    ASSUME NEW f \in Batches
    PROVE  /\ DOMAIN f \in SUBSET Controls
           /\ f \in [DOMAIN f -> Given]
BY DEF Batches

\* What is dark is a plan.
LEMMA UnlitIsPlan == Unlit \in Plans /\ DOMAIN Unlit = {}
<1>1. Unlit \in [{} -> Colours]
  BY DEF Unlit
<1> QED
  BY <1>1 DEF Plans, Unlit

\* The messages that are said of old.
LEMMA Sayings ==
    /\ BlankAll \in Messages /\ BlankAll.kind = "lights"
    /\ BlankAll.to = [c \in Controls |-> "off"]
    /\ \A mode \in {"user", "live"} : Mode(mode) \in Messages /\ Mode(mode).kind = "mode"
                                      /\ Mode(mode).to = mode
    /\ Message("palette", "ours") \in Messages
    /\ \A strength \in Strengths : Message("level", strength) \in Messages
                                   /\ Message("screen", strength) \in Messages
<1>1. [c \in Controls |-> "off"] \in [Controls -> Given]
  BY DEF Given
<1>2. [c \in Controls |-> "off"] \in Batches
  BY <1>1 DEF Batches
<1>3. BlankAll \in Messages /\ BlankAll.kind = "lights"
      /\ BlankAll.to = [c \in Controls |-> "off"]
  BY <1>2 DEF BlankAll, Message, Messages
<1>4. \A kind \in Kinds, word \in Words : Message(kind, word) \in Messages
  BY DEF Message, Messages
<1>5. /\ {"user", "live", "ours"} \cup Strengths \subseteq Words
      /\ {"level", "screen", "palette", "mode"} \subseteq Kinds
  BY DEF Words, Kinds
<1>6. \A mode : Mode(mode).kind = "mode" /\ Mode(mode).to = mode
                /\ Mode(mode) = Message("mode", mode)
  BY DEF Mode, Message
<1> QED
  BY <1>3, <1>4, <1>5, <1>6

\* What is asked of the surface for a view.
LEMMA ViewLemma ==
    ASSUME NEW v \in Views
    PROVE  /\ v.rest \in Rests /\ v.leds \in Plans /\ v.picture \in {"still", "moving"}
           /\ Wanted(v) \in Plans
           /\ Levels(v.rest) \in [lights : Strengths, screen : Strengths]
           /\ \A frame \in {0, 1} : Picture(v, frame) \in Pictures
<1>1. v.rest \in Rests /\ v.leds \in Plans /\ v.picture \in {"still", "moving"}
  BY ViewsAssumption
<1>2. OnlyAsking(v.leds) \in Plans
  <2> DEFINE D == {d \in DOMAIN v.leds : v.leds[d] = "asking"}
  <2>1. DOMAIN v.leds \in SUBSET Controls
    BY <1>1, PlansAre
  <2>2. D \in SUBSET Controls
    BY <2>1
  <2>3. OnlyAsking(v.leds) \in [D -> Colours]
    BY DEF OnlyAsking, Colours
  <2> HIDE DEF D
  <2> QED
    BY <2>2, <2>3, PlanLemma
<1>3. Wanted(v) \in Plans
  BY <1>1, <1>2, UnlitIsPlan DEF Wanted
<1>4. Levels(v.rest) \in [lights : Strengths, screen : Strengths]
  BY <1>1 DEF Levels, Rests, Strengths
<1>5. \A frame \in {0, 1} : Picture(v, frame) \in Pictures
  BY <1>1 DEF Picture, Pictures, Black
<1> QED
  BY <1>1, <1>3, <1>4, <1>5

\* What changes from one plan to the next is a batch of lights.
LEMMA ChangesLemma ==
    ASSUME NEW wanted \in Plans, NEW lit \in Plans
    PROVE  /\ Changes(wanted, lit) \in Batches
           /\ \A c \in Controls :
                IF c \in DOMAIN Changes(wanted, lit)
                THEN Changes(wanted, lit)[c] = Lit(wanted, c)
                ELSE Lit(wanted, c) = Lit(lit, c)
<1> DEFINE D == {d \in DOMAIN wanted : d \notin DOMAIN lit \/ lit[d] # wanted[d]}
                   \cup (DOMAIN lit \ DOMAIN wanted)
           f == [c \in D |-> IF c \in DOMAIN wanted THEN wanted[c] ELSE "off"]
<1>1. /\ DOMAIN wanted \in SUBSET Controls /\ DOMAIN lit \in SUBSET Controls
      /\ wanted \in [DOMAIN wanted -> Colours] /\ lit \in [DOMAIN lit -> Colours]
  BY PlansAre
<1>2. Changes(wanted, lit) = f
  BY DEF Changes
<1>3. D \in SUBSET Controls
  BY <1>1
<1>4. \A c \in DOMAIN wanted : wanted[c] \in Colours
  BY <1>1
<1>5. f \in [D -> Given]
  BY <1>4 DEF Given
<1>6. f \in Batches
  BY <1>3, <1>5 DEF Batches
<1>7. ASSUME NEW c \in Controls
      PROVE  IF c \in DOMAIN f THEN f[c] = Lit(wanted, c) ELSE Lit(wanted, c) = Lit(lit, c)
  BY DEF Lit
<1> QED
  BY <1>2, <1>6, <1>7

\* What a surface shows once a message is written to it.
LEMMA ShowsLemma ==
    ASSUME hw \in Hardware, NEW m \in Messages
    PROVE  /\ Shows(m) \in Hardware
           /\ Shows(m).picture = hw.picture
           /\ \A a \in Aspects :
                Now(Shows(m), a) = IF Speaks(m, a) THEN Value(m, a) ELSE Now(hw, a)
<1>1. CASE m.kind = "lights"
  <2> DEFINE D == {d \in DOMAIN hw.lights \cup DOMAIN m.to :
                      IF d \in DOMAIN m.to THEN m.to[d] # "off" ELSE TRUE}
             lights == LitBy(m.to, hw.lights)
  <2>1. m.to \in Batches /\ hw.lights \in Plans
    BY <1>1 DEF Messages, Hardware, Kinds
  <2>2. /\ DOMAIN m.to \in SUBSET Controls /\ m.to \in [DOMAIN m.to -> Given]
        /\ DOMAIN hw.lights \in SUBSET Controls /\ hw.lights \in [DOMAIN hw.lights -> Colours]
    BY <2>1, PlansAre, BatchesAre
  <2>3. lights = [c \in D |-> IF c \in DOMAIN m.to THEN m.to[c] ELSE hw.lights[c]]
    BY DEF LitBy
  <2>4. /\ \A c \in DOMAIN m.to : m.to[c] \in Given
        /\ \A c \in DOMAIN hw.lights : hw.lights[c] \in Colours
    BY <2>2
  <2>5. D \in SUBSET Controls /\ lights \in [D -> Colours]
    BY <2>2, <2>3, <2>4 DEF Given
  <2>6. \A c : Lit(lights, c) = IF c \in DOMAIN m.to THEN m.to[c] ELSE Lit(hw.lights, c)
    BY <2>3 DEF Lit
  <2> HIDE DEF D, lights
  <2>7. lights \in Plans
    BY <2>5, PlanLemma
  <2>8. Shows(m) = [hw EXCEPT !.lights = lights]
    BY <1>1 DEF Shows, lights
  <2>9. Shows(m) = [lights |-> lights, level |-> hw.level, screen |-> hw.screen,
                    palette |-> hw.palette, mode |-> hw.mode, picture |-> hw.picture]
    BY <2>8 DEF Hardware
  <2>10. Shows(m) \in Hardware /\ Shows(m).picture = hw.picture
    BY <2>7, <2>9 DEF Hardware
  <2>11. ASSUME NEW c \in Controls, NEW a, a = Light(c)
         PROVE  Now(Shows(m), a) = IF Speaks(m, a) THEN Value(m, a) ELSE Now(hw, a)
    <3>1. a.kind = "lights" /\ a.of = c
      BY <2>11 DEF Light
    <3>2. Now(Shows(m), a) = Lit(lights, c) /\ Now(hw, a) = Lit(hw.lights, c)
      BY <2>9, <3>1 DEF Now
    <3>3. Speaks(m, a) <=> c \in DOMAIN m.to
      BY <1>1, <3>1 DEF Speaks
    <3>4. Value(m, a) = m.to[c]
      BY <3>1 DEF Value
    <3> QED
      BY <2>6, <3>2, <3>3, <3>4
  <2>12. ASSUME NEW kind \in Kinds, NEW a, a = The(kind)
         PROVE  Now(Shows(m), a) = IF Speaks(m, a) THEN Value(m, a) ELSE Now(hw, a)
    <3>1. a.kind = kind
      BY <2>12 DEF The
    <3>2. ~Speaks(m, a)
      BY <1>1, <3>1 DEF Speaks, Kinds
    <3>3. Now(Shows(m), a) = Now(hw, a)
      BY <2>9, <3>1 DEF Now, Kinds
    <3> QED
      BY <3>2, <3>3
  <2> QED
    BY <2>10, <2>11, <2>12 DEF Aspects
<1>2. CASE m.kind \in Kinds
  <2>1. m.to \in Words
    BY <1>2 DEF Messages, Kinds
  <2>2. Shows(m) = [lights  |-> hw.lights,
                    level   |-> IF m.kind = "level" THEN m.to ELSE hw.level,
                    screen  |-> IF m.kind = "screen" THEN m.to ELSE hw.screen,
                    palette |-> IF m.kind = "palette" THEN m.to ELSE hw.palette,
                    mode    |-> IF m.kind = "mode" THEN m.to ELSE hw.mode,
                    picture |-> hw.picture]
    BY <1>2 DEF Shows, Kinds, Hardware
  <2>3. Shows(m) \in Hardware /\ Shows(m).picture = hw.picture
    BY <2>1, <2>2 DEF Hardware
  <2>4. ASSUME NEW c \in Controls, NEW a, a = Light(c)
        PROVE  Now(Shows(m), a) = IF Speaks(m, a) THEN Value(m, a) ELSE Now(hw, a)
    <3>1. a.kind = "lights" /\ a.of = c
      BY <2>4 DEF Light
    <3>2. Now(Shows(m), a) = Now(hw, a)
      BY <2>2, <3>1 DEF Now
    <3>3. ~Speaks(m, a)
      BY <1>2, <3>1 DEF Speaks, Kinds
    <3> QED
      BY <3>2, <3>3
  <2>5. ASSUME NEW kind \in Kinds, NEW a, a = The(kind)
        PROVE  Now(Shows(m), a) = IF Speaks(m, a) THEN Value(m, a) ELSE Now(hw, a)
    <3>1. a.kind = kind
      BY <2>5 DEF The
    <3>2. (Speaks(m, a) <=> m.kind = kind) /\ Value(m, a) = m.to
      BY <3>1 DEF Speaks, Value, Kinds
    <3>3. Now(Shows(m), a) = IF m.kind = kind THEN m.to ELSE Now(hw, a)
      BY <2>2, <3>1 DEF Now, Kinds
    <3> QED
      BY <3>2, <3>3
  <2> QED
    BY <2>3, <2>4, <2>5 DEF Aspects
<1> QED
  BY <1>1, <1>2 DEF Messages

-----------------------------------------------------------------------------
(* What the messages on their way come to. *)

LEMMA ComesNow ==
    ASSUME NEW h, NEW a, NEW v, Comes(<<>>, h, a, v)
    PROVE  Now(h, a) = v
BY DEF Comes

\* A message that does not speak of it changes nothing.
LEMMA ComesBeside ==
    ASSUME NEW q \in Seq(Messages), NEW m \in Messages, NEW h, NEW a, NEW v,
           Comes(q, h, a, v), ~Speaks(m, a)
    PROVE  Comes(Append(q, m), h, a, v)
<1> DEFINE n == Len(q)
           r == Append(q, m)
<1>1. n \in Nat /\ Len(r) = n + 1
      /\ \A i \in 1..n+1 : r[i] = IF i = n + 1 THEN m ELSE q[i]
  OBVIOUS
<1> HIDE DEF r
<1>2. \A j \in 1..Len(r) : j = n + 1 \/ j \in 1..n
  BY <1>1
<1>3. CASE Now(h, a) = v /\ \A j \in 1..n : ~Speaks(q[j], a)
  <2>1. \A j \in 1..Len(r) : ~Speaks(r[j], a)
    BY <1>1, <1>2, <1>3
  <2> QED
    BY <1>3, <2>1 DEF Comes, r
<1>4. ASSUME NEW i \in 1..n, Speaks(q[i], a), Value(q[i], a) = v,
             \A j \in i+1..n : ~Speaks(q[j], a)
      PROVE  Comes(r, h, a, v)
  <2>1. i \in 1..Len(r) /\ r[i] = q[i]
    BY <1>1
  <2>2. \A j \in i+1..Len(r) : j = n + 1 \/ j \in i+1..n
    BY <1>1
  <2>3. \A j \in i+1..Len(r) : ~Speaks(r[j], a)
    BY <1>1, <1>4, <2>2
  <2> QED
    BY <1>4, <2>1, <2>3 DEF Comes
<1> QED
  BY <1>3, <1>4 DEF Comes, r

\* One that speaks of it has the last word.
LEMMA ComesSaid ==
    ASSUME NEW q \in Seq(Messages), NEW m \in Messages, NEW h, NEW a, Speaks(m, a)
    PROVE  Comes(Append(q, m), h, a, Value(m, a))
<1> DEFINE n == Len(q) + 1
<1>1. n \in 1..Len(Append(q, m)) /\ Append(q, m)[n] = m
  OBVIOUS
<1>2. n+1..Len(Append(q, m)) = {}
  OBVIOUS
<1> QED
  BY <1>1, <1>2 DEF Comes

\* Writing one changes nothing of what they come to.
LEMMA ComesWritten ==
    ASSUME hw \in Hardware, NEW q \in Seq(Messages), q # <<>>, NEW a \in Aspects, NEW v,
           Comes(q, hw, a, v)
    PROVE  Comes(Tail(q), Shows(Head(q)), a, v)
<1> DEFINE n == Len(q)
           m == Head(q)
           r == Tail(q)
<1>1. /\ n \in Nat /\ n > 0 /\ m = q[1] /\ m \in Messages /\ Len(r) = n - 1
      /\ \A i \in 1..n-1 : r[i] = q[i+1]
  OBVIOUS
<1>2. Now(Shows(m), a) = IF Speaks(m, a) THEN Value(m, a) ELSE Now(hw, a)
  BY <1>1, ShowsLemma
<1> HIDE DEF m, r
<1>3. \A j \in 1..Len(r) : j + 1 \in 1..n /\ j + 1 \in 2..n /\ r[j] = q[j+1]
  BY <1>1
<1>4. CASE Now(hw, a) = v /\ \A j \in 1..n : ~Speaks(q[j], a)
  <2>1. \A j \in 1..Len(r) : ~Speaks(r[j], a)
    BY <1>3, <1>4
  <2>2. ~Speaks(m, a)
    BY <1>1, <1>4
  <2> QED
    BY <1>2, <1>4, <2>1, <2>2 DEF Comes, m, r
<1>5. ASSUME NEW i \in 1..n, Speaks(q[i], a), Value(q[i], a) = v,
             \A j \in i+1..n : ~Speaks(q[j], a)
      PROVE  Comes(r, Shows(m), a, v)
  <2>1. CASE i = 1
    <3>1. \A j \in 1..Len(r) : j + 1 \in i+1..n
      BY <1>1, <2>1
    <3>2. \A j \in 1..Len(r) : ~Speaks(r[j], a)
      BY <1>3, <1>5, <3>1
    <3>3. Now(Shows(m), a) = v
      BY <1>1, <1>2, <1>5, <2>1
    <3> QED
      BY <3>2, <3>3 DEF Comes
  <2>2. CASE i # 1
    <3>1. i - 1 \in 1..Len(r) /\ r[i-1] = q[i]
      BY <1>1, <2>2
    <3>2. \A j \in (i-1)+1..Len(r) : j \in 1..Len(r) /\ j + 1 \in i+1..n
      BY <1>1, <2>2
    <3>3. \A j \in (i-1)+1..Len(r) : ~Speaks(r[j], a)
      BY <1>3, <1>5, <3>2
    <3> QED
      BY <1>5, <3>1, <3>3 DEF Comes
  <2> QED
    BY <2>1, <2>2
<1> QED
  BY <1>4, <1>5 DEF Comes, m, r

-----------------------------------------------------------------------------
(* Types are kept. *)

\* The task at another step, and with one thing it knows changed.
LEMMA TaskLemma ==
    ASSUME NEW t \in Tasks, NEW step \in Steps
    PROVE  /\ Goes(t, step) = [at |-> step, drawn |-> t.drawn, lit |-> t.lit, last |-> t.last,
                               brightness |-> t.brightness, dark |-> t.dark,
                               animating |-> t.animating, frame |-> t.frame]
           /\ Goes(t, step) \in Tasks
           /\ \A lit \in Plans : [t EXCEPT !.lit = lit] \in Tasks
           /\ \A levels \in [lights : Strengths, screen : Strengths] :
                 [t EXCEPT !.brightness = levels] \in Tasks
<1>1. t = [at |-> t.at, drawn |-> t.drawn, lit |-> t.lit, last |-> t.last,
           brightness |-> t.brightness, dark |-> t.dark, animating |-> t.animating,
           frame |-> t.frame]
  BY DEF Tasks
<1>2. Goes(t, step) = [at |-> step, drawn |-> t.drawn, lit |-> t.lit, last |-> t.last,
                       brightness |-> t.brightness, dark |-> t.dark,
                       animating |-> t.animating, frame |-> t.frame]
  BY <1>1 DEF Goes
<1>3. Goes(t, step) \in Tasks
  BY <1>2 DEF Tasks
<1>4. \A lit \in Plans : [t EXCEPT !.lit = lit] \in Tasks
  BY DEF Tasks
<1>5. \A levels \in [lights : Strengths, screen : Strengths] :
          [t EXCEPT !.brightness = levels] \in Tasks
  BY DEF Tasks
<1> QED
  BY <1>2, <1>3, <1>4, <1>5

\* What a task keeps when it goes on to another step.
LEMMA GoesLemma ==
    ASSUME NEW t \in Tasks, NEW step \in Steps, NEW next, next = Goes(t, step)
    PROVE  /\ next.at = step /\ next.drawn = t.drawn /\ next.lit = t.lit /\ next.last = t.last
           /\ next.brightness = t.brightness /\ next.dark = t.dark /\ next.frame = t.frame
<1>1. next = [at |-> step, drawn |-> t.drawn, lit |-> t.lit, last |-> t.last,
              brightness |-> t.brightness, dark |-> t.dark, animating |-> t.animating,
              frame |-> t.frame]
  BY TaskLemma
<1> QED
  BY <1>1

LEMMA ScreenedLemma ==
    ASSUME render \in Tasks, NEW step \in Steps, NEW last \in Pictures \cup {None},
           NEW dark \in BOOLEAN, NEW animating \in BOOLEAN
    PROVE  Screened(step, last, dark, animating) \in Tasks
BY DEF Screened, Tasks

\* A task that has just begun.
LEMMA NewTask ==
    ASSUME view \in Views
    PROVE  NewRender \in Tasks
BY UnlitIsPlan DEF NewRender, Tasks, Steps

\* There is room for one more message than there was.
LEMMA QueuedLemma ==
    ASSUME Typed, NEW m \in Messages, Room, queue' = Append(queue, m)
    PROVE  queue' \in Seq(Messages) /\ Len(queue') <= Capacity /\ queue' # <<>>
BY CapacityAssumption DEF Typed, Room

\* What is offered, if it is not dropped.
LEMMA OfferTyped ==
    ASSUME Typed, NEW m \in Messages, Queued(m) \/ (Dropped /\ UNCHANGED queue) \/ UNCHANGED queue
    PROVE  /\ queue' \in Seq(Messages) /\ Len(queue') <= Capacity
           /\ queue' # <<>> => writer = "running"
<1>1. CASE Queued(m)
  BY <1>1, QueuedLemma DEF Queued
<1>2. CASE UNCHANGED queue
  BY <1>2 DEF Typed, TypeOK
<1> QED
  BY <1>1, <1>2

\* A step of the render task that may offer a message, with the surface left
\* as it is.
LEMMA RenderTyped ==
    ASSUME Typed, session = "serving", render' \in Tasks,
           NEW m \in Messages, Queued(m) \/ (Dropped /\ UNCHANGED queue) \/ UNCHANGED queue,
           changed' \in BOOLEAN, UNCHANGED <<view, surface, session, script, writer, display, outside>>
    PROVE  Typed'
<1>1. /\ queue' \in Seq(Messages) /\ Len(queue') <= Capacity
      /\ queue' # <<>> => writer = "running"
  BY OfferTyped
<1>2. DOMAIN render'.lit \subseteq Controls
  BY PlansAre DEF Tasks
<1> QED
  BY <1>1, <1>2 DEF Typed, TypeOK, surface, display, outside

LEMMA BeginsTyped ==
    ASSUME Typed, session = "serving", NEW frame \in {0, 1}, Begins(frame)
    PROVE  Typed'
<1>1. render' \in Tasks
  BY DEF Begins, Typed, TypeOK, Tasks, Steps
<1>2. BlankAll \in Messages
  BY Sayings
<1> QED
  BY <1>1, <1>2, RenderTyped DEF Begins, midi

LEMMA OffersTyped ==
    ASSUME Typed, OfferLevel \/ OfferScreen
    PROVE  Typed'
<1> DEFINE levels == Levels(render.drawn.rest)
<1>1. /\ render \in Tasks /\ levels \in [lights : Strengths, screen : Strengths]
      /\ session = "serving"
  BY ViewLemma DEF Typed, Tasks, OfferLevel, OfferScreen, At
<1>2. levels.lights \in Strengths /\ levels.screen \in Strengths
  BY <1>1
<1>3. /\ Message("level", levels.lights) \in Messages
      /\ Message("screen", levels.screen) \in Messages
  BY <1>2, Sayings
<1>4. [render EXCEPT !.brightness = levels] \in Tasks
  BY <1>1, TaskLemma DEF Steps
<1>5. changed' \in BOOLEAN /\ UNCHANGED <<view, surface, session, script, writer, display, outside>>
  BY DEF OfferLevel, OfferScreen, Typed, TypeOK
<1>6. CASE OfferLevel
  <2>1. render' = Goes(render, "screen") \/ render' = Goes(render, "picture")
    BY <1>6 DEF OfferLevel
  <2>2. render' \in Tasks
    BY <1>1, <2>1, TaskLemma DEF Steps
  <2> QED
    BY <1>1, <1>3, <1>5, <1>6, <2>2, RenderTyped DEF OfferLevel
<1>7. CASE OfferScreen
  <2>1. \/ render' = Goes([render EXCEPT !.brightness = levels], "picture")
        \/ render' = Goes(render, "picture")
    BY <1>7 DEF OfferScreen
  <2>2. render' \in Tasks
    BY <1>1, <1>4, <2>1, TaskLemma DEF Steps
  <2> QED
    BY <1>1, <1>3, <1>5, <1>7, <2>2, RenderTyped DEF OfferScreen
<1> QED
  BY <1>6, <1>7

LEMMA LightsTyped ==
    ASSUME Typed, SendLights
    PROVE  Typed'
<1> DEFINE wanted == Wanted(render.drawn)
           changes == Changes(wanted, render.lit)
<1>1. render \in Tasks /\ wanted \in Plans /\ render.lit \in Plans /\ session = "serving"
  BY ViewLemma DEF Typed, Tasks, SendLights, At
<1>2. Message("lights", changes) \in Messages
  <2>1. changes \in Batches
    BY <1>1, ChangesLemma
  <2> QED
    BY <2>1 DEF Message, Messages
<1>3. [render EXCEPT !.lit = wanted] \in Tasks
  BY <1>1, TaskLemma DEF Steps
<1>4. render' \in Tasks
  BY <1>3, TaskLemma DEF SendLights, Steps
<1>5. /\ UNCHANGED queue \/ Queued(Message("lights", changes)) \/ (Dropped /\ UNCHANGED queue)
      /\ changed' \in BOOLEAN
      /\ UNCHANGED <<view, surface, session, script, writer, display, outside>>
  BY DEF SendLights, Typed, TypeOK
<1> HIDE DEF changes, wanted
<1> QED
  BY <1>1, <1>2, <1>4, <1>5, RenderTyped

\* Letting go begins.
LEMMA LetsGoTyped ==
    ASSUME Typed, session = "serving", LetsGo, render' \in Tasks,
           UNCHANGED <<view, changed, surface, midi, sent, healthy, outside>>
    PROVE  Typed'
<1>1. Farewell \in Seq(Messages)
  BY Sayings DEF Farewell
<1>2. DOMAIN render'.lit \subseteq Controls
  BY PlansAre DEF Tasks
<1>3. slot' \in Pictures \cup {None}
  BY DEF LetsGo, Black, Pictures, Typed, TypeOK
<1>4. session' = "leaving" /\ script' \in Seq(Messages)
  BY <1>1 DEF LetsGo
<1> QED
  BY <1>2, <1>3, <1>4 DEF Typed, TypeOK, surface, midi, outside

LEMMA ScreenTyped ==
    ASSUME Typed, DrawScreen \/ DarkenScreen
    PROVE  Typed'
<1> DEFINE picture == Picture(render.drawn, render.frame)
<1>1. /\ render \in Tasks /\ render.drawn \in Views /\ render.frame \in {0, 1}
      /\ session = "serving" /\ render.dark \in BOOLEAN /\ render.last \in Pictures \cup {None}
  BY DEF Typed, Tasks, DrawScreen, DarkenScreen, At
<1>2. picture \in Pictures /\ Black \in Pictures
  BY <1>1, ViewLemma DEF Black, Pictures
<1>3. (picture.of = "moving") \in BOOLEAN
  OBVIOUS
<1>4. CASE DrawScreen
  <2>1. \E step \in {"lights", "waiting"} :
            render' = Screened(step, picture, FALSE, picture.of = "moving")
    BY <1>4, Zenon DEF DrawScreen
  <2> HIDE DEF picture
  <2>2. render' \in Tasks
    <3>1. PICK step \in {"lights", "waiting"} :
              render' = Screened(step, picture, FALSE, picture.of = "moving")
      BY <2>1
    <3>2. step \in Steps /\ picture \in Pictures \cup {None} /\ FALSE \in BOOLEAN
      BY <1>2, <3>1 DEF Steps
    <3>3. Screened(step, picture, FALSE, picture.of = "moving") \in Tasks
      BY <1>1, <1>3, <3>2, ScreenedLemma
    <3> QED
      BY <3>1, <3>3
  <2>3. UNCHANGED <<view, changed, surface, midi, sent, healthy, outside>>
    BY <1>4 DEF DrawScreen
  <2>4. CASE LetsGo
    BY <1>1, <2>2, <2>3, <2>4, LetsGoTyped
  <2>5. CASE ~LetsGo
    <3>1. UNCHANGED <<session, script>> /\ (slot' = slot \/ slot' = picture)
      BY <1>4, <2>5, Zenon DEF DrawScreen, picture
    <3>2. DOMAIN render'.lit \subseteq Controls
      BY <2>2, PlansAre DEF Tasks
    <3>3. slot' \in Pictures \cup {None}
      BY <1>2, <3>1 DEF Typed, TypeOK
    <3> QED
      BY <2>2, <2>3, <3>1, <3>2, <3>3 DEF Typed, TypeOK, surface, midi, outside
  <2> QED
    BY <2>4, <2>5
<1>5. CASE DarkenScreen
  <2>1. \E step \in {"lights", "waiting"}, dark \in BOOLEAN, last \in {None, render.last} :
            render' = Screened(step, last, dark, FALSE)
    BY <1>5 DEF DarkenScreen
  <2>2. render' \in Tasks
    BY <1>1, <2>1, ScreenedLemma DEF Steps
  <2>3. /\ UNCHANGED <<view, changed, surface, session, script, midi, sent, healthy, outside>>
        /\ slot' = slot \/ slot' = Black
    BY <1>5, Zenon DEF DarkenScreen
  <2>4. DOMAIN render'.lit \subseteq Controls
    BY <2>2, PlansAre DEF Tasks
  <2>5. slot' \in Pictures \cup {None}
    BY <1>2, <2>3 DEF Typed, TypeOK
  <2> QED
    BY <2>2, <2>3, <2>4, <2>5 DEF Typed, TypeOK, surface, midi, outside
<1> QED
  BY <1>4, <1>5

LEMMA ThreadsTyped ==
    ASSUME Typed, Write \/ Transfer
    PROVE  Typed'
<1>1. CASE Write
  <2>1. queue # <<>> /\ queue \in Seq(Messages) /\ writer = "running"
    BY <1>1 DEF Write, Typed
  <2>2. Head(queue) \in Messages /\ Tail(queue) \in Seq(Messages)
        /\ Len(Tail(queue)) = Len(queue) - 1 /\ Len(queue) \in Nat
    BY <2>1
  <2>3. Shows(Head(queue)) \in Hardware
    BY <2>2, ShowsLemma DEF Typed
  <2>4. hw' \in Hardware
    BY <1>1, <2>3 DEF Write, Typed
  <2>5. DOMAIN hw'.lights \subseteq Controls
    BY <2>4, PlansAre DEF Hardware
  <2>6. /\ queue' \in Seq(Messages) /\ Len(queue') <= Capacity
        /\ writer' \in {"running", "stopped"} /\ (queue' # <<>> => writer' = "running")
    <3>1. CASE queue' = Tail(queue) /\ writer' = writer
      BY <2>1, <2>2, <3>1, CapacityAssumption DEF Typed, TypeOK
    <3>2. CASE queue' = <<>> /\ writer' = "stopped"
      BY <3>2, CapacityAssumption
    <3> QED
      BY <1>1, <3>1, <3>2 DEF Write
  <2> QED
    BY <1>1, <2>1, <2>4, <2>5, <2>6 DEF Write, Typed, TypeOK, display, outside
<1>2. CASE Transfer
  <2>1. slot' = None /\ sent' \in Pictures /\ healthy' \in BOOLEAN
    BY <1>2 DEF Transfer, Typed, TypeOK
  <2>2. hw' = hw \/ (alive /\ slot # None /\ hw' = [hw EXCEPT !.picture = slot])
    BY <1>2 DEF Transfer
  <2>3. hw' \in Hardware
    BY <2>2 DEF Typed, TypeOK, Hardware
  <2>4. DOMAIN hw'.lights \subseteq Controls
    BY <2>3, PlansAre DEF Hardware
  <2>5. UNCHANGED <<view, changed, plugged, alive, session, script, midi, render, outside>>
    BY <1>2 DEF Transfer
  <2> QED
    BY <2>1, <2>3, <2>4, <2>5 DEF Typed, TypeOK, midi, outside
<1> QED
  BY <1>1, <1>2

LEMMA SessionTyped ==
    ASSUME Typed, Connect \/ Say \/ Serve \/ Leave \/ Release \/ Stops
    PROVE  Typed'
<1>1. CASE Connect
  <2>1. script' \in Seq(Messages)
    <3>1. Greeting \in Seq(Messages) /\ <<Mode("user")>> \in Seq(Messages)
      BY Sayings DEF Greeting
    <3> QED
      BY <1>1, <3>1 DEF Connect
  <2>2. session' \in {"greeting", "closing"} /\ writer' = "running" /\ queue' = <<>>
    BY <1>1 DEF Connect
  <2>3. queue' \in Seq(Messages) /\ Len(queue') <= Capacity
    BY <2>2, CapacityAssumption
  <2>4. sent' \in Pictures /\ slot' = None /\ healthy' \in BOOLEAN
    BY <1>1 DEF Connect, Black, Pictures
  <2>5. plugged' /\ UNCHANGED <<view, changed, plugged, hw, render, outside>>
    BY <1>1 DEF Connect
  <2> QED
    BY <2>1, <2>2, <2>3, <2>4, <2>5 DEF Typed, TypeOK, outside
<1>2. CASE Say
  <2>1. script # <<>> /\ script \in Seq(Messages)
    BY <1>2 DEF Say, Typed
  <2>2. Head(script) \in Messages /\ Tail(script) \in Seq(Messages)
    BY <2>1
  <2>3. queue' \in Seq(Messages) /\ Len(queue') <= Capacity
        /\ (queue' # <<>> => writer = "running")
    <3>1. Queued(Head(script)) \/ UNCHANGED queue
      BY <1>2 DEF Say, Queued
    <3> QED
      BY <2>2, <3>1, OfferTyped
  <2> QED
    BY <1>2, <2>2, <2>3 DEF Say, Typed, TypeOK, surface, display, outside
<1>3. CASE Serve
  <2>1. NewRender \in Tasks
    BY NewTask DEF Typed, TypeOK
  <2>2. render' \in Tasks /\ DOMAIN render'.lit \subseteq Controls
    BY <1>3, <2>1, PlansAre DEF Serve, Tasks
  <2> QED
    BY <1>3, <2>2 DEF Serve, Typed, TypeOK, surface, midi, display, outside
<1>4. CASE Leave
  BY <1>4, LetsGoTyped DEF Leave, At, Typed
<1>5. CASE Release
  BY <1>5 DEF Release, Typed, TypeOK, outside
<1>6. CASE Stops
  BY <1>6 DEF Stops, Typed, TypeOK, surface, midi, display, outside
<1> QED
  BY <1>1, <1>2, <1>3, <1>4, <1>5, <1>6

\* A Push 2 as it is plugged in.
LEMMA FreshLemma ==
    Fresh \in Hardware /\ Fresh.mode = "live" /\ Fresh.lights = Unlit
BY UnlitIsPlan DEF Fresh, Hardware, Words, Black, Pictures

LEMMA OutsideTyped ==
    ASSUME Typed, Publish \/ Unplug \/ Plug \/ Stop \/ UNCHANGED vars
    PROVE  Typed'
<1>1. CASE Publish
  BY <1>1 DEF Publish, Typed, TypeOK, surface, midi, display
<1>2. CASE Unplug
  BY <1>2 DEF Unplug, Typed, TypeOK, midi, display
<1>3. CASE Plug
  <2>1. hw' \in Hardware /\ hw'.lights = Unlit
    BY <1>3, FreshLemma DEF Plug
  <2> QED
    BY <1>3, <2>1, UnlitIsPlan DEF Plug, Typed, TypeOK, midi, display, outside
<1>4. CASE Stop
  BY <1>4 DEF Stop, Typed, TypeOK, surface, midi, display
<1>5. CASE UNCHANGED vars
  BY <1>5 DEF vars, Typed, TypeOK, surface, midi, display, outside
<1> QED
  BY <1>1, <1>2, <1>3, <1>4, <1>5

LEMMA NextTyped == Typed /\ [Next]_vars => Typed'
<1> SUFFICES ASSUME Typed, [Next]_vars PROVE Typed'
  OBVIOUS
<1>1. CASE Draw \/ Animate
  <2>1. render.frame \in {0, 1} /\ 1 - render.frame \in {0, 1}
    BY DEF Typed, Tasks
  <2>2. session = "serving" /\ (Begins(render.frame) \/ Begins(1 - render.frame))
    BY <1>1 DEF Draw, Animate, At
  <2> QED
    BY <2>1, <2>2, BeginsTyped
<1> QED
  BY <1>1, OffersTyped, LightsTyped, ScreenTyped, ThreadsTyped, SessionTyped, OutsideTyped
     DEF Next, Task

LEMMA InitTyped == Init => Typed
<1> SUFFICES ASSUME Init PROVE Typed
  OBVIOUS
<1>1. view \in Views /\ render \in Tasks
  BY NewTask DEF Init
<1>2. DOMAIN render.lit \subseteq Controls
  BY <1>1, PlansAre DEF Tasks
<1>3. hw \in Hardware /\ DOMAIN hw.lights \subseteq Controls
  BY FreshLemma, UnlitIsPlan DEF Init
<1>4. queue = <<>> /\ queue \in Seq(Messages) /\ Len(queue) <= Capacity /\ script \in Seq(Messages)
  BY CapacityAssumption DEF Init
<1>5. Black \in Pictures
  BY DEF Black, Pictures
<1> QED
  BY <1>1, <1>2, <1>3, <1>4, <1>5 DEF Init, Typed, TypeOK

\* Every variable of the surface is of its kind, whatever is published, plugged
\* and unplugged.
THEOREM SurfaceTypes == Spec => []TypeOK
<1>1. Typed => TypeOK
  BY DEF Typed
<1> QED
  BY InitTyped, NextTyped, <1>1, PTL DEF Spec

-----------------------------------------------------------------------------
(* What reaches the surface. *)

\* No message fails to be written to a surface that is there.
Writable == "write fails" \notin Allowed

\* Plans that light the same are the same.
LEMMA SameLights ==
    ASSUME NEW f \in Plans, NEW g \in Plans, \A c \in Controls : Lit(f, c) = Lit(g, c)
    PROVE  f = g
<1>1. /\ DOMAIN f \in SUBSET Controls /\ f \in [DOMAIN f -> Colours]
      /\ DOMAIN g \in SUBSET Controls /\ g \in [DOMAIN g -> Colours]
  BY PlansAre
<1>2. \A c \in Controls : (c \in DOMAIN f <=> c \in DOMAIN g) /\ (c \in DOMAIN f => f[c] = g[c])
  <2> SUFFICES ASSUME NEW c \in Controls
               PROVE  (c \in DOMAIN f <=> c \in DOMAIN g) /\ (c \in DOMAIN f => f[c] = g[c])
    OBVIOUS
  <2>1. /\ c \in DOMAIN f => f[c] \in Colours
        /\ c \in DOMAIN g => g[c] \in Colours
    BY <1>1
  <2>2. "off" \notin Colours
    BY DEF Colours
  <2> QED
    BY <2>1, <2>2 DEF Lit
<1>3. DOMAIN f = DOMAIN g
  BY <1>1, <1>2
<1> QED
  BY <1>1, <1>2, <1>3

\* A thread that stops while the surface is there has failed to write.
LEMMA WriterRunsOn ==
    ASSUME Typed, Writable, WriterRuns, [Next]_vars
    PROVE  WriterRuns'
<1> USE DEF WriterRuns
<1>1. CASE Write
  BY <1>1, Zenon DEF Write, Writable
<1>2. CASE Connect
  BY <1>2 DEF Connect
<1>3. CASE Release
  BY <1>3 DEF Release
<1>4. CASE Unplug
  BY <1>4 DEF Unplug
<1>5. CASE ~(Write \/ Connect \/ Release \/ Unplug)
  <2>1. writer' = writer /\ alive' = alive
    BY <1>5 DEF Next, Task, Draw, Animate, Begins, OfferLevel, OfferScreen, DrawScreen, DarkenScreen,
                SendLights, Say, Serve, Leave, Stops, Transfer, Publish, Plug, Stop, vars,
                surface, midi
  <2> QED
    BY <2>1
<1> QED
  BY <1>1, <1>2, <1>3, <1>4, <1>5

\* A light, and whatever else is an aspect of the surface.
LEMMA AspectsAre ==
    /\ \A c \in Controls : Light(c) \in Aspects /\ Light(c).kind = "lights" /\ Light(c).of = c
    /\ \A kind \in Kinds : The(kind) \in Aspects /\ The(kind).kind = kind
    /\ {The("mode"), The("palette"), The("level"), The("screen")} \subseteq Aspects
<1>1. \A c \in Controls : Light(c) \in Aspects /\ Light(c).kind = "lights" /\ Light(c).of = c
  BY DEF Aspects, Light
<1>2. \A kind \in Kinds : The(kind) \in Aspects /\ The(kind).kind = kind
  BY DEF Aspects, The
<1> QED
  BY <1>1, <1>2 DEF Kinds

\* What the threads and the world outside do leaves the task and its session
\* alone, and what the messages come to.
World == Write \/ Transfer \/ Publish \/ Unplug \/ Plug \/ Stop \/ UNCHANGED vars

LEMMA WorldLemma ==
    ASSUME Typed, Writable, World, alive'
    PROVE  /\ alive /\ UNCHANGED <<session, script, render>>
           /\ \A a \in Aspects : \A v : Ends(a, v) => Comes(queue', hw', a, v)
<1>1. CASE Write
  <2>1. alive /\ UNCHANGED <<session, script, render>>
    BY <1>1 DEF Write
  <2>2. hw' = Shows(Head(queue)) /\ queue' = Tail(queue) /\ queue # <<>>
    BY <1>1, <2>1, Zenon DEF Write, Writable
  <2>3. hw \in Hardware /\ queue \in Seq(Messages)
    BY DEF Typed
  <2>4. ASSUME NEW a \in Aspects, NEW v, Ends(a, v)
        PROVE  Comes(queue', hw', a, v)
    <3>1. Comes(Tail(queue), Shows(Head(queue)), a, v)
      BY <2>2, <2>3, <2>4, ComesWritten DEF Ends
    <3> QED
      BY <2>2, <3>1
  <2> QED
    BY <2>1, <2>4
<1>2. CASE Transfer
  <2>1. alive /\ UNCHANGED <<session, script, render, queue>>
    BY <1>2 DEF Transfer, midi
  <2>2. hw' = hw \/ hw' = [hw EXCEPT !.picture = slot]
    BY <1>2 DEF Transfer
  <2>3. \A a \in Aspects : Now(hw', a) = Now(hw, a)
    <3>1. /\ hw'.lights = hw.lights /\ hw'.level = hw.level /\ hw'.screen = hw.screen
          /\ hw'.palette = hw.palette /\ hw'.mode = hw.mode
      BY <2>2 DEF Typed, Hardware
    <3> QED
      BY <3>1 DEF Now
  <2> QED
    BY <2>1, <2>3 DEF Ends, Comes
<1>3. CASE Publish \/ Unplug \/ Plug \/ Stop \/ UNCHANGED vars
  <2>1. alive /\ UNCHANGED <<session, script, render, queue, hw>>
    BY <1>3 DEF Publish, Unplug, Plug, Stop, vars, surface, midi, Typed, TypeOK
  <2> QED
    BY <2>1 DEF Ends
<1> QED
  BY <1>1, <1>2, <1>3 DEF World

\* What is said as the surface is taken and let go of, once it is heard.
LEMMA SayLemma ==
    ASSUME Typed, WriterRuns, Say, alive'
    PROVE  /\ script # <<>> /\ script' = Tail(script) /\ UNCHANGED <<session, alive, hw>>
           /\ Head(script) \in Messages
           /\ \A a \in Aspects : \A v : Ends(a, v) /\ ~Speaks(Head(script), a)
                                       => Comes(queue', hw', a, v)
           /\ \A a \in Aspects : Speaks(Head(script), a)
                                       => Comes(queue', hw', a, Value(Head(script), a))
<1>1. script # <<>> /\ script' = Tail(script) /\ UNCHANGED <<session, alive, hw>>
  BY DEF Say, surface
<1>2. writer = "running"
  BY <1>1 DEF WriterRuns
<1>3. queue' = Append(queue, Head(script))
  BY <1>2 DEF Say
<1>4. queue \in Seq(Messages) /\ Head(script) \in Messages
  BY <1>1 DEF Typed
<1> QED
  BY <1>1, <1>3, <1>4, ComesBeside, ComesSaid DEF Ends

\* What the things that are said speak of.
LEMMA SayingsSpeak ==
    /\ \A mode \in {"user", "live"} :
         /\ Speaks(Mode(mode), The("mode")) /\ Value(Mode(mode), The("mode")) = mode
         /\ ~Speaks(Mode(mode), The("palette"))
         /\ \A c \in Controls : ~Speaks(Mode(mode), Light(c))
    /\ Speaks(Message("palette", "ours"), The("palette"))
    /\ Value(Message("palette", "ours"), The("palette")) = "ours"
    /\ ~Speaks(Message("palette", "ours"), The("mode"))
    /\ ~Speaks(BlankAll, The("mode")) /\ ~Speaks(BlankAll, The("palette"))
    /\ \A c \in Controls : Speaks(BlankAll, Light(c)) /\ Value(BlankAll, Light(c)) = "off"
<1>1. /\ The("mode").kind = "mode" /\ The("palette").kind = "palette"
      /\ \A c \in Controls : Light(c).kind = "lights" /\ Light(c).of = c
  BY DEF The, Light
<1>2. /\ BlankAll.kind = "lights" /\ BlankAll.to = [c \in Controls |-> "off"]
      /\ Message("palette", "ours").kind = "palette" /\ Message("palette", "ours").to = "ours"
  BY Sayings DEF Message
<1>3. \A mode \in {"user", "live"} : Mode(mode).kind = "mode" /\ Mode(mode).to = mode
  BY Sayings
<1> HIDE DEF Light, The, Mode, Message, BlankAll
<1> QED
  BY <1>1, <1>2, <1>3 DEF Speaks, Value

-----------------------------------------------------------------------------
(* Letting go. *)

\* Every display that is found can be opened.
Openable == "display taken" \notin Allowed

Handing == WriterRuns /\ session # "closing" /\ Parting /\ Untaken

\* What saying the next thing of a farewell leaves to be said.
LEMMA FarewellSaid ==
    ASSUME Typed, WriterRuns, Parting, Say, session = "leaving"
    PROVE  Parting'
<1> SUFFICES ASSUME alive' PROVE
        \/ script' = Farewell
        \/ script' = <<BlankAll, Mode("live")>> /\ GoesDark'
        \/ script' = <<Mode("live")>> /\ GoesDark'
        \/ script' = <<>> /\ GoesDark' /\ Ends(The("mode"), "live")'
  BY DEF Parting
<1> DEFINE m == Head(script)
<1>1. /\ script # <<>> /\ script' = Tail(script) /\ alive
      /\ \A a \in Aspects : \A v : Ends(a, v) /\ ~Speaks(m, a) => Comes(queue', hw', a, v)
      /\ \A a \in Aspects : Speaks(m, a) => Comes(queue', hw', a, Value(m, a))
  BY SayLemma
<1>2. \/ script = Farewell
      \/ script = <<BlankAll, Mode("live")>> /\ GoesDark
      \/ script = <<Mode("live")>> /\ GoesDark
  BY <1>1 DEF Parting
<1> HIDE DEF m
<1>3. ASSUME m = BlankAll PROVE GoesDark'
  <2>1. \A c \in Controls : Comes(queue', hw', Light(c), "off")
    BY <1>1, <1>3, AspectsAre, SayingsSpeak
  <2> QED
    BY <2>1 DEF GoesDark, Ends
<1>4. CASE script = Farewell
  <2>1. m = BlankAll /\ script' = <<BlankAll, Mode("live")>>
    BY <1>1, <1>4 DEF Farewell, m
  <2> QED
    BY <1>3, <2>1
<1>5. CASE script = <<BlankAll, Mode("live")>>
  <2>1. m = BlankAll /\ script' = <<Mode("live")>>
    BY <1>1, <1>5 DEF m
  <2> QED
    BY <1>3, <2>1
<1>6. CASE script = <<Mode("live")>> /\ GoesDark
  <2>1. m = Mode("live") /\ script' = <<>>
    BY <1>1, <1>6 DEF m
  <2>2. \A c \in Controls : Comes(queue', hw', Light(c), "off")
    BY <1>1, <1>6, <2>1, AspectsAre, SayingsSpeak DEF GoesDark
  <2>3. Comes(queue', hw', The("mode"), "live")
    BY <1>1, <2>1, AspectsAre, SayingsSpeak
  <2> QED
    BY <2>1, <2>2, <2>3 DEF GoesDark, Ends
<1> QED
  BY <1>2, <1>4, <1>5, <1>6

LEMMA HandingKept ==
    ASSUME Typed, Writable, Openable, Handing, [Next]_vars
    PROVE  Handing'
<1>1. WriterRuns /\ WriterRuns' /\ session # "closing" /\ Parting /\ Untaken
  BY WriterRunsOn DEF Handing
<1>2. session' # "closing"
  <2>1. CASE Connect
    BY <2>1, Zenon DEF Connect, Openable
  <2>2. CASE ~Connect
    BY <1>1, <2>2 DEF Next, Task, Draw, Animate, Begins, OfferLevel, OfferScreen, DrawScreen,
                DarkenScreen, SendLights, Say, Serve, Leave, LetsGo, Release, Stops, Write,
                Transfer, Publish, Unplug, Plug, Stop, vars
  <2> QED
    BY <2>1, <2>2
<1>3. Parting'
  <2>1. CASE World
    <3> SUFFICES ASSUME session' = "leaving", alive' PROVE Parting'
      BY DEF Parting
    <3>1. /\ alive /\ session = "leaving" /\ script' = script
          /\ \A a \in Aspects : \A v : Ends(a, v) => Comes(queue', hw', a, v)
      BY <2>1, WorldLemma
    <3>2. GoesDark => GoesDark'
      BY <3>1, AspectsAre DEF GoesDark, Ends
    <3>3. Ends(The("mode"), "live") => Ends(The("mode"), "live")'
      BY <3>1, AspectsAre DEF Ends
    <3> QED
      BY <1>1, <3>1, <3>2, <3>3 DEF Parting
  <2>2. CASE Say
    <3>1. CASE session = "leaving"
      BY <1>1, <2>2, <3>1, FarewellSaid
    <3>2. CASE session # "leaving"
      BY <2>2, <3>2 DEF Say, Parting
    <3> QED
      BY <3>1, <3>2
  <2>3. CASE LetsGo
    BY <2>3 DEF LetsGo, Parting
  <2>4. CASE Next /\ ~World /\ ~Say /\ ~LetsGo
    <3>1. session' # "leaving"
      BY <2>4 DEF World, Next, Task, Draw, Animate, Begins, OfferLevel, OfferScreen, DrawScreen,
                  DarkenScreen, SendLights, Connect, Serve, Leave, Release, Stops, At
    <3> QED
      BY <3>1 DEF Parting
  <2> QED
    BY <2>1, <2>2, <2>3, <2>4 DEF World
<1>4. Untaken'
  <2>1. CASE Release
    <3> SUFFICES ASSUME plugged PROVE hw.mode = "live" /\ hw.lights = Unlit
      BY <2>1 DEF Untaken, Release
    <3>1. CASE ~alive
      BY <1>1, <3>1 DEF Untaken
    <3>2. CASE alive
      <4>1. script = <<>> /\ queue = <<>> /\ session = "leaving"
        BY <1>1, <2>1 DEF Release
      <4>2. GoesDark /\ Ends(The("mode"), "live")
        BY <1>1, <3>2, <4>1 DEF Parting, Farewell
      <4>3. Now(hw, The("mode")) = "live"
        BY <4>1, <4>2, ComesNow DEF Ends
      <4>4. \A c \in Controls : Now(hw, Light(c)) = "off"
        BY <4>1, <4>2, ComesNow DEF GoesDark, Ends
      <4>5. hw.mode = "live"
        BY <4>3 DEF Now, The
      <4>6. \A c \in Controls : Lit(hw.lights, c) = "off"
        BY <4>4 DEF Now, Light
      <4>7. \A c \in Controls : Lit(Unlit, c) = "off"
        BY UnlitIsPlan DEF Lit
      <4>8. hw.lights \in Plans
        BY DEF Typed, Hardware
      <4> QED
        BY <4>5, <4>6, <4>7, <4>8, UnlitIsPlan, SameLights
    <3> QED
      BY <3>1, <3>2
  <2>2. CASE Plug
    BY <2>2, FreshLemma DEF Plug, Untaken
  <2>3. CASE Unplug
    BY <2>3 DEF Unplug, Untaken
  <2>4. CASE Connect
    BY <2>4 DEF Connect, Untaken
  <2>5. CASE Write \/ Transfer
    <3>1. alive' = alive /\ plugged' = plugged /\ (alive \/ hw' = hw)
      BY <2>5 DEF Write, Transfer
    <3> QED
      BY <1>1, <3>1 DEF Untaken
  <2>6. CASE ~(Release \/ Plug \/ Unplug \/ Connect \/ Write \/ Transfer)
    <3>1. plugged' = plugged /\ alive' = alive /\ hw' = hw
      BY <2>6 DEF Next, Task, Draw, Animate, Begins, OfferLevel, OfferScreen, DrawScreen,
                DarkenScreen, SendLights, Say, Serve, Leave, Stops, Publish, Stop, vars, surface
    <3> QED
      BY <1>1, <3>1 DEF Untaken
  <2> QED
    BY <2>1, <2>2, <2>3, <2>4, <2>5, <2>6
<1> QED
  BY <1>1, <1>2, <1>3, <1>4 DEF Handing

\* A surface PushOS is not serving has been given back, dark and in Live's
\* mode, however often it was pulled out and however slow its writer is, as
\* long as what is there can be written to and opened (PushOutput::clear,
\* Push2Device's Drop).
THEOREM SurfaceIsHandedBack ==
    ASSUME Writable, Openable
    PROVE  Spec => []HandedBack
<1>1. Init => Handing
  BY FreshLemma DEF Init, Handing, WriterRuns, Parting, Untaken
<1>2. Typed /\ Typed' /\ Handing /\ [Next]_vars => Handing'
  BY HandingKept
<1>3. Typed /\ Handing => HandedBack
  BY DEF Typed, TypeOK, Handing, Untaken, HandedBack
<1> QED
  BY InitTyped, NextTyped, <1>1, <1>2, <1>3, PTL DEF Spec

-----------------------------------------------------------------------------
(* Being served. *)

\* Every picture that is handed over is shown, and there is room for what is
\* said sooner or later.
Presentable == "transfer fails" \notin Allowed
Roomy       == "writer behind" \notin Allowed

Serving == WriterRuns /\ DisplayRuns /\ Greeted /\ Served

LEMMA DisplayRunsOn ==
    ASSUME Presentable, DisplayRuns, [Next]_vars
    PROVE  DisplayRuns'
<1> USE DEF DisplayRuns
<1>1. CASE Transfer
  BY <1>1, Zenon DEF Transfer, Presentable
<1>2. CASE Connect
  BY <1>2 DEF Connect
<1>3. CASE Release
  BY <1>3 DEF Release
<1>4. CASE Unplug
  BY <1>4 DEF Unplug
<1>5. CASE ~(Transfer \/ Connect \/ Release \/ Unplug)
  <2>1. healthy' = healthy /\ alive' = alive
    BY <1>5 DEF Next, Task, Draw, Animate, Begins, OfferLevel, OfferScreen, DrawScreen, DarkenScreen,
                SendLights, Say, Serve, Leave, Stops, Write, Publish, Plug, Stop, vars,
                surface, display
  <2> QED
    BY <2>1
<1> QED
  BY <1>1, <1>2, <1>3, <1>4, <1>5

\* A picture that is handed over is the one that will be shown.
LEMMA WorldPicture ==
    ASSUME Typed, Presentable, World, alive'
    PROVE  Last' = Last
<1>1. CASE Write
  <2>1. slot' = slot /\ queue # <<>> /\ queue \in Seq(Messages)
    BY <1>1 DEF Write, Typed, display
  <2>2. Head(queue) \in Messages
    BY <2>1
  <2>3. Shows(Head(queue)).picture = hw.picture
    BY <2>2, ShowsLemma DEF Typed
  <2>4. hw'.picture = hw.picture
    BY <1>1, <2>3 DEF Write
  <2> QED
    BY <2>1, <2>4 DEF Last
<1>2. CASE Transfer
  <2>1. alive
    BY <1>2 DEF Transfer
  <2>2. slot # None /\ slot' = None
    BY <1>2, <2>1 DEF Transfer
  <2>3. hw' = [hw EXCEPT !.picture = slot]
    BY <1>2, <2>1, Zenon DEF Transfer, Presentable
  <2>4. hw'.picture = slot
    BY <2>3 DEF Typed, Hardware
  <2> QED
    BY <2>2, <2>4 DEF Last
<1>3. CASE Publish \/ Unplug \/ Plug \/ Stop \/ UNCHANGED vars
  <2>1. slot' = slot /\ hw' = hw
    BY <1>3 DEF Publish, Unplug, Plug, Stop, vars, surface, display, Typed, TypeOK
  <2> QED
    BY <2>1 DEF Last
<1> QED
  BY <1>1, <1>2, <1>3 DEF World

\* What the render task offers is on its way.
LEMMA OfferLemma ==
    ASSUME Typed, Roomy, WriterRuns, alive, NEW m \in Messages, hw' = hw,
           Queued(m) \/ (Dropped /\ UNCHANGED queue)
    PROVE  /\ Queued(m) /\ ~Dropped
           /\ \A a \in Aspects : \A v : Ends(a, v) /\ ~Speaks(m, a) => Comes(queue', hw', a, v)
           /\ \A a \in Aspects : Speaks(m, a) => Comes(queue', hw', a, Value(m, a))
<1>1. writer = "running"
  BY DEF WriterRuns
<1>2. ~Dropped
  BY <1>1, Zenon DEF Dropped, Roomy
<1>3. queue' = Append(queue, m) /\ queue \in Seq(Messages)
  BY <1>2 DEF Queued, Typed
<1> QED
  BY <1>2, <1>3, ComesBeside, ComesSaid DEF Ends

\* What saying the next thing of a greeting leaves to be said.
LEMMA GreetingSaid ==
    ASSUME Typed, WriterRuns, Greeted, Say, session = "greeting"
    PROVE  Greeted'
<1> SUFFICES ASSUME alive' PROVE
        \/ script' = Greeting
        \/ script' = <<Message("palette", "ours"), BlankAll>> /\ Ends(The("mode"), "user")'
        \/ /\ script' = <<BlankAll>>
           /\ Ends(The("mode"), "user")' /\ Ends(The("palette"), "ours")'
        \/ /\ script' = <<>> /\ GoesDark'
           /\ Ends(The("mode"), "user")' /\ Ends(The("palette"), "ours")'
  BY DEF Greeted
<1> DEFINE m == Head(script)
<1>1. /\ script # <<>> /\ script' = Tail(script) /\ alive
      /\ \A a \in Aspects : \A v : Ends(a, v) /\ ~Speaks(m, a) => Comes(queue', hw', a, v)
      /\ \A a \in Aspects : Speaks(m, a) => Comes(queue', hw', a, Value(m, a))
  BY SayLemma
<1>2. \/ script = Greeting
      \/ script = <<Message("palette", "ours"), BlankAll>> /\ Ends(The("mode"), "user")
      \/ script = <<BlankAll>> /\ Ends(The("mode"), "user") /\ Ends(The("palette"), "ours")
  BY <1>1 DEF Greeted
<1> HIDE DEF m
<1>3. CASE script = Greeting
  <2>1. m = Mode("user") /\ script' = <<Message("palette", "ours"), BlankAll>>
    BY <1>1, <1>3 DEF Greeting, m
  <2>2. Comes(queue', hw', The("mode"), "user")
    BY <1>1, <2>1, AspectsAre, SayingsSpeak
  <2> QED
    BY <2>1, <2>2 DEF Ends
<1>4. CASE script = <<Message("palette", "ours"), BlankAll>> /\ Ends(The("mode"), "user")
  <2>1. m = Message("palette", "ours") /\ script' = <<BlankAll>>
    BY <1>1, <1>4 DEF m
  <2>2. Comes(queue', hw', The("mode"), "user")
    BY <1>1, <1>4, <2>1, AspectsAre, SayingsSpeak
  <2>3. Comes(queue', hw', The("palette"), "ours")
    BY <1>1, <2>1, AspectsAre, SayingsSpeak
  <2> QED
    BY <2>1, <2>2, <2>3 DEF Ends
<1>5. CASE script = <<BlankAll>> /\ Ends(The("mode"), "user") /\ Ends(The("palette"), "ours")
  <2>1. m = BlankAll /\ script' = <<>>
    BY <1>1, <1>5 DEF m
  <2>2. Comes(queue', hw', The("mode"), "user") /\ Comes(queue', hw', The("palette"), "ours")
    BY <1>1, <1>5, <2>1, AspectsAre, SayingsSpeak
  <2>3. \A c \in Controls : Comes(queue', hw', Light(c), "off")
    BY <1>1, <2>1, AspectsAre, SayingsSpeak
  <2> QED
    BY <2>1, <2>2, <2>3 DEF GoesDark, Ends
<1> QED
  BY <1>2, <1>3, <1>4, <1>5

LEMMA GreetedKept ==
    ASSUME Typed, Writable, WriterRuns, Greeted, [Next]_vars
    PROVE  Greeted'
<1>1. CASE World
  <2> SUFFICES ASSUME session' = "greeting", alive' PROVE Greeted'
    BY DEF Greeted
  <2>1. /\ alive /\ session = "greeting" /\ script' = script
        /\ \A a \in Aspects : \A v : Ends(a, v) => Comes(queue', hw', a, v)
    BY <1>1, WorldLemma
  <2>2. GoesDark => GoesDark'
    BY <2>1, AspectsAre DEF GoesDark, Ends
  <2>3. /\ Ends(The("mode"), "user") => Ends(The("mode"), "user")'
        /\ Ends(The("palette"), "ours") => Ends(The("palette"), "ours")'
    BY <2>1, AspectsAre DEF Ends
  <2> QED
    BY <2>1, <2>2, <2>3 DEF Greeted
<1>2. CASE Say
  <2>1. CASE session = "greeting"
    BY <1>2, <2>1, GreetingSaid
  <2>2. CASE session # "greeting"
    BY <1>2, <2>2 DEF Say, Greeted
  <2> QED
    BY <2>1, <2>2
<1>3. CASE Connect
  BY <1>3 DEF Connect, Greeted
<1>4. CASE Next /\ ~World /\ ~Say /\ ~Connect
  <2>1. session' # "greeting"
    BY <1>4 DEF World, Next, Task, Draw, Animate, Begins, OfferLevel, OfferScreen, DrawScreen,
                DarkenScreen, SendLights, Serve, Leave, LetsGo, Release, Stops, At
  <2> QED
    BY <2>1 DEF Greeted
<1> QED
  BY <1>1, <1>2, <1>3, <1>4 DEF World

-----------------------------------------------------------------------------
(* What the render task knows. *)

\* Nothing of it depends on more than what the messages come to, the picture
\* and the task.
LEMMA KnownSame ==
    ASSUME Typed, Known,
           \A a \in Aspects : \A v : Ends(a, v) => Comes(queue', hw', a, v),
           Last' = Last,
           render'.lit = render.lit, render'.brightness = render.brightness,
           render'.last = render.last, render'.dark = render.dark,
           render.at # "screen"
    PROVE  Known'
<1>1. Ends(The("mode"), "user")' /\ Ends(The("palette"), "ours")'
  BY AspectsAre DEF Known, Ends
<1>2. ASSUME NEW c \in Controls PROVE Ends(Light(c), Lit(render.lit, c))'
  <2>1. Comes(queue', hw', Light(c), Lit(render.lit, c))
    BY AspectsAre DEF Known
  <2> QED
    BY <2>1 DEF Ends
<1>3. render.brightness # None =>
         /\ Comes(queue', hw', The("level"), render.brightness.lights)
         /\ Comes(queue', hw', The("screen"), render.brightness.screen)
  BY AspectsAre DEF Known
<1> QED
  BY <1>1, <1>2, <1>3 DEF Known, Ends

LEMMA WorldServed ==
    ASSUME Typed, Writable, Presentable, World, Served
    PROVE  Served'
<1> SUFFICES ASSUME session' = "serving", alive' PROVE Known' /\ Reached'
  BY DEF Served
<1>1. /\ alive /\ session = "serving" /\ render' = render /\ Last' = Last
      /\ \A a \in Aspects : \A v : Ends(a, v) => Comes(queue', hw', a, v)
  BY WorldLemma, WorldPicture
<1>2. Known /\ Reached
  BY <1>1 DEF Served
<1>3. Known'
  <2>1. CASE render.at # "screen"
    BY <1>1, <1>2, <2>1, KnownSame
  <2>2. CASE render.at = "screen"
    <3>1. Ends(The("mode"), "user")' /\ Ends(The("palette"), "ours")'
      BY <1>1, <1>2, AspectsAre DEF Known, Ends
    <3>2. ASSUME NEW c \in Controls PROVE Ends(Light(c), Lit(render.lit, c))'
      <4>1. Comes(queue', hw', Light(c), Lit(render.lit, c))
        BY <1>1, <1>2, AspectsAre DEF Known
      <4> QED
        BY <1>1, <4>1 DEF Ends
    <3> QED
      BY <1>1, <1>2, <2>2, <3>1, <3>2 DEF Known
  <2> QED
    BY <2>1, <2>2
<1>4. ~changed' => ~changed /\ view' = view
  BY DEF World, Write, Transfer, Publish, Unplug, Plug, Stop, vars
<1>5. Comes(queue', hw', The("level"), Levels(render.drawn.rest).lights)
        \/ ~Ends(The("level"), Levels(render.drawn.rest).lights)
  BY <1>1, AspectsAre
<1>6. Reached'
  BY <1>1, <1>2, <1>4, <1>5 DEF Reached, Ends
<1> QED
  BY <1>3, <1>6

\* A task that begins knows nothing of a surface that has been greeted.
LEMMA ServeServed ==
    ASSUME Typed, Greeted, Serve
    PROVE  Served'
<1> SUFFICES ASSUME alive' PROVE Known' /\ Reached'
  BY DEF Served
<1>1. /\ session = "greeting" /\ script = <<>> /\ alive
      /\ render' = NewRender /\ queue' = queue /\ hw' = hw
  BY DEF Serve, surface, midi
<1>2. GoesDark /\ Ends(The("mode"), "user") /\ Ends(The("palette"), "ours")
  BY <1>1 DEF Greeted, Greeting
<1>3. /\ render'.lit = Unlit /\ render'.brightness = None /\ render'.last = None
      /\ render'.dark = FALSE /\ render'.at = "starting"
  BY <1>1 DEF NewRender
<1>4. \A c \in Controls : Lit(Unlit, c) = "off"
  BY UnlitIsPlan DEF Lit
<1>5. \A c \in Controls : Comes(queue', hw', Light(c), Lit(Unlit, c))
  BY <1>1, <1>2, <1>4 DEF GoesDark, Ends
<1>6. Ends(The("mode"), "user")' /\ Ends(The("palette"), "ours")'
  BY <1>1, <1>2 DEF Ends
<1>7. Known'
  BY <1>3, <1>5, <1>6 DEF Known, Ends
<1>8. Reached'
  BY <1>3 DEF Reached
<1> QED
  BY <1>7, <1>8

\* A view is taken up.
LEMMA BeginsServed ==
    ASSUME Typed, session = "serving", NEW frame, Begins(frame), render.at \in {"starting", "waiting"},
           Served
    PROVE  Served'
<1> SUFFICES ASSUME alive' PROVE Known' /\ Reached'
  BY DEF Served
<1>1. /\ alive /\ queue' = queue /\ hw' = hw /\ slot' = slot /\ view' = view
  BY DEF Begins, surface, midi, display
<1>2. Known /\ Reached
  BY <1>1 DEF Served
<1>3. /\ render'.lit = render.lit /\ render'.brightness = render.brightness
      /\ render'.last = render.last /\ render'.dark = render.dark /\ render'.drawn = view
      /\ render'.at = IF render.brightness = Levels(view.rest) THEN "picture" ELSE "level"
  BY DEF Begins
<1>4. \A a \in Aspects : \A v : Ends(a, v) => Comes(queue', hw', a, v)
  BY <1>1 DEF Ends
<1>5. Last' = Last
  BY <1>1 DEF Last
<1>6. Known'
  BY <1>2, <1>3, <1>4, <1>5, KnownSame
<1>7. Reached'
  BY <1>1, <1>3 DEF Reached
<1> QED
  BY <1>6, <1>7

\* The brightness of the lights, and then of the screen, is offered.
LEMMA OffersServed ==
    ASSUME Typed, Roomy, WriterRuns, Served, OfferLevel \/ OfferScreen
    PROVE  Served'
<1> SUFFICES ASSUME alive' PROVE Known' /\ Reached'
  BY DEF Served
<1> DEFINE levels == Levels(render.drawn.rest)
<1>1. /\ session = "serving" /\ alive /\ hw' = hw /\ slot' = slot /\ view' = view
      /\ changed' = changed
  BY DEF OfferLevel, OfferScreen, At, surface, display
<1>2. Known /\ Reached
  BY <1>1 DEF Served
<1>3. Last' = Last
  BY <1>1 DEF Last
<1>4. render \in Tasks /\ levels \in [lights : Strengths, screen : Strengths]
  BY ViewLemma DEF Typed, Tasks
<1>5. levels.lights \in Strengths /\ levels.screen \in Strengths
  BY <1>4
<1> HIDE DEF levels
<1>6. ASSUME NEW kind \in {"level", "screen"}, NEW strength \in Strengths,
             Queued(Message(kind, strength)) \/ (Dropped /\ UNCHANGED queue)
      PROVE  /\ Queued(Message(kind, strength)) /\ ~Dropped
             /\ Comes(queue', hw', The(kind), strength)
             /\ \A other \in Kinds \ {kind} : \A v :
                   Ends(The(other), v) => Comes(queue', hw', The(other), v)
             /\ \A c \in Controls : \A v : Ends(Light(c), v) => Comes(queue', hw', Light(c), v)
  <2> DEFINE m == Message(kind, strength)
  <2>1. m \in Messages
    BY <1>6, Sayings
  <2>2. m.kind = kind /\ m.to = strength /\ kind \in Kinds
    BY <1>6 DEF Message, Kinds
  <2>3. Speaks(m, The(kind)) /\ Value(m, The(kind)) = strength
    BY <1>6, <2>2, AspectsAre DEF Speaks, Value
  <2>4. \A other \in Kinds \ {kind} : ~Speaks(m, The(other))
    BY <2>2, AspectsAre DEF Speaks
  <2>5. \A c \in Controls : ~Speaks(m, Light(c))
    BY <2>2, AspectsAre DEF Speaks, Kinds
  <2>6. Queued(m) \/ (Dropped /\ UNCHANGED queue)
    BY <1>6
  <2> HIDE DEF m
  <2>7. /\ Queued(m) /\ ~Dropped
        /\ \A a \in Aspects : \A v : Ends(a, v) /\ ~Speaks(m, a) => Comes(queue', hw', a, v)
        /\ \A a \in Aspects : Speaks(m, a) => Comes(queue', hw', a, Value(m, a))
    BY <1>1, <2>1, <2>6, OfferLemma
  <2>8. Comes(queue', hw', The(kind), strength)
    BY <2>2, <2>3, <2>7, AspectsAre
  <2> QED
    BY <2>4, <2>5, <2>7, <2>8, AspectsAre DEF m
<1>7. CASE OfferLevel
  <2>1. Queued(Message("level", levels.lights)) \/ (Dropped /\ UNCHANGED queue)
    BY <1>7 DEF OfferLevel, levels
  <2>2. /\ ~Dropped /\ Comes(queue', hw', The("level"), levels.lights)
        /\ Comes(queue', hw', The("mode"), "user") /\ Comes(queue', hw', The("palette"), "ours")
        /\ \A c \in Controls : \A v : Ends(Light(c), v) => Comes(queue', hw', Light(c), v)
    BY <1>2, <1>5, <1>6, <2>1 DEF Known, Kinds
  <2>3. render' = Goes(render, "screen")
    BY <1>7, <2>2, Zenon DEF OfferLevel
  <2>4. /\ render'.at = "screen" /\ render'.drawn = render.drawn /\ render'.lit = render.lit
        /\ render'.last = render.last /\ render'.dark = render.dark
    <3>1. "screen" \in Steps
      BY DEF Steps
    <3> QED
      BY <1>4, <2>3, <3>1, GoesLemma
  <2>5. ASSUME NEW c \in Controls PROVE Comes(queue', hw', Light(c), Lit(render.lit, c))
    BY <1>2, <2>2 DEF Known
  <2>6. Known'
    BY <1>2, <1>3, <2>2, <2>4, <2>5 DEF Known, Ends
  <2>7. render.at # "starting"
    BY <1>7 DEF OfferLevel, At
  <2>8. Reached'
    BY <1>1, <1>2, <2>2, <2>4, <2>7 DEF Reached, Ends, levels
  <2> QED
    BY <2>6, <2>8
<1>8. CASE OfferScreen
  <2>1. Queued(Message("screen", levels.screen)) \/ (Dropped /\ UNCHANGED queue)
    BY <1>8 DEF OfferScreen, levels
  <2>2. Ends(The("level"), levels.lights) /\ render.at = "screen"
    BY <1>2, <1>8 DEF Reached, OfferScreen, At, levels
  <2>3. /\ ~Dropped /\ Comes(queue', hw', The("screen"), levels.screen)
        /\ Comes(queue', hw', The("level"), levels.lights)
        /\ Comes(queue', hw', The("mode"), "user") /\ Comes(queue', hw', The("palette"), "ours")
        /\ \A c \in Controls : \A v : Ends(Light(c), v) => Comes(queue', hw', Light(c), v)
    BY <1>2, <1>5, <1>6, <2>1, <2>2 DEF Known, Kinds
  <2>4. render' = Goes([render EXCEPT !.brightness = levels], "picture")
    BY <1>8, <2>3, Zenon DEF OfferScreen, levels
  <2>5. [render EXCEPT !.brightness = levels] \in Tasks
    BY <1>4, TaskLemma DEF Steps
  <2>6. /\ [render EXCEPT !.brightness = levels].brightness = levels
        /\ [render EXCEPT !.brightness = levels].drawn = render.drawn
        /\ [render EXCEPT !.brightness = levels].lit = render.lit
        /\ [render EXCEPT !.brightness = levels].last = render.last
        /\ [render EXCEPT !.brightness = levels].dark = render.dark
    BY <1>4 DEF Tasks
  <2>7. /\ render'.at = "picture" /\ render'.drawn = render.drawn /\ render'.lit = render.lit
        /\ render'.last = render.last /\ render'.dark = render.dark
        /\ render'.brightness = levels
    <3> DEFINE t == [render EXCEPT !.brightness = levels]
    <3>1. t \in Tasks /\ "picture" \in Steps /\ render' = Goes(t, "picture")
      BY <2>4, <2>5 DEF Steps
    <3>2. /\ t.brightness = levels /\ t.drawn = render.drawn /\ t.lit = render.lit
          /\ t.last = render.last /\ t.dark = render.dark
      BY <2>6
    <3> HIDE DEF t
    <3> QED
      BY <3>1, <3>2, GoesLemma
  <2>8. ASSUME NEW c \in Controls PROVE Comes(queue', hw', Light(c), Lit(render.lit, c))
    BY <1>2, <2>3 DEF Known
  <2>9. Known'
    BY <1>2, <1>3, <2>3, <2>7, <2>8 DEF Known, Ends
  <2>10. Reached'
    BY <1>1, <1>2, <2>2, <2>7 DEF Reached, levels
  <2> QED
    BY <2>9, <2>10
<1> QED
  BY <1>7, <1>8

\* The picture is handed over, or is the one that will be shown already.
LEMMA ScreenServed ==
    ASSUME Typed, DisplayRuns, Served, DrawScreen \/ DarkenScreen
    PROVE  Served'
<1> SUFFICES ASSUME session' = "serving", alive' PROVE Known' /\ Reached'
  BY DEF Served
<1> DEFINE picture == Picture(render.drawn, render.frame)
<1>1. /\ session = "serving" /\ alive /\ hw' = hw /\ queue' = queue /\ view' = view
      /\ changed' = changed /\ render.at = "picture"
  BY DEF DrawScreen, DarkenScreen, At, surface, midi
<1>2. Known /\ Reached /\ healthy
  BY <1>1 DEF Served, DisplayRuns
<1>3. \A a \in Aspects : \A v : Ends(a, v) => Comes(queue', hw', a, v)
  BY <1>1 DEF Ends
<1>4. Black \in Pictures /\ picture \in Pictures
  BY ViewLemma DEF Black, Pictures, Typed, Tasks
<1>5. Black # None /\ picture # None
  BY <1>4, NoneAssumption
<1>6. ASSUME render'.at = "lights", render'.drawn = render.drawn, render'.lit = render.lit,
             render'.brightness = render.brightness, render'.frame = render.frame,
             render'.last # None => Last' = render'.last,
             render'.dark => Last' = Black /\ render'.last = None,
             IF ShowsScreen(render.drawn.rest)
             THEN render'.last = picture ELSE render'.dark
      PROVE  Known' /\ Reached'
  <2>1. Ends(The("mode"), "user")' /\ Ends(The("palette"), "ours")'
    BY <1>2, <1>3, AspectsAre DEF Known, Ends
  <2>2. ASSUME NEW c \in Controls PROVE Comes(queue', hw', Light(c), Lit(render.lit, c))
    BY <1>2, <1>3, AspectsAre DEF Known
  <2>3. render.brightness # None =>
           /\ Comes(queue', hw', The("level"), render.brightness.lights)
           /\ Comes(queue', hw', The("screen"), render.brightness.screen)
    BY <1>1, <1>2, <1>3, AspectsAre DEF Known
  <2>4. Known'
    BY <1>6, <2>1, <2>2, <2>3 DEF Known, Ends
  <2>5. Reached'
    BY <1>1, <1>2, <1>6 DEF Reached
  <2> QED
    BY <2>4, <2>5
<1>7. CASE DrawScreen
  <2>1. /\ render' = Screened("lights", picture, FALSE, picture.of = "moving")
        /\ (picture = render.last /\ slot' = slot) \/ slot' = picture
    BY <1>2, <1>7, Zenon DEF DrawScreen
  <2>2. ShowsScreen(render.drawn.rest)
    BY <1>7 DEF DrawScreen
  <2> HIDE DEF picture
  <2>3. /\ render'.at = "lights" /\ render'.drawn = render.drawn /\ render'.lit = render.lit
        /\ render'.brightness = render.brightness /\ render'.frame = render.frame
        /\ render'.last = picture /\ render'.dark = FALSE
    BY <2>1 DEF Screened
  <2>4. Last' = picture
    <3>1. CASE slot' = picture
      BY <1>5, <3>1 DEF Last
    <3>2. CASE picture = render.last /\ slot' = slot
      BY <1>1, <1>2, <1>5, <3>2 DEF Last, Known
    <3> QED
      BY <2>1, <3>1, <3>2
  <2> QED
    BY <1>6, <2>2, <2>3, <2>4
<1>8. CASE DarkenScreen
  <2>1. ~ShowsScreen(render.drawn.rest)
    BY <1>8 DEF DarkenScreen
  <2> HIDE DEF picture
  <2>2. CASE render.dark
    <3>1. render' = Screened("lights", render.last, TRUE, FALSE) /\ slot' = slot
      BY <1>8, <2>2 DEF DarkenScreen
    <3>2. /\ render'.at = "lights" /\ render'.drawn = render.drawn /\ render'.lit = render.lit
          /\ render'.brightness = render.brightness /\ render'.frame = render.frame
          /\ render'.last = render.last /\ render'.dark = TRUE
      BY <3>1 DEF Screened
    <3>3. Last' = Black /\ render.last = None
      BY <1>1, <1>2, <2>2, <3>1 DEF Last, Known
    <3> QED
      BY <1>6, <2>1, <3>2, <3>3
  <2>3. CASE ~render.dark
    <3>1. render' = Screened("lights", None, TRUE, FALSE) /\ slot' = Black
      BY <1>2, <1>8, <2>3 DEF DarkenScreen
    <3>2. /\ render'.at = "lights" /\ render'.drawn = render.drawn /\ render'.lit = render.lit
          /\ render'.brightness = render.brightness /\ render'.frame = render.frame
          /\ render'.last = None /\ render'.dark = TRUE
      BY <3>1 DEF Screened
    <3>3. Last' = Black
      BY <1>5, <3>1 DEF Last
    <3> QED
      BY <1>6, <2>1, <3>2, <3>3
  <2> QED
    BY <2>2, <2>3
<1> QED
  BY <1>7, <1>8

\* The lights that changed are said, and the rest are right already.
LEMMA LightsServed ==
    ASSUME Typed, Roomy, WriterRuns, Served, SendLights
    PROVE  Served'
<1> SUFFICES ASSUME alive' PROVE Known' /\ Reached'
  BY DEF Served
<1> DEFINE wanted == Wanted(render.drawn)
           changes == Changes(wanted, render.lit)
           m == Message("lights", changes)
<1>1. /\ session = "serving" /\ alive /\ hw' = hw /\ slot' = slot /\ view' = view
      /\ changed' = changed /\ render.at = "lights"
  BY DEF SendLights, At, surface, display
<1>2. Known /\ Reached
  BY <1>1 DEF Served
<1>3. Last' = Last
  BY <1>1 DEF Last
<1>4. render \in Tasks /\ wanted \in Plans /\ render.lit \in Plans
  BY ViewLemma DEF Typed, Tasks
<1>5. /\ changes \in Batches
      /\ \A c \in Controls : IF c \in DOMAIN changes THEN changes[c] = Lit(wanted, c)
                             ELSE Lit(wanted, c) = Lit(render.lit, c)
  BY <1>4, ChangesLemma
<1>6. m \in Messages /\ m.kind = "lights" /\ m.to = changes
  BY <1>5 DEF Message, Messages
<1>7. /\ IF changes = Unlit THEN UNCHANGED queue ELSE Queued(m) \/ (Dropped /\ UNCHANGED queue)
      /\ render' = Goes([render EXCEPT !.lit = wanted], "waiting")
  BY DEF SendLights
<1> HIDE DEF wanted, changes, m
<1>8. /\ [render EXCEPT !.lit = wanted] \in Tasks
      /\ [render EXCEPT !.lit = wanted].lit = wanted
      /\ [render EXCEPT !.lit = wanted].drawn = render.drawn
      /\ [render EXCEPT !.lit = wanted].last = render.last
      /\ [render EXCEPT !.lit = wanted].dark = render.dark
      /\ [render EXCEPT !.lit = wanted].brightness = render.brightness
      /\ [render EXCEPT !.lit = wanted].frame = render.frame
  BY <1>4 DEF Tasks
<1>9. /\ render'.at = "waiting" /\ render'.lit = wanted /\ render'.drawn = render.drawn
      /\ render'.last = render.last /\ render'.dark = render.dark
      /\ render'.brightness = render.brightness /\ render'.frame = render.frame
  <2> DEFINE t == [render EXCEPT !.lit = wanted]
  <2>1. t \in Tasks /\ "waiting" \in Steps /\ render' = Goes(t, "waiting")
    BY <1>7, <1>8 DEF Steps
  <2>2. /\ t.lit = wanted /\ t.drawn = render.drawn /\ t.last = render.last
        /\ t.dark = render.dark /\ t.brightness = render.brightness /\ t.frame = render.frame
    BY <1>8
  <2> HIDE DEF t
  <2> QED
    BY <2>1, <2>2, GoesLemma
<1>10. /\ \A kind \in Kinds : \A v : Ends(The(kind), v) => Comes(queue', hw', The(kind), v)
       /\ \A c \in Controls : Comes(queue', hw', Light(c), Lit(wanted, c))
  <2>1. CASE changes = Unlit
    <3>1. \A a \in Aspects : \A v : Ends(a, v) => Comes(queue', hw', a, v)
      BY <1>1, <1>7, <2>1 DEF Ends
    <3>2. \A c \in Controls : Lit(wanted, c) = Lit(render.lit, c)
      BY <1>5, <2>1, UnlitIsPlan
    <3>3. \A c \in Controls : Ends(Light(c), Lit(wanted, c))
      BY <1>2, <3>2 DEF Known
    <3> QED
      BY <3>1, <3>3, AspectsAre
  <2>2. CASE changes # Unlit
    <3>1. Queued(m) \/ (Dropped /\ UNCHANGED queue)
      BY <1>7, <2>2
    <3>2. /\ \A a \in Aspects : \A v : Ends(a, v) /\ ~Speaks(m, a) => Comes(queue', hw', a, v)
          /\ \A a \in Aspects : Speaks(m, a) => Comes(queue', hw', a, Value(m, a))
      BY <1>1, <1>6, <3>1, OfferLemma
    <3>3. \A kind \in Kinds : ~Speaks(m, The(kind))
      BY <1>6, AspectsAre DEF Speaks, Kinds
    <3>4. ASSUME NEW c \in Controls
          PROVE  Comes(queue', hw', Light(c), Lit(wanted, c))
      <4>1. Light(c) \in Aspects /\ Light(c).kind = "lights" /\ Light(c).of = c
        BY AspectsAre
      <4>2. CASE c \in DOMAIN changes
        <5>1. Speaks(m, Light(c)) /\ Value(m, Light(c)) = changes[c]
          BY <1>6, <4>1, <4>2 DEF Speaks, Value
        <5>2. changes[c] = Lit(wanted, c)
          BY <1>5, <4>2
        <5>3. Comes(queue', hw', Light(c), Value(m, Light(c)))
          BY <3>2, <4>1, <5>1
        <5> QED
          BY <5>1, <5>2, <5>3
      <4>3. CASE c \notin DOMAIN changes
        <5>1. ~Speaks(m, Light(c))
          BY <1>6, <4>1, <4>3 DEF Speaks
        <5>2. Ends(Light(c), Lit(wanted, c))
          BY <1>2, <1>5, <4>3 DEF Known
        <5> QED
          BY <3>2, <4>1, <5>1, <5>2
      <4> QED
        BY <4>2, <4>3
    <3> QED
      BY <3>2, <3>3, <3>4, AspectsAre
  <2> QED
    BY <2>1, <2>2
<1>11. /\ Comes(queue', hw', The("mode"), "user") /\ Comes(queue', hw', The("palette"), "ours")
       /\ render.brightness # None =>
            /\ Comes(queue', hw', The("level"), render.brightness.lights)
            /\ Comes(queue', hw', The("screen"), render.brightness.screen)
  BY <1>1, <1>2, <1>10 DEF Known, Kinds
<1>12. Known'
  BY <1>2, <1>3, <1>9, <1>10, <1>11 DEF Known, Ends
<1>13. Reached'
  BY <1>1, <1>2, <1>9 DEF Reached, wanted
<1> QED
  BY <1>12, <1>13

LEMMA ServingKept ==
    ASSUME Typed, Writable, Presentable, Roomy, Serving, [Next]_vars
    PROVE  Serving'
<1>1. WriterRuns /\ WriterRuns' /\ DisplayRuns /\ DisplayRuns' /\ Greeted /\ Served /\ Greeted'
  BY WriterRunsOn, DisplayRunsOn, GreetedKept DEF Serving
<1>2. Served'
  <2>1. CASE World
    BY <1>1, <2>1, WorldServed
  <2>2. CASE Serve
    BY <1>1, <2>2, ServeServed
  <2>3. CASE Draw \/ Animate
    <3>1. /\ Begins(render.frame) \/ Begins(1 - render.frame)
          /\ session = "serving" /\ render.at \in {"starting", "waiting"}
      BY <2>3 DEF Draw, Animate, At
    <3> QED
      BY <1>1, <3>1, BeginsServed
  <2>4. CASE OfferLevel \/ OfferScreen
    BY <1>1, <2>4, OffersServed
  <2>5. CASE DrawScreen \/ DarkenScreen
    BY <1>1, <2>5, ScreenServed
  <2>6. CASE SendLights
    BY <1>1, <2>6, LightsServed
  <2>7. CASE Connect \/ Say \/ Leave \/ Release \/ Stops
    <3>1. session' # "serving"
      BY <2>7 DEF Connect, Say, Leave, LetsGo, Release, Stops
    <3> QED
      BY <3>1 DEF Served
  <2> QED
    BY <2>1, <2>2, <2>3, <2>4, <2>5, <2>6, <2>7 DEF World, Next, Task
<1> QED
  BY <1>1, <1>2 DEF Serving

\* What is known of a surface that nothing is on its way to is right.
LEMMA KnownIsRight ==
    ASSUME Typed, Served
    PROVE  AtRestItIsRight
<1> SUFFICES ASSUME At("waiting"), ~changed, alive, queue = <<>>, slot = None
             PROVE  Right(view)
  BY DEF AtRestItIsRight
<1> DEFINE levels == Levels(view.rest)
<1>1. Known /\ Reached /\ render.at = "waiting"
  BY DEF Served, At
<1>2. /\ render.drawn = view /\ render.brightness = levels /\ render.lit = Wanted(view)
      /\ IF ShowsScreen(view.rest) THEN render.last = Picture(view, render.frame)
         ELSE render.dark
  BY <1>1 DEF Reached
<1>3. /\ hw \in Hardware /\ Wanted(view) \in Plans /\ render.frame \in {0, 1}
      /\ levels \in [lights : Strengths, screen : Strengths]
      /\ \A frame \in {0, 1} : Picture(view, frame) \in Pictures
  BY ViewLemma DEF Typed, TypeOK, Tasks
<1>4. \A a, v : Ends(a, v) => Now(hw, a) = v
  BY ComesNow DEF Ends
<1>5. hw.mode = "user" /\ hw.palette = "ours"
  <2>1. Now(hw, The("mode")) = "user" /\ Now(hw, The("palette")) = "ours"
    BY <1>1, <1>4 DEF Known
  <2> QED
    BY <2>1 DEF Now, The
<1>6. hw.lights = Wanted(view)
  <2>1. \A c \in Controls : Now(hw, Light(c)) = Lit(Wanted(view), c)
    BY <1>1, <1>2, <1>4 DEF Known
  <2>2. \A c \in Controls : Lit(hw.lights, c) = Lit(Wanted(view), c)
    BY <2>1 DEF Now, Light
  <2>3. hw.lights \in Plans
    BY <1>3 DEF Hardware
  <2> QED
    BY <1>3, <2>2, <2>3, SameLights
<1>7. [lights |-> hw.level, screen |-> hw.screen] = levels
  <2>1. levels # None
    BY <1>3, NoneAssumption
  <2>2. Now(hw, The("level")) = levels.lights /\ Now(hw, The("screen")) = levels.screen
    BY <1>1, <1>2, <1>4, <2>1 DEF Known
  <2>3. hw.level = levels.lights /\ hw.screen = levels.screen
    BY <2>2 DEF Now, The
  <2> HIDE DEF levels
  <2> QED
    BY <1>3, <2>3
<1>8. hw.picture.of = Picture(view, 0).of
  <2>1. CASE ShowsScreen(view.rest)
    <3>1. render.last # None
      BY <1>2, <1>3, <2>1, NoneAssumption
    <3>2. hw.picture = Picture(view, render.frame)
      BY <1>1, <1>2, <2>1, <3>1 DEF Known, Last
    <3> QED
      BY <2>1, <3>2 DEF Picture
  <2>2. CASE ~ShowsScreen(view.rest)
    <3>1. hw.picture = Black
      BY <1>1, <1>2, <2>2 DEF Known, Last
    <3> QED
      BY <2>2, <3>1 DEF Picture
  <2> QED
    BY <2>1, <2>2
<1> QED
  BY <1>5, <1>6, <1>7, <1>8 DEF Right

\* A surface nothing is on its way to shows the view in every respect, for any
\* number of controls and views, any length of the queue, and any order in
\* which drawing, writing, plugging and publishing take turns, when nothing is
\* dropped and nothing fails to be written (RenderTask::draw, LedPlan).
THEOREM WhatIsShownIsRight ==
    ASSUME Writable, Presentable, Roomy
    PROVE  Spec => []AtRestItIsRight
<1>1. Init => Serving
  BY DEF Init, Serving, WriterRuns, DisplayRuns, Greeted, Served
<1>2. Typed /\ Serving /\ [Next]_vars => Serving'
  BY ServingKept
<1>3. Typed /\ Serving => AtRestItIsRight
  BY KnownIsRight DEF Serving
<1> QED
  BY InitTyped, NextTyped, <1>1, <1>2, <1>3, PTL DEF Spec
=============================================================================
