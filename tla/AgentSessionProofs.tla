------------------------- MODULE AgentSessionProofs -------------------------
(***************************************************************************)
(* A session keeps what AgentPromise promises, step by step, and what the  *)
(* registry says of it is so once every report and mark has been applied.  *)
(*                                                                         *)
(* A command that waits belongs to one call that waits for it.  The last   *)
(* thing reported tells what the task does; a mark that was not made yet   *)
(* holds back whatever would make it wrong.                                *)
(***************************************************************************)
EXTENDS AgentSession, SequenceTheorems, TLAPS

-----------------------------------------------------------------------------
(* Sequences. *)

\* An element joins a sequence.
LEMMA AppendAt ==
    ASSUME NEW S, NEW s \in Seq(S), NEW e \in S
    PROVE  /\ Append(s, e) \in Seq(S) /\ Len(Append(s, e)) = Len(s) + 1
           /\ Len(Append(s, e)) \in 1..Len(Append(s, e))
           /\ \A i \in 1..Len(Append(s, e)) : i # Len(s) + 1 => i \in 1..Len(s)
           /\ \A i \in 1..Len(s) : Append(s, e)[i] = s[i]
           /\ Append(s, e)[Len(s) + 1] = e
<1>1. ASSUME NEW i \in 1..Len(s) PROVE Append(s, e)[i] = s[i]
  BY AppendProperties
<1>2. /\ Append(s, e) \in Seq(S) /\ Len(Append(s, e)) = Len(s) + 1
      /\ Append(s, e)[Len(s) + 1] = e
  BY AppendProperties
<1>3. Len(s) \in Nat
  BY LenProperties
<1>4. \A n, m \in Nat : m = n + 1 => /\ m \in 1..m
                                     /\ \A i \in 1..m : i # n + 1 => i \in 1..n
  OBVIOUS
<1>5. /\ Len(Append(s, e)) \in 1..Len(Append(s, e))
      /\ \A i \in 1..Len(Append(s, e)) : i # Len(s) + 1 => i \in 1..Len(s)
  BY <1>2, <1>3, <1>4
<1> QED
  BY <1>1, <1>2, <1>5

\* The first element leaves it.
LEMMA TailAt ==
    ASSUME NEW S, NEW s \in Seq(S), s # <<>>
    PROVE  /\ Head(s) \in S /\ Head(s) = s[1] /\ 1 \in 1..Len(s)
           /\ Tail(s) \in Seq(S)
           /\ \A i \in 1..Len(Tail(s)) : i + 1 \in 1..Len(s) /\ Tail(s)[i] = s[i + 1] /\ i + 1 # 1
           /\ \A i, j \in 1..Len(Tail(s)) : i + 1 = j + 1 => i = j
           /\ Tail(s) # <<>> => Len(Tail(s)) + 1 = Len(s)
           /\ Tail(s) = <<>> => Len(s) = 1
<1>1. /\ Head(s) \in S /\ Tail(s) \in Seq(S) /\ Len(Tail(s)) = Len(s) - 1
      /\ \A i \in 1..Len(Tail(s)) : Tail(s)[i] = s[i + 1]
  BY HeadTailProperties
<1>2. Len(s) \in Nat \ {0} /\ Len(Tail(s)) \in Nat /\ Len(<<>>) = 0
  BY <1>1, EmptySeq, LenProperties
<1>3. 1 \in 1..Len(s) /\ \A i \in 1..Len(Tail(s)) : i + 1 \in 1..Len(s) /\ i + 1 # 1
  BY <1>1, <1>2
<1>4. \A i, j \in 1..Len(Tail(s)) : i + 1 = j + 1 => i = j
  BY <1>2
<1>5. Head(s) = s[1]
  OBVIOUS
<1>6. Len(Tail(s)) + 1 = Len(s)
  BY <1>1, <1>2
<1>7. Tail(s) = <<>> => Len(Tail(s)) = 0
  BY <1>2
<1>8. Tail(s) = <<>> => Len(s) = 1
  BY <1>2, <1>6, <1>7
<1> QED
  BY <1>1, <1>3, <1>4, <1>5, <1>6, <1>8

-----------------------------------------------------------------------------
(* The invariants. *)

\* What a call wants is what its place says.
Wants(c, p, k, a) ==
    /\ p[c] \in {"reach", "send", "sent", "refused"} => k[c] \in {"prompt", "cancel", "stop"}
    /\ p[c] = "deliver" => k[c] \in {"allow", "deny"} /\ a[c] \in Questions
    /\ p[c] = "mark" => k[c] \in {"prompt", "cancel", "allow", "deny"}
    /\ p[c] = "forget" => k[c] = "stop"

Kinds == \A c \in Calls : Wants(c, pc, kind, about)

\* The caller of a command, if it has not given up, waits for that command.
Heard(m, p, k) == m.from # None => p[m.from] = "sent" /\ k[m.from] = m.kind

\* At most a prompt is held, and no two commands have the same caller.
Apart(s, h, p, k) ==
    /\ \A i \in 1..Len(s) : Heard(s[i], p, k)
    /\ \A i, j \in 1..Len(s) : s[i].from # None /\ s[i].from = s[j].from => i = j
    /\ h # <<>> => /\ Len(h) = 1 /\ h[1].kind = "prompt" /\ Heard(h[1], p, k)
                   /\ \A i \in 1..Len(s) : s[i].from # None => s[i].from # h[1].from

Commands ==
    /\ Apart(inbox, held, pc, kind)
    /\ ~Listening => inbox = <<>> /\ held = <<>>

Shape == TypeOK /\ Kinds /\ Commands

\* A call with a prompt that has not been sent.
Sending(c, p, k) == k[c] = "prompt" /\ p[c] \in {"reach", "send"}

\* There is one prompt on its way at a time.
Single(s, h, p, k) ==
    /\ h # <<>> => /\ \A i \in 1..Len(s) : s[i].kind # "prompt"
                   /\ \A c \in Calls : ~Sending(c, p, k)
    /\ \A i, j \in 1..Len(s) : s[i].kind = "prompt" /\ s[j].kind = "prompt" => i = j
    /\ \A i \in 1..Len(s) : s[i].kind = "prompt" => \A c \in Calls : ~Sending(c, p, k)
    /\ \A c, d \in Calls : Sending(c, p, k) /\ Sending(d, p, k) => c = d

OnePrompt == Single(inbox, held, pc, kind)

\* A session that was never recorded was never asked anything, and one that
\* was told to stop cannot be reached.
Beginnings ==
    /\ ~known /\ reachable => /\ task = "idle" /\ inbox = <<>> /\ held = <<>>
                              /\ \A c \in Calls : pc[c] = "idle"
    /\ \A c \in Calls : kind[c] = "stop" /\ pc[c] \in {"send", "sent", "forget", "refused"} => ~reachable

\* What a report makes of the state.
Saying(r) == IF r.what = "asked" THEN "waiting_approval" ELSE r.of

\* The last thing that will be applied.
Latest == IF reports = <<>> THEN state ELSE Saying(reports[Len(reports)])

\* What may be said of a session whose task is at t.
Fits(t, s) ==
    /\ t = "idle" => s \notin {"queued", "working", "waiting_approval", "offline"}
    /\ t = "turn" => s \notin {"sleeping", "completed", "failed", "offline"}
    /\ t = "gone" => s = "offline"

\* What is said last is so, and so is what is about to be said.
Settling ==
    /\ known => Fits(task, Latest)
    /\ \A c \in Calls : pc[c] = "mark" => Fits(task, Mark[kind[c]])
    /\ \A q \in Questions : parked[q] = "parked" => task \in {"turn", "left"}

-----------------------------------------------------------------------------
(* The commands that wait. *)

\* Nothing changes but what one call does.
But(c, p, q, k, l) == \A d \in Calls : d # c => q[d] = p[d] /\ l[d] = k[d]

\* A command, taken apart.
LEMMA CommandParts ==
    ASSUME NEW m \in Command
    PROVE  m.kind \in {"prompt", "cancel", "stop"} /\ m.from \in Calls \cup {None}
BY DEF Command

\* A command, put together.
LEMMA CommandMade ==
    ASSUME NEW k \in {"prompt", "cancel", "stop"}, NEW c \in Calls \cup {None}
    PROVE  /\ [kind |-> k, from |-> c] \in Command
           /\ [kind |-> k, from |-> c].kind = k /\ [kind |-> k, from |-> c].from = c
BY DEF Command

\* Each of those in a sequence is one.
LEMMA CommandsTyped ==
    ASSUME NEW s \in Seq(Command), NEW i \in 1..Len(s)
    PROVE  s[i] \in Command /\ s[i].from \in Calls \cup {None}
BY ElementOfSeq, CommandParts

\* The caller of a command still waits when another call takes a step.
LEMMA HeardStill ==
    ASSUME NEW m \in Command, NEW c, NEW p, NEW q, NEW k, NEW l,
           But(c, p, q, k, l), m.from # None => m.from # c, Heard(m, p, k)
    PROVE  Heard(m, q, l)
BY CommandParts DEF Heard, But

\* A call that does not wait takes a step.
LEMMA ApartStill ==
    ASSUME NEW s \in Seq(Command), NEW h \in Seq(Command), NEW c, NEW p, NEW q, NEW k, NEW l,
           Apart(s, h, p, k), But(c, p, q, k, l), c = None \/ p[c] # "sent"
    PROVE  Apart(s, h, q, l)
<1>1. \A m : Heard(m, p, k) => (m.from # None => m.from # c)
  BY DEF Heard
<1>2. \A i \in 1..Len(s) : Heard(s[i], q, l)
  BY <1>1, CommandsTyped, HeardStill DEF Apart
<1>3. h # <<>> => Heard(h[1], q, l)
  <2> SUFFICES ASSUME h # <<>> PROVE Heard(h[1], q, l)
    OBVIOUS
  <2>1. h[1] \in Command
    BY TailAt
  <2> QED
    BY <1>1, <2>1, HeardStill DEF Apart
<1> QED
  BY <1>2, <1>3 DEF Apart

\* Nothing waits.
LEMMA ApartEmpty == \A p, k : Apart(<<>>, <<>>, p, k)
<1>1. \A i \in 1..Len(<<>>) : FALSE
  OBVIOUS
<1> QED
  BY <1>1 DEF Apart

\* A call sends its command.
LEMMA ApartJoin ==
    ASSUME NEW s \in Seq(Command), NEW h \in Seq(Command), NEW m \in Command,
           NEW p, NEW q, NEW k, NEW l,
           Apart(s, h, p, k), But(m.from, p, q, k, l), m.from # None,
           p[m.from] # "sent", q[m.from] = "sent", l[m.from] = m.kind
    PROVE  Apart(Append(s, m), h, q, l)
<1> DEFINE t == Append(s, m)
           n == Len(s) + 1
<1>1. /\ \A i \in 1..Len(t) : i # n => i \in 1..Len(s)
      /\ \A i \in 1..Len(s) : t[i] = s[i]
      /\ t[n] = m
  BY AppendAt
<1> HIDE DEF t, n
<1>2. Apart(s, h, q, l)
  BY ApartStill
<1>3. \A x : Heard(x, p, k) => x.from # m.from
  BY DEF Heard
<1>4. Heard(m, q, l)
  BY DEF Heard
<1>5. \A i \in 1..Len(t) : Heard(t[i], q, l)
  BY <1>1, <1>2, <1>4 DEF Apart
<1>6. \A i \in 1..Len(s) : s[i].from # m.from
  BY <1>3 DEF Apart
<1>7. ASSUME NEW i \in 1..Len(t), NEW j \in 1..Len(t), t[i].from # None, t[i].from = t[j].from
      PROVE  i = j
  BY <1>1, <1>2, <1>6, <1>7 DEF Apart
<1>8. h # <<>> => \A i \in 1..Len(t) : t[i].from # None => t[i].from # h[1].from
  BY <1>1, <1>2, <1>3 DEF Apart
<1>9. Apart(t, h, q, l)
  BY <1>2, <1>5, <1>7, <1>8 DEF Apart
<1> QED
  BY <1>9 DEF t

\* The first of the inbox is taken, and its caller told.
LEMMA ApartLeave ==
    ASSUME NEW s \in Seq(Command), NEW h \in Seq(Command), s # <<>>,
           NEW p, NEW q, NEW k, NEW l,
           Apart(s, h, p, k), But(Head(s).from, p, q, k, l)
    PROVE  Apart(Tail(s), h, q, l)
<1> DEFINE t == Tail(s)
           c == Head(s).from
<1>1. /\ Head(s) = s[1] /\ 1 \in 1..Len(s)
      /\ \A i \in 1..Len(t) : i + 1 \in 1..Len(s) /\ t[i] = s[i + 1] /\ i + 1 # 1
      /\ \A i, j \in 1..Len(t) : i + 1 = j + 1 => i = j
  BY TailAt
<1>2. c = s[1].from
  BY <1>1
<1> HIDE DEF t, c
<1>3. \A i \in 1..Len(t) : t[i] \in Command /\ Heard(t[i], p, k)
  BY <1>1, CommandsTyped DEF Apart
<1>4. \A i \in 1..Len(t) : t[i].from # None => t[i].from # c
  BY <1>1, <1>2 DEF Apart
<1>5. \A i \in 1..Len(t) : Heard(t[i], q, l)
  BY <1>3, <1>4, HeardStill DEF c
<1>6. \A i, j \in 1..Len(t) : t[i].from # None /\ t[i].from = t[j].from => i = j
  BY <1>1 DEF Apart
<1>7. ASSUME h # <<>>
      PROVE  /\ Len(h) = 1 /\ h[1].kind = "prompt" /\ Heard(h[1], q, l)
             /\ \A i \in 1..Len(t) : t[i].from # None => t[i].from # h[1].from
  <2>1. h[1] \in Command
    BY <1>7, TailAt
  <2>2. h[1].from # None => h[1].from # c
    BY <1>1, <1>2, <1>7 DEF Apart
  <2>3. Heard(h[1], q, l)
    BY <1>7, <2>1, <2>2, HeardStill DEF Apart, c
  <2> QED
    BY <1>1, <1>7, <2>3 DEF Apart
<1>8. Apart(t, h, q, l)
  BY <1>5, <1>6, <1>7 DEF Apart
<1> QED
  BY <1>8 DEF t

\* The held one is taken, or dropped, and its caller told.
LEMMA ApartRelease ==
    ASSUME NEW s \in Seq(Command), NEW h \in Seq(Command), h # <<>>,
           NEW p, NEW q, NEW k, NEW l,
           Apart(s, h, p, k), But(h[1].from, p, q, k, l)
    PROVE  Apart(s, <<>>, q, l)
<1>1. \A i \in 1..Len(s) : s[i] \in Command /\ Heard(s[i], p, k)
  BY CommandsTyped DEF Apart
<1>2. \A i \in 1..Len(s) : s[i].from # None => s[i].from # h[1].from
  BY DEF Apart
<1>3. \A i \in 1..Len(s) : Heard(s[i], q, l)
  BY <1>1, <1>2, HeardStill
<1> QED
  BY <1>3 DEF Apart

\* A prompt is taken from the inbox and held.
LEMMA ApartHold ==
    ASSUME NEW s \in Seq(Command), s # <<>>, Head(s).kind = "prompt",
           NEW p, NEW k, Apart(s, <<>>, p, k)
    PROVE  Apart(Tail(s), <<Head(s)>>, p, k)
<1> DEFINE t == Tail(s)
           h == <<Head(s)>>
<1>1. /\ Head(s) = s[1] /\ 1 \in 1..Len(s)
      /\ \A i \in 1..Len(t) : i + 1 \in 1..Len(s) /\ t[i] = s[i + 1] /\ i + 1 # 1
      /\ \A i, j \in 1..Len(t) : i + 1 = j + 1 => i = j
  BY TailAt
<1>2. Len(h) = 1 /\ h[1] = s[1] /\ h[1].kind = "prompt"
  BY <1>1
<1> HIDE DEF t, h
<1>3. \A i \in 1..Len(t) : Heard(t[i], p, k)
  BY <1>1 DEF Apart
<1>4. \A i, j \in 1..Len(t) : t[i].from # None /\ t[i].from = t[j].from => i = j
  BY <1>1 DEF Apart
<1>5. \A i \in 1..Len(t) : t[i].from # None => t[i].from # h[1].from
  BY <1>1, <1>2 DEF Apart
<1>6. Apart(t, h, p, k)
  BY <1>1, <1>2, <1>3, <1>4, <1>5 DEF Apart
<1> QED
  BY <1>6 DEF t, h

\* A sequence whose commands of one caller nobody waits for any more.
Unhears(s, c) == [i \in DOMAIN s |-> Unheard(s[i], c)]

\* It is as long, of the same kinds, and of the other callers.
LEMMA UnhearsIs ==
    ASSUME NEW s \in Seq(Command), NEW c \in Calls
    PROVE  /\ Unhears(s, c) \in Seq(Command) /\ Len(Unhears(s, c)) = Len(s)
           /\ \A i \in 1..Len(s) :
                /\ Unhears(s, c)[i].kind = s[i].kind
                /\ Unhears(s, c)[i].from = IF s[i].from = c THEN None ELSE s[i].from
<1>1. DOMAIN s = 1..Len(s) /\ Len(s) \in Nat
  BY LenProperties
<1>2. \A i \in 1..Len(s) : Unheard(s[i], c) \in Command
  <2> TAKE i \in 1..Len(s)
  <2>1. s[i] \in Command
    BY ElementOfSeq
  <2> QED
    BY <2>1, CommandParts, CommandMade DEF Unheard
<1>3. Unhears(s, c) = [i \in 1..Len(s) |-> Unheard(s[i], c)]
  BY <1>1 DEF Unhears
<1>4. Unhears(s, c) \in Seq(Command)
  <2> DEFINE e(i) == Unheard(s[i], c)
  <2>1. \A i \in 1..Len(s) : e(i) \in Command
    BY <1>2
  <2> HIDE DEF e
  <2>2. [i \in 1..Len(s) |-> e(i)] \in Seq(Command)
    BY <1>1, <2>1, IsASeq
  <2> QED
    BY <1>3, <2>2 DEF e
<1>5. Len(Unhears(s, c)) = Len(s)
  <2>1. DOMAIN Unhears(s, c) = 1..Len(s)
    BY <1>3
  <2>2. DOMAIN Unhears(s, c) = 1..Len(Unhears(s, c)) /\ Len(Unhears(s, c)) \in Nat
    BY <1>4, LenProperties
  <2>3. \A n, m \in Nat : 1..n = 1..m => n = m
    <3> SUFFICES ASSUME NEW n \in Nat, NEW m \in Nat, 1..n = 1..m PROVE n = m
      OBVIOUS
    <3>1. n > 0 => n \in 1..m
      OBVIOUS
    <3>2. m > 0 => m \in 1..n
      OBVIOUS
    <3> QED
      BY <3>1, <3>2
  <2> QED
    BY <1>1, <2>1, <2>2, <2>3
<1>6. \A i \in 1..Len(s) : Unhears(s, c)[i] = Unheard(s[i], c)
  BY <1>3
<1>7. ASSUME NEW i \in 1..Len(s)
      PROVE  /\ Unheard(s[i], c).kind = s[i].kind
             /\ Unheard(s[i], c).from = IF s[i].from = c THEN None ELSE s[i].from
  BY DEF Unheard
<1> QED
  BY <1>4, <1>5, <1>6, <1>7

\* A caller gives up, and what it sent stays where it is.
LEMMA ApartUnheard ==
    ASSUME NEW s \in Seq(Command), NEW h \in Seq(Command), NEW c \in Calls,
           NEW p, NEW q, NEW k, NEW l, Apart(s, h, p, k), But(c, p, q, k, l)
    PROVE  Apart(Unhears(s, c), Unhears(h, c), q, l)
<1> DEFINE t == Unhears(s, c)
           g == Unhears(h, c)
<1>1. None \notin Calls
  BY ConstantsAssumption
<1>2. /\ t \in Seq(Command) /\ Len(t) = Len(s)
      /\ \A i \in 1..Len(s) : /\ t[i].kind = s[i].kind
                              /\ t[i].from = IF s[i].from = c THEN None ELSE s[i].from
  BY UnhearsIs
<1>3. /\ g \in Seq(Command) /\ Len(g) = Len(h)
      /\ \A i \in 1..Len(h) : /\ g[i].kind = h[i].kind
                              /\ g[i].from = IF h[i].from = c THEN None ELSE h[i].from
  BY UnhearsIs
<1> HIDE DEF t, g
<1>4. ASSUME NEW x \in Command, NEW y \in Command, y.kind = x.kind,
             y.from = IF x.from = c THEN None ELSE x.from, Heard(x, p, k)
      PROVE  Heard(y, q, l)
  BY <1>4, CommandParts DEF Heard, But
<1>5. \A i \in 1..Len(t) : Heard(t[i], q, l)
  BY <1>2, <1>4, CommandsTyped DEF Apart
<1>6. \A i, j \in 1..Len(t) : t[i].from # None /\ t[i].from = t[j].from => i = j
  BY <1>2 DEF Apart
<1>7. ASSUME g # <<>>
      PROVE  /\ Len(g) = 1 /\ g[1].kind = "prompt" /\ Heard(g[1], q, l)
             /\ \A i \in 1..Len(t) : t[i].from # None => t[i].from # g[1].from
  <2>1. h # <<>>
    <3>1. 1 \in 1..Len(g)
      BY <1>3, <1>7, TailAt
    <3>2. h = <<>> => Len(h) = 0
      OBVIOUS
    <3> QED
      BY <1>3, <3>1, <3>2
  <2>2. h[1] \in Command /\ g[1] \in Command /\ 1 \in 1..Len(h)
    BY <1>3, <1>7, <2>1, TailAt
  <2>3. g[1].kind = h[1].kind /\ g[1].from = IF h[1].from = c THEN None ELSE h[1].from
    BY <1>3, <2>2
  <2>4. Heard(g[1], q, l)
    BY <1>4, <2>1, <2>2, <2>3 DEF Apart
  <2>5. ASSUME NEW i \in 1..Len(t), t[i].from # None PROVE t[i].from # g[1].from
    BY <1>2, <2>1, <2>3, <2>5 DEF Apart
  <2> QED
    BY <1>3, <2>1, <2>3, <2>4, <2>5 DEF Apart
<1>8. Apart(t, g, q, l)
  BY <1>5, <1>6, <1>7 DEF Apart
<1> QED
  BY <1>8 DEF t, g

-----------------------------------------------------------------------------
(* Types. *)

\* The values of the variables.
Tasks  == {"idle", "turn", "left", "gone"}
Places == {"idle", "reach", "send", "sent", "deliver", "mark", "forget", "refused"}
Asking == {"none", "parked", "answered"}

\* The types of what the calls keep.
CallTypes(p, k, a) ==
    /\ p \in [Calls -> Places] /\ k \in [Calls -> Kind \cup {None}]
    /\ a \in [Calls -> Questions \cup {None}]

\* The types of what the registry and the reports keep.
RecordTypes(kn, st, qu, rs) ==
    /\ kn \in BOOLEAN /\ st \in State /\ qu \in Questions \cup {None}
    /\ rs \in Seq(Report)

\* The types of what the session keeps.
SessionTypes(re, sg, t, s, h, pk) ==
    /\ re \in BOOLEAN /\ sg \in BOOLEAN /\ t \in Tasks
    /\ s \in Seq(Command) /\ h \in Seq(Command) /\ pk \in [Questions -> Asking]

\* Together they are all.
LEMMA TypeParts ==
    TypeOK <=> /\ CallTypes(pc, kind, about) /\ RecordTypes(known, state, question, reports)
               /\ SessionTypes(reachable, stopping, task, inbox, held, parked)
BY Zenon DEF TypeOK, CallTypes, RecordTypes, SessionTypes, Tasks, Places, Asking

\* The same of the next state.
LEMMA TypePartsNext ==
    TypeOK' <=> /\ CallTypes(pc', kind', about') /\ RecordTypes(known', state', question', reports')
                /\ SessionTypes(reachable', stopping', task', inbox', held', parked')
BY Zenon DEF TypeOK, CallTypes, RecordTypes, SessionTypes, Tasks, Places, Asking

\* Who wants what, with the variables named.
KindsOf(p, k, a) == \A c \in Calls : Wants(c, p, k, a)

\* All that the shape is.
LEMMA ShapeParts ==
    Shape <=> /\ CallTypes(pc, kind, about) /\ RecordTypes(known, state, question, reports)
              /\ SessionTypes(reachable, stopping, task, inbox, held, parked)
              /\ KindsOf(pc, kind, about)
              /\ Apart(inbox, held, pc, kind)
              /\ task \notin {"idle", "turn"} => inbox = <<>> /\ held = <<>>
BY TypeParts, Zenon DEF Shape, Kinds, KindsOf, Commands, Listening

\* The same of the next state.
LEMMA ShapePartsNext ==
    Shape' <=> /\ CallTypes(pc', kind', about') /\ RecordTypes(known', state', question', reports')
               /\ SessionTypes(reachable', stopping', task', inbox', held', parked')
               /\ KindsOf(pc', kind', about')
               /\ Apart(inbox', held', pc', kind')
               /\ task' \notin {"idle", "turn"} => inbox' = <<>> /\ held' = <<>>
BY TypePartsNext, Zenon DEF Shape, Kinds, KindsOf, Commands, Listening

\* What is reported is reported in full.
LEMMA ReportMade ==
    /\ \A s \in State : States(s) \in Report /\ States(s).what = "state" /\ States(s).of = s
                        /\ Saying(States(s)) = s
    /\ \A s \in State : Ended(s) \in Report /\ Saying(Ended(s)) = s
    /\ \A q \in Questions : Asked(q) \in Report /\ Saying(Asked(q)) = "waiting_approval"
BY DEF States, Ended, Asked, Report, Saying

\* What a report says is a state, and what it shows a question or nothing.
LEMMA ReportParts ==
    ASSUME NEW r \in Report, question \in Questions \cup {None}
    PROVE  Saying(r) \in State /\ Shows(r) \in Questions \cup {None}
BY DEF Report, Saying, Shows, State

\* What is said is a state.
LEMMA StatesTold ==
    /\ {"sleeping", "queued", "starting", "working", "waiting_approval", "paused",
        "cancelled", "offline"} \subseteq State
    /\ Over \subseteq State
    /\ \A k \in {"prompt", "cancel", "allow", "deny"} : Mark[k] \in State
    /\ Mark["prompt"] = "queued" /\ Mark["cancel"] = "paused"
    /\ Mark["allow"] = "working" /\ Mark["deny"] = "cancelled"
BY DEF State, Over, Mark

\* What applying a report makes of the registry.
LEMMA AppliesIs ==
    ASSUME RecordTypes(known, state, question, reports), NEW r \in Report, Applies(r)
    PROVE  /\ state' \in State /\ question' \in Questions \cup {None}
           /\ known => state' = Saying(r)
           /\ ~known => state' = state
<1>1. Saying(r) \in State /\ Shows(r) \in Questions \cup {None}
  BY ReportParts DEF RecordTypes
<1>2. /\ known => state' = Saying(r) /\ question' = Shows(r)
      /\ ~known => state' = state /\ question' = question
  BY Zenon DEF Applies, Saying
<1> QED
  BY <1>1, <1>2 DEF RecordTypes

\* One thing more is reported.
LEMMA ReportsIs ==
    ASSUME reports \in Seq(Report), NEW r \in Report, Reports(r)
    PROVE  /\ reports' \in Seq(Report) /\ reports' # <<>>
           /\ reports'[Len(reports')] = r
<1>1. reports' = Append(reports, r)
  BY DEF Reports
<1>2. /\ Append(reports, r) \in Seq(Report) /\ Append(reports, r) # <<>>
      /\ Len(Append(reports, r)) = Len(reports) + 1
      /\ Append(reports, r)[Len(reports) + 1] = r
  BY AppendProperties
<1> QED
  BY <1>1, <1>2

\* A call goes to another place.
LEMMA GoesIs ==
    ASSUME CallTypes(pc, kind, about), NEW c \in Calls, NEW at \in Places, Goes(c, at)
    PROVE  /\ CallTypes(pc', kind', about') /\ kind' = kind /\ about' = about
           /\ pc'[c] = at /\ \A d \in Calls : d # c => pc'[d] = pc[d]
           /\ But(c, pc, pc', kind, kind')
<1>1. pc' = [pc EXCEPT ![c] = at] /\ kind' = kind /\ about' = about
  BY DEF Goes
<1> QED
  BY <1>1 DEF CallTypes, But

\* A call comes to rest.
LEMMA RestsIs ==
    ASSUME CallTypes(pc, kind, about), NEW c \in Calls, Rests(c)
    PROVE  /\ CallTypes(pc', kind', about')
           /\ pc'[c] = "idle" /\ kind'[c] = None
           /\ \A d \in Calls : d # c => pc'[d] = pc[d] /\ kind'[d] = kind[d] /\ about'[d] = about[d]
           /\ But(c, pc, pc', kind, kind')
BY DEF CallTypes, But, Rests, Places

\* A call starts.
LEMMA StartsIs ==
    ASSUME CallTypes(pc, kind, about), NEW c \in Calls, NEW at \in Places, NEW k \in Kind,
           NEW q \in Questions \cup {None}, Starts(c, at, k, q)
    PROVE  /\ CallTypes(pc', kind', about')
           /\ pc[c] = "idle" /\ pc'[c] = at /\ kind'[c] = k /\ about'[c] = q
           /\ \A d \in Calls : d # c => pc'[d] = pc[d] /\ kind'[d] = kind[d] /\ about'[d] = about[d]
           /\ But(c, pc, pc', kind, kind')
BY DEF CallTypes, But, Starts

\* The caller of a command is told, if it still waits.
LEMMA TellsIs ==
    ASSUME CallTypes(pc, kind, about), NEW m \in Command, NEW at \in Places, Tells(m, at)
    PROVE  /\ CallTypes(pc', kind', about') /\ kind' = kind /\ about' = about
           /\ m.from # None => pc'[m.from] = at
           /\ \A d \in Calls : d # m.from => pc'[d] = pc[d]
           /\ But(m.from, pc, pc', kind, kind')
<1>1. CASE m.from = None
  <2>1. pc' = pc /\ kind' = kind /\ about' = about
    BY <1>1, Zenon DEF Tells, calls
  <2> QED
    BY <1>1, <2>1 DEF But
<1>2. CASE m.from # None
  <2>1. m.from \in Calls /\ Goes(m.from, at)
    BY <1>2, CommandParts, Zenon DEF Tells
  <2> QED
    BY <2>1, GoesIs
<1> QED
  BY <1>1, <1>2

\* Only one call takes a step, to a place that fits what it wants.
LEMMA KindsBut ==
    ASSUME NEW p, NEW q, NEW k, NEW l, NEW a, NEW b, NEW c, KindsOf(p, k, a),
           \A d \in Calls : d # c => q[d] = p[d] /\ l[d] = k[d] /\ b[d] = a[d],
           c \in Calls => Wants(c, q, l, b)
    PROVE  KindsOf(q, l, b)
BY DEF KindsOf, Wants

-----------------------------------------------------------------------------
(* The steps of a call. *)

\* What a call leaves alone, but for the reports, the inbox and the questions.
LEMMA CallShape ==
    ASSUME Shape, NEW c \in Calls, CallTypes(pc', kind', about'),
           pc[c] # "sent" \/ ~Listening,
           \A d \in Calls : d # c => pc'[d] = pc[d] /\ kind'[d] = kind[d] /\ about'[d] = about[d],
           Wants(c, pc', kind', about'),
           RecordTypes(known', state', question', reports'),
           reachable' \in BOOLEAN, parked' \in [Questions -> Asking],
           UNCHANGED session
    PROVE  Shape'
<1>1. task' = task /\ inbox' = inbox /\ held' = held /\ stopping' = stopping
  BY DEF session
<1>2. KindsOf(pc', kind', about')
  BY KindsBut, ShapeParts
<1>3. Apart(inbox, held, pc', kind')
  <2>1. CASE pc[c] # "sent"
    <3>1. But(c, pc, pc', kind, kind')
      BY DEF But
    <3>2. inbox \in Seq(Command) /\ held \in Seq(Command)
      BY ShapeParts DEF SessionTypes
    <3> QED
      BY <2>1, <3>1, <3>2, ApartStill, ShapeParts
  <2>2. CASE ~Listening
    BY <2>2, ApartEmpty, ShapeParts DEF Listening
  <2> QED
    BY <2>1, <2>2
<1>4. SessionTypes(reachable', stopping', task', inbox', held', parked')
  BY <1>1, ShapeParts DEF SessionTypes
<1> QED
  BY <1>1, <1>2, <1>3, <1>4, ShapeParts, ShapePartsNext

\* What the step leaves of the record is of its type.
LEMMA RecordStill ==
    ASSUME Shape, UNCHANGED <<registry, reports>>
    PROVE  RecordTypes(known', state', question', reports')
BY ShapeParts DEF RecordTypes, registry

\* The same of the session.
LEMMA SessionStill ==
    ASSUME Shape
    PROVE  /\ reachable' = reachable => reachable' \in BOOLEAN
           /\ parked' = parked => parked' \in [Questions -> Asking]
           /\ inbox \in Seq(Command) /\ held \in Seq(Command) /\ task \in Tasks
           /\ CallTypes(pc, kind, about) /\ Apart(inbox, held, pc, kind)
           /\ KindsOf(pc, kind, about) /\ \A c \in Calls : Wants(c, pc, kind, about)
           /\ reports \in Seq(Report) /\ RecordTypes(known, state, question, reports)
BY ShapeParts DEF SessionTypes, RecordTypes, KindsOf

\* The places a call may be at.
LEMMA PlacesTold ==
    /\ {"idle", "reach", "send", "sent", "deliver", "mark", "forget", "refused"} \subseteq Places
    /\ {"prompt", "cancel", "stop", "allow", "deny"} = Kind
BY DEF Places, Kind

\* A call starts.
LEMMA CallShapes ==
    ASSUME Shape, NEW c \in Calls, NEW k \in {"prompt", "cancel", "stop"}, Call(c, k)
    PROVE  Shape'
<1>1. /\ Starts(c, "reach", k, None) /\ UNCHANGED <<registry, reports, reachable, session, parked>>
  BY Zenon DEF Call
<1>2. /\ CallTypes(pc', kind', about') /\ pc[c] = "idle" /\ pc'[c] = "reach" /\ kind'[c] = k
      /\ \A d \in Calls : d # c => pc'[d] = pc[d] /\ kind'[d] = kind[d] /\ about'[d] = about[d]
  BY <1>1, StartsIs, SessionStill, PlacesTold
<1>3. Wants(c, pc', kind', about')
  BY <1>2 DEF Wants
<1> QED
  BY <1>1, <1>2, <1>3, CallShape, RecordStill, SessionStill

\* An answer starts.
LEMMA AnswerShapes ==
    ASSUME Shape, NEW c \in Calls, NEW k \in {"allow", "deny"}, Answer(c, k)
    PROVE  Shape'
<1>1. /\ Starts(c, "deliver", k, question) /\ question # None
      /\ UNCHANGED <<registry, reports, reachable, session, parked>>
  BY Zenon DEF Answer
<1>2. question \in Questions
  BY <1>1, ShapeParts DEF RecordTypes
<1>3. /\ CallTypes(pc', kind', about') /\ pc[c] = "idle" /\ pc'[c] = "deliver" /\ kind'[c] = k
      /\ about'[c] = question
      /\ \A d \in Calls : d # c => pc'[d] = pc[d] /\ kind'[d] = kind[d] /\ about'[d] = about[d]
  BY <1>1, <1>2, StartsIs, SessionStill, PlacesTold
<1>4. Wants(c, pc', kind', about')
  BY <1>2, <1>3 DEF Wants
<1> QED
  BY <1>1, <1>3, <1>4, CallShape, RecordStill, SessionStill

\* A call goes on, and only the calls, the way to the session and the questions
\* are touched.
LEMMA GoesShapes ==
    ASSUME Shape, NEW c \in Calls, NEW at \in Places, Goes(c, at),
           pc[c] # "sent" \/ ~Listening,
           at \in {"send", "refused"} => kind[c] \in {"prompt", "cancel", "stop"},
           at = "mark" => kind[c] \in {"prompt", "cancel", "allow", "deny"},
           at \notin {"deliver", "forget", "reach", "sent"},
           UNCHANGED <<registry, reports, session>>,
           reachable' \in BOOLEAN, parked' \in [Questions -> Asking]
    PROVE  Shape'
<1>1. /\ CallTypes(pc', kind', about') /\ kind' = kind /\ about' = about
      /\ pc'[c] = at /\ \A d \in Calls : d # c => pc'[d] = pc[d]
  BY GoesIs, SessionStill
<1>2. Wants(c, pc', kind', about')
  BY <1>1 DEF Wants
<1> QED
  BY <1>1, <1>2, CallShape, RecordStill

\* A call is over, and only the registry and the reports are touched.
LEMMA RestsShapes ==
    ASSUME Shape, NEW c \in Calls, Rests(c), pc[c] # "sent",
           RecordTypes(known', state', question', reports'),
           UNCHANGED <<reachable, session, parked>>
    PROVE  Shape'
<1>1. /\ CallTypes(pc', kind', about') /\ pc'[c] = "idle"
      /\ \A d \in Calls : d # c => pc'[d] = pc[d] /\ kind'[d] = kind[d] /\ about'[d] = about[d]
  BY RestsIs, SessionStill
<1>2. Wants(c, pc', kind', about')
  BY <1>1 DEF Wants
<1> QED
  BY <1>1, <1>2, CallShape, SessionStill

\* A call sends its command, or finds nobody there.
LEMMA SendShapes ==
    ASSUME Shape, NEW c \in Calls, Send(c)
    PROVE  Shape'
<1>1. /\ pc[c] = "send" /\ UNCHANGED <<registry, reports, reachable, task, held, stopping, parked>>
  BY Zenon DEF Send
<1>2. kind[c] \in {"prompt", "cancel", "stop"}
  BY <1>1, SessionStill DEF Wants
<1>3. CASE ~Listening
  <2>1. Goes(c, "refused") /\ inbox' = inbox
    BY <1>3, Zenon DEF Send
  <2>2. UNCHANGED <<registry, reports, session>>
    BY <1>1, <2>1 DEF session
  <2> QED
    BY <1>1, <1>2, <1>3, <2>1, <2>2, GoesShapes, SessionStill, PlacesTold
<1>4. CASE Listening
  <2> DEFINE m == [kind |-> kind[c], from |-> c]
  <2>1. inbox' = Append(inbox, m) /\ Goes(c, "sent")
    BY <1>4, Zenon DEF Send
  <2>2. m \in Command /\ m.kind = kind[c] /\ m.from = c
    BY <1>2, CommandMade
  <2> HIDE DEF m
  <2>3. /\ CallTypes(pc', kind', about') /\ kind' = kind /\ about' = about
        /\ pc'[c] = "sent" /\ \A d \in Calls : d # c => pc'[d] = pc[d]
        /\ But(c, pc, pc', kind, kind')
    BY <2>1, GoesIs, SessionStill, PlacesTold
  <2>4. Wants(c, pc', kind', about')
    BY <1>2, <2>3 DEF Wants
  <2>5. KindsOf(pc', kind', about')
    BY <2>3, <2>4, KindsBut, SessionStill
  <2>6. inbox' \in Seq(Command)
    BY <2>1, <2>2, AppendProperties, SessionStill
  <2>7. c # None
    BY ConstantsAssumption
  <2>8. Apart(inbox', held', pc', kind')
    BY <1>1, <2>1, <2>2, <2>3, <2>7, ApartJoin, SessionStill
  <2>9. SessionTypes(reachable', stopping', task', inbox', held', parked')
    BY <1>1, <2>6, ShapeParts DEF SessionTypes
  <2>10. RecordTypes(known', state', question', reports')
    BY <1>1, RecordStill
  <2>11. task' \in {"idle", "turn"}
    BY <1>1, <1>4 DEF Listening
  <2> QED
    BY <2>3, <2>5, <2>8, <2>9, <2>10, <2>11, ShapePartsNext
<1> QED
  BY <1>3, <1>4

\* A caller that waited gives up.
LEMMA DroppedShapes ==
    ASSUME Shape, NEW c \in Calls, Dropped(c)
    PROVE  Shape'
<1>1. /\ Rests(c) /\ UNCHANGED <<registry, reports, reachable, task, stopping, parked>>
      /\ inbox' = Unhears(inbox, c) /\ held' = Unhears(held, c)
  BY Zenon DEF Dropped, Unhears
<1>2. /\ CallTypes(pc', kind', about') /\ pc'[c] = "idle"
      /\ \A d \in Calls : d # c => pc'[d] = pc[d] /\ kind'[d] = kind[d] /\ about'[d] = about[d]
      /\ But(c, pc, pc', kind, kind')
  BY <1>1, RestsIs, SessionStill
<1>3. KindsOf(pc', kind', about')
  <2>1. Wants(c, pc', kind', about')
    BY <1>2 DEF Wants
  <2> QED
    BY <1>2, <2>1, KindsBut, SessionStill
<1>4. /\ inbox' \in Seq(Command) /\ Len(inbox') = Len(inbox)
      /\ held' \in Seq(Command) /\ Len(held') = Len(held)
  BY <1>1, SessionStill, UnhearsIs
<1>5. Apart(inbox', held', pc', kind')
  BY <1>1, <1>2, ApartUnheard, SessionStill
<1>6. SessionTypes(reachable', stopping', task', inbox', held', parked')
  BY <1>1, <1>4, ShapeParts DEF SessionTypes
<1>7. task' \notin {"idle", "turn"} => inbox' = <<>> /\ held' = <<>>
  <2> SUFFICES ASSUME task' \notin {"idle", "turn"} PROVE inbox' = <<>> /\ held' = <<>>
    OBVIOUS
  <2>1. inbox = <<>> /\ held = <<>>
    BY <1>1, ShapeParts
  <2>2. Len(inbox) = 0 /\ Len(held) = 0
    BY <2>1
  <2>3. inbox' # <<>> => Len(inbox') \in Nat \ {0}
    BY <1>4, EmptySeq
  <2>4. held' # <<>> => Len(held') \in Nat \ {0}
    BY <1>4, EmptySeq
  <2> QED
    BY <1>4, <2>2, <2>3, <2>4
<1> QED
  BY <1>1, <1>2, <1>3, <1>5, <1>6, <1>7, RecordStill, ShapePartsNext

\* The other steps of a call.
LEMMA CallerShapes ==
    ASSUME Shape, NEW c \in Calls, Caller(c)
    PROVE  Shape'
<1>1. ASSUME Reach(c) PROVE Shape'
  <2>1. /\ pc[c] = "reach" /\ Goes(c, IF reachable THEN "send" ELSE "refused")
        /\ reachable' = (reachable /\ kind[c] # "stop")
        /\ UNCHANGED <<registry, reports, session, parked>>
    BY <1>1, Zenon DEF Reach
  <2>2. kind[c] \in {"prompt", "cancel", "stop"}
    BY <2>1, SessionStill DEF Wants
  <2>3. reachable' \in BOOLEAN /\ parked' \in [Questions -> Asking]
    BY <2>1, SessionStill
  <2>4. (IF reachable THEN "send" ELSE "refused") \in {"send", "refused"}
    OBVIOUS
  <2>5. PICK at \in {"send", "refused"} : Goes(c, at)
    BY <2>1, <2>4, Zenon
  <2> QED
    BY <2>1, <2>2, <2>3, <2>5, GoesShapes, PlacesTold
<1>2. ASSUME Refused(c) PROVE Shape'
  <2>1. /\ pc[c] = "sent" /\ ~Listening /\ Goes(c, "refused")
        /\ UNCHANGED <<registry, reports, reachable, session, parked>>
    BY <1>2, Zenon DEF Refused
  <2>2. kind[c] \in {"prompt", "cancel", "stop"}
    BY <2>1, SessionStill DEF Wants
  <2> QED
    BY <2>1, <2>2, GoesShapes, PlacesTold, SessionStill
<1>3. ASSUME Deliver(c) PROVE Shape'
  <2>1. /\ pc[c] = "deliver" /\ UNCHANGED <<registry, reports, reachable, session>>
    BY <1>3, Zenon DEF Deliver
  <2>2. kind[c] \in {"allow", "deny"} /\ about[c] \in Questions
    BY <2>1, SessionStill DEF Wants
  <2>3. CASE reachable /\ parked[about[c]] = "parked"
    <3>1. parked' = [parked EXCEPT ![about[c]] = "answered"] /\ Goes(c, "mark")
      BY <1>3, <2>3, Zenon DEF Deliver
    <3>2. parked' \in [Questions -> Asking]
      BY <3>1, ShapeParts DEF SessionTypes, Asking
    <3> QED
      BY <2>1, <2>2, <3>1, <3>2, GoesShapes, PlacesTold, SessionStill
  <2>4. CASE ~(reachable /\ parked[about[c]] = "parked")
    <3>1. Rests(c) /\ parked' = parked
      BY <1>3, <2>4, Zenon DEF Deliver
    <3> QED
      BY <2>1, <3>1, RestsShapes, RecordStill
  <2> QED
    BY <2>3, <2>4
<1>4. ASSUME Marks(c) PROVE Shape'
  <2>1. /\ pc[c] = "mark" /\ Applies(States(Mark[kind[c]])) /\ Reports(States(Mark[kind[c]]))
        /\ Rests(c) /\ UNCHANGED <<known, reachable, session, parked>>
    BY <1>4, Zenon DEF Marks
  <2>2. kind[c] \in {"prompt", "cancel", "allow", "deny"}
    BY <2>1, SessionStill DEF Wants
  <2>3. States(Mark[kind[c]]) \in Report
    BY <2>2, StatesTold, ReportMade
  <2>4. RecordTypes(known', state', question', reports')
    BY <2>1, <2>3, AppliesIs, ReportsIs, SessionStill DEF RecordTypes
  <2> QED
    BY <2>1, <2>4, RestsShapes
<1>5. ASSUME Told(c) PROVE Shape'
  <2>1. /\ pc[c] = "refused" /\ Rests(c)
        /\ UNCHANGED <<registry, reports, reachable, session, parked>>
    BY <1>5, Zenon DEF Told
  <2> QED
    BY <2>1, RestsShapes, RecordStill
<1>6. ASSUME Forgets(c) PROVE Shape'
  <2>1. /\ pc[c] \in {"forget", "refused"} /\ Rests(c) /\ known' = FALSE
        /\ UNCHANGED <<state, question, reports, reachable, session, parked>>
    BY <1>6, Zenon DEF Forgets
  <2>2. RecordTypes(known', state', question', reports')
    BY <2>1, SessionStill DEF RecordTypes
  <2> QED
    BY <2>1, <2>2, RestsShapes
<1> QED
  BY <1>1, <1>2, <1>3, <1>4, <1>5, <1>6, CallShapes, AnswerShapes, SendShapes, DroppedShapes,
     Zenon DEF Caller

-----------------------------------------------------------------------------
(* The steps of the task. *)

\* A prompt, a cancel or a stop is taken in mid-turn.
LEMMA TakeInTurnIs ==
    ASSUME Shape, TakeInTurn
    PROVE  /\ task = "turn" /\ inbox # <<>> /\ inbox' = Tail(inbox)
           /\ Head(inbox) \in Command
           /\ Head(inbox).kind \in {"prompt", "cancel", "stop"}
           /\ Head(inbox).kind = "prompt" => Holds(Head(inbox)) /\ stopping' = stopping
           /\ Head(inbox).kind = "cancel" => Tells(Head(inbox), "mark") /\ UNCHANGED <<held, stopping>>
           /\ Head(inbox).kind = "stop" => /\ Tells(Head(inbox), "forget")
                                           /\ stopping' = TRUE /\ held' = held
           /\ UNCHANGED <<registry, reports, reachable, task, parked>>
<1>1. task = "turn" /\ inbox # <<>>
  BY Zenon DEF TakeInTurn
<1>2. Head(inbox) \in Command
  BY <1>1, TailAt, SessionStill
<1>3. Head(inbox).kind \in {"prompt", "cancel", "stop"}
  BY <1>2, CommandParts
<1> DEFINE m == Head(inbox)
<1>4. /\ inbox' = Tail(inbox) /\ UNCHANGED <<registry, reports, reachable, task, parked>>
      /\ CASE m.kind = "prompt" -> Holds(m) /\ UNCHANGED stopping
           [] m.kind = "cancel" -> Tells(m, "mark") /\ UNCHANGED <<held, stopping>>
           [] m.kind = "stop"   -> Tells(m, "forget") /\ stopping' = TRUE /\ UNCHANGED held
  BY Zenon DEF TakeInTurn
<1> HIDE DEF m
<1>5. "prompt" # "cancel" /\ "prompt" # "stop" /\ "cancel" # "stop"
  OBVIOUS
<1>6. m.kind = "prompt" => Holds(m) /\ stopping' = stopping
  BY <1>4, <1>5, Zenon
<1>7. m.kind = "cancel" => Tells(m, "mark") /\ UNCHANGED <<held, stopping>>
  BY <1>4, <1>5, Zenon
<1>8. m.kind = "stop" => Tells(m, "forget") /\ stopping' = TRUE /\ held' = held
  BY <1>4, <1>5, Zenon
<1> QED
  BY <1>1, <1>2, <1>3, <1>4, <1>6, <1>7, <1>8, Zenon DEF m

\* The held command comes first.
LEMMA WaitingIs ==
    ASSUME Shape
    PROVE  /\ held = <<>> => Waiting = inbox
           /\ held # <<>> => /\ Head(Waiting) = held[1] /\ Tail(Waiting) = inbox
                             /\ held[1] \in Command /\ held[1].kind = "prompt"
<1>1. held \in Seq(Command) /\ inbox \in Seq(Command) /\ Apart(inbox, held, pc, kind)
  BY SessionStill
<1>2. held = <<>> => Waiting = inbox
  BY <1>1, ConcatEmptySeq DEF Waiting
<1>3. ASSUME held # <<>>
      PROVE  /\ Head(Waiting) = held[1] /\ Tail(Waiting) = inbox
             /\ held[1] \in Command /\ held[1].kind = "prompt"
  <2>1. Len(held) = 1 /\ held[1].kind = "prompt" /\ held[1] \in Command
    BY <1>1, <1>3, TailAt DEF Apart
  <2>2. Len(inbox) \in Nat
    BY <1>1, LenProperties
  <2>3. /\ Waiting \in Seq(Command) /\ Len(Waiting) = Len(held) + Len(inbox)
        /\ \A i \in 1..Len(held) + Len(inbox) :
             Waiting[i] = IF i <= Len(held) THEN held[i] ELSE inbox[i - Len(held)]
    BY <1>1, ConcatProperties DEF Waiting
  <2>4. Len(Waiting) = 1 + Len(inbox)
    BY <2>1, <2>3
  <2>5. Waiting[1] = held[1]
    BY <2>1, <2>2, <2>3
  <2>6. \A i \in 1..Len(inbox) : Waiting[i + 1] = inbox[i]
    <3> TAKE i \in 1..Len(inbox)
    <3>1. i + 1 \in 1..1 + Len(inbox) /\ ~(i + 1 <= 1) /\ (i + 1) - 1 = i
      BY <2>2
    <3> QED
      BY <2>1, <2>3, <3>1
  <2>7. Waiting # <<>>
    <3>1. Len(<<>>) = 0 /\ Len(Waiting) # 0
      BY <2>2, <2>4
    <3> QED
      BY <3>1
  <2>8. /\ Head(Waiting) = Waiting[1] /\ Tail(Waiting) \in Seq(Command)
        /\ Len(Tail(Waiting)) = Len(Waiting) - 1
        /\ \A i \in 1..Len(Tail(Waiting)) : Tail(Waiting)[i] = Waiting[i + 1]
    BY <2>3, <2>7, HeadTailProperties
  <2>9. Len(Tail(Waiting)) = Len(inbox)
    BY <2>2, <2>4, <2>8
  <2>10. Tail(Waiting) = inbox
    BY <1>1, <2>6, <2>8, <2>9, SeqEqual
  <2> QED
    BY <2>1, <2>5, <2>8, <2>10
<1> QED
  BY <1>2, <1>3

\* What is taken between turns: m, and what is left in the inbox.
Takes(m, left) ==
    \/ held = <<>> /\ inbox # <<>> /\ m = Head(inbox) /\ left = Tail(inbox)
    \/ held # <<>> /\ m = held[1] /\ m.kind = "prompt" /\ left = inbox

\* A command is taken between turns.
LEMMA TakeNextIs ==
    ASSUME Shape, TakeNext
    PROVE  /\ task = "idle" /\ UNCHANGED <<registry, reachable, stopping, parked>>
           /\ \E m \in Command : \E left \in Seq(Command) :
                /\ Takes(m, left)
                /\ \/ m.kind = "prompt" /\ Begins(m) /\ held' = <<>> /\ inbox' = left
                   \/ /\ m.kind = "cancel" /\ Tells(m, "mark") /\ held' = <<>> /\ inbox' = left
                      /\ UNCHANGED <<reports, task>>
                   \/ /\ m.kind = "stop" /\ MayReport /\ Tells(m, "forget") /\ Leaves
                      /\ Reports(States("offline"))
<1> DEFINE m    == Head(Waiting)
           left == Tail(Waiting)
<1>1. /\ task = "idle" /\ Waiting # <<>> /\ UNCHANGED <<registry, reachable, stopping, parked>>
      /\ \/ m.kind = "prompt" /\ Begins(m) /\ held' = <<>> /\ inbox' = left
         \/ /\ m.kind = "cancel" /\ Tells(m, "mark") /\ held' = <<>> /\ inbox' = left
            /\ UNCHANGED <<reports, task>>
         \/ /\ m.kind = "stop" /\ MayReport /\ Tells(m, "forget") /\ Leaves
            /\ Reports(States("offline"))
  BY Zenon DEF TakeNext
<1>2. m \in Command /\ left \in Seq(Command) /\ Takes(m, left)
  <2>1. inbox \in Seq(Command)
    BY SessionStill
  <2>2. CASE held = <<>>
    <3>1. Waiting = inbox
      BY <2>2, WaitingIs
    <3>2. inbox # <<>> /\ m = Head(inbox) /\ left = Tail(inbox)
      BY <1>1, <3>1
    <3>3. Head(inbox) \in Command /\ Tail(inbox) \in Seq(Command)
      BY <2>1, <3>2, TailAt
    <3> QED
      BY <2>2, <3>2, <3>3, Zenon DEF Takes
  <2>3. CASE held # <<>>
    <3>1. m = held[1] /\ left = inbox /\ held[1] \in Command /\ held[1].kind = "prompt"
      BY <2>3, WaitingIs
    <3> QED
      BY <2>1, <2>3, <3>1, Zenon DEF Takes
  <2> QED
    BY <2>2, <2>3
<1> HIDE DEF m, left
<1> QED
  BY <1>1, <1>2, Zenon

\* What is taken between turns, and its caller told, leaves the others apart.
LEMMA ApartTakes ==
    ASSUME Shape, NEW m \in Command, NEW left, Takes(m, left), NEW q, NEW l,
           But(m.from, pc, q, kind, l)
    PROVE  Apart(left, <<>>, q, l)
<1>1. inbox \in Seq(Command) /\ held \in Seq(Command) /\ Apart(inbox, held, pc, kind)
  BY SessionStill
<1>2. CASE held = <<>> /\ inbox # <<>> /\ m = Head(inbox) /\ left = Tail(inbox)
  BY <1>1, <1>2, ApartLeave
<1>3. CASE held # <<>> /\ m = held[1] /\ left = inbox
  BY <1>1, <1>3, ApartRelease
<1> QED
  BY <1>2, <1>3 DEF Takes

\* The caller of what is taken waits for it.
LEMMA TakenIsHeard ==
    ASSUME Shape, NEW m
    PROVE  /\ inbox # <<>> /\ m = Head(inbox) => Heard(m, pc, kind)
           /\ held # <<>> /\ m = held[1] => Heard(m, pc, kind)
           /\ \A left : Takes(m, left) => Heard(m, pc, kind)
<1>1. inbox \in Seq(Command) /\ Apart(inbox, held, pc, kind)
  BY SessionStill
<1>2. inbox # <<>> /\ m = Head(inbox) => Heard(m, pc, kind)
  BY <1>1, TailAt DEF Apart
<1>3. held # <<>> /\ m = held[1] => Heard(m, pc, kind)
  BY <1>1 DEF Apart
<1> QED
  BY <1>2, <1>3 DEF Takes

\* A caller is told what fits the command it waits for.
LEMMA TellsKinds ==
    ASSUME Shape, NEW m \in Command, NEW at, Heard(m, pc, kind), Tells(m, at),
           \/ at = "mark" /\ m.kind \in {"prompt", "cancel"}
           \/ at = "forget" /\ m.kind = "stop"
           \/ at = "refused"
    PROVE  /\ CallTypes(pc', kind', about') /\ KindsOf(pc', kind', about')
           /\ But(m.from, pc, pc', kind, kind')
<1>1. at \in Places
  BY PlacesTold
<1>2. /\ CallTypes(pc', kind', about') /\ kind' = kind /\ about' = about
      /\ m.from # None => pc'[m.from] = at
      /\ \A d \in Calls : d # m.from => pc'[d] = pc[d]
      /\ But(m.from, pc, pc', kind, kind')
  BY <1>1, TellsIs, SessionStill
<1>3. m.from \in Calls => Wants(m.from, pc', kind', about')
  <2> SUFFICES ASSUME m.from \in Calls PROVE Wants(m.from, pc', kind', about')
    OBVIOUS
  <2>1. m.from # None
    BY ConstantsAssumption
  <2>2. kind'[m.from] = m.kind /\ pc'[m.from] = at /\ m.kind \in {"prompt", "cancel", "stop"}
    BY <1>2, <2>1, CommandParts DEF Heard
  <2> QED
    BY <2>2 DEF Wants
<1>4. \A d \in Calls : d # m.from => pc'[d] = pc[d] /\ kind'[d] = kind[d] /\ about'[d] = about[d]
  BY <1>2
<1>5. KindsOf(pc, kind, about)
  BY SessionStill
<1>6. KindsOf(pc', kind', about')
  <2> SUFFICES ASSUME NEW d \in Calls PROVE Wants(d, pc', kind', about')
    BY DEF KindsOf
  <2>1. Wants(d, pc, kind, about)
    BY <1>5 DEF KindsOf
  <2>2. CASE d = m.from
    BY <1>3, <2>2
  <2>3. CASE d # m.from
    BY <1>4, <2>1, <2>3 DEF Wants
  <2> QED
    BY <2>2, <2>3
<1> QED
  BY <1>2, <1>6

\* In mid-turn.
LEMMA TakeInTurnShapes ==
    ASSUME Shape, TakeInTurn
    PROVE  Shape'
<1> DEFINE m == Head(inbox)
<1>1. /\ task = "turn" /\ inbox # <<>> /\ inbox' = Tail(inbox) /\ m \in Command
      /\ UNCHANGED <<registry, reports, reachable, task, parked>>
      /\ m.kind \in {"prompt", "cancel", "stop"}
  BY TakeInTurnIs
<1>2. Heard(m, pc, kind)
  BY <1>1, TakenIsHeard
<1>3. /\ m.kind = "prompt" => Holds(m) /\ stopping' = stopping
      /\ m.kind = "cancel" => Tells(m, "mark") /\ held' = held /\ stopping' = stopping
      /\ m.kind = "stop" => Tells(m, "forget") /\ stopping' = TRUE /\ held' = held
  BY TakeInTurnIs
<1>4. /\ inbox \in Seq(Command) /\ held \in Seq(Command) /\ Tail(inbox) \in Seq(Command)
      /\ Apart(inbox, held, pc, kind) /\ stopping \in BOOLEAN
      /\ CallTypes(pc, kind, about) /\ KindsOf(pc, kind, about)
  BY <1>1, TailAt, SessionStill, ShapeParts DEF SessionTypes
<1>5. ASSUME held' \in Seq(Command), stopping' \in BOOLEAN, CallTypes(pc', kind', about'),
             KindsOf(pc', kind', about'), Apart(Tail(inbox), held', pc', kind')
      PROVE  Shape'
  <2>1. SessionTypes(reachable', stopping', task', inbox', held', parked')
    BY <1>1, <1>4, <1>5, ShapeParts DEF SessionTypes
  <2>2. RecordTypes(known', state', question', reports')
    BY <1>1, RecordStill
  <2> QED
    BY <1>1, <1>5, <2>1, <2>2, ShapePartsNext
<1>6. CASE m.kind = "prompt"
  <2>1. held' = <<m>> /\ stopping' = stopping
    BY <1>3, <1>6, Zenon DEF Holds
  <2>2. <<m>> \in Seq(Command)
    BY <1>1
  <2>3. CASE held = <<>>
    <3>1. UNCHANGED calls
      BY <1>3, <1>6, <2>3, Zenon DEF Holds
    <3>2. pc' = pc /\ kind' = kind /\ about' = about
      BY <3>1 DEF calls
    <3>3. Apart(Tail(inbox), <<m>>, pc, kind)
      BY <1>1, <1>4, <1>6, <2>3, ApartHold
    <3> QED
      BY <1>4, <1>5, <2>1, <2>2, <3>2, <3>3
  <2>4. CASE held # <<>>
    <3>1. Tells(held[1], "refused")
      BY <1>3, <1>6, <2>4, Zenon DEF Holds
    <3>2. held[1] \in Command /\ Heard(held[1], pc, kind)
      BY <2>4, WaitingIs, TakenIsHeard
    <3>3. /\ CallTypes(pc', kind', about') /\ KindsOf(pc', kind', about')
          /\ But(held[1].from, pc, pc', kind, kind')
      BY <3>1, <3>2, TellsKinds
    <3>4. Apart(inbox, <<>>, pc', kind')
      BY <1>4, <2>4, <3>3, ApartRelease
    <3>5. Apart(Tail(inbox), <<m>>, pc', kind')
      BY <1>1, <1>4, <1>6, <3>4, ApartHold
    <3> QED
      BY <1>4, <1>5, <2>1, <2>2, <3>3, <3>5
  <2> QED
    BY <2>3, <2>4
<1>7. CASE m.kind \in {"cancel", "stop"}
  <2>1. PICK at \in {"mark", "forget"} :
          Tells(m, at) /\ ((at = "mark" /\ m.kind = "cancel") \/ (at = "forget" /\ m.kind = "stop"))
    <3>1. CASE m.kind = "cancel"
      <4>1. Tells(m, "mark")
        BY <1>3, <3>1
      <4>2. "mark" \in {"mark", "forget"}
        OBVIOUS
      <4> QED
        BY <3>1, <4>1, <4>2, Zenon
    <3>2. CASE m.kind = "stop"
      <4>1. Tells(m, "forget")
        BY <1>3, <3>2
      <4>2. "forget" \in {"mark", "forget"}
        OBVIOUS
      <4> QED
        BY <3>2, <4>1, <4>2, Zenon
    <3> QED
      BY <1>7, <3>1, <3>2
  <2>2. /\ CallTypes(pc', kind', about') /\ KindsOf(pc', kind', about')
        /\ But(m.from, pc, pc', kind, kind')
    BY <1>1, <1>2, <2>1, TellsKinds
  <2>3. Apart(Tail(inbox), held, pc', kind')
    BY <1>1, <1>4, <2>2, ApartLeave
  <2>4. held' = held /\ stopping' \in BOOLEAN
    BY <1>3, <1>4, <1>7
  <2> QED
    BY <1>4, <1>5, <2>2, <2>3, <2>4
<1> QED
  BY <1>1, <1>6, <1>7

\* Between turns.
LEMMA TakeNextShapes ==
    ASSUME Shape, TakeNext
    PROVE  Shape'
<1>1. task = "idle" /\ UNCHANGED <<registry, reachable, stopping, parked>>
  BY TakeNextIs
<1>2. PICK m \in Command, left \in Seq(Command) :
        /\ Takes(m, left)
        /\ \/ m.kind = "prompt" /\ Begins(m) /\ held' = <<>> /\ inbox' = left
           \/ /\ m.kind = "cancel" /\ Tells(m, "mark") /\ held' = <<>> /\ inbox' = left
              /\ UNCHANGED <<reports, task>>
           \/ /\ m.kind = "stop" /\ MayReport /\ Tells(m, "forget") /\ Leaves
              /\ Reports(States("offline"))
  BY TakeNextIs
<1>3. Heard(m, pc, kind)
  BY <1>2, TakenIsHeard
<1>4. <<>> \in Seq(Command)
  BY EmptySeq
<1>5. RecordTypes(known, state, question, reports)
  BY SessionStill
<1>6. ASSUME inbox' \in Seq(Command), held' = <<>>, task' \in Tasks, reports' \in Seq(Report),
             CallTypes(pc', kind', about'), KindsOf(pc', kind', about'),
             Apart(inbox', <<>>, pc', kind'), task' \notin {"idle", "turn"} => inbox' = <<>>
      PROVE  Shape'
  <2>1. SessionTypes(reachable', stopping', task', inbox', held', parked')
    BY <1>1, <1>4, <1>6, ShapeParts DEF SessionTypes
  <2>2. RecordTypes(known', state', question', reports')
    BY <1>1, <1>5, <1>6 DEF RecordTypes, registry
  <2> QED
    BY <1>6, <2>1, <2>2, ShapePartsNext
<1>7. CASE m.kind = "prompt" /\ Begins(m) /\ held' = <<>> /\ inbox' = left
  <2>1. task' = "turn" /\ Reports(States("working")) /\ Tells(m, "mark")
    BY <1>7, Zenon DEF Begins
  <2>2. reports' \in Seq(Report)
    BY <2>1, StatesTold, ReportMade, ReportsIs, SessionStill
  <2>3. /\ CallTypes(pc', kind', about') /\ KindsOf(pc', kind', about')
        /\ But(m.from, pc, pc', kind, kind')
    BY <1>3, <1>7, <2>1, TellsKinds
  <2>4. Apart(left, <<>>, pc', kind')
    BY <1>2, <2>3, ApartTakes
  <2> QED
    BY <1>6, <1>7, <2>1, <2>2, <2>3, <2>4 DEF Tasks
<1>8. CASE /\ m.kind = "cancel" /\ Tells(m, "mark") /\ held' = <<>> /\ inbox' = left
           /\ UNCHANGED <<reports, task>>
  <2>1. /\ CallTypes(pc', kind', about') /\ KindsOf(pc', kind', about')
        /\ But(m.from, pc, pc', kind, kind')
    BY <1>3, <1>8, TellsKinds
  <2>2. Apart(left, <<>>, pc', kind')
    BY <1>2, <2>1, ApartTakes
  <2>3. reports' \in Seq(Report) /\ task' = "idle"
    BY <1>1, <1>8, SessionStill
  <2> QED
    BY <1>6, <1>8, <2>1, <2>2, <2>3 DEF Tasks
<1>9. CASE /\ m.kind = "stop" /\ MayReport /\ Tells(m, "forget") /\ Leaves
           /\ Reports(States("offline"))
  <2>1. task' = "left" /\ inbox' = <<>> /\ held' = <<>>
    BY <1>9, Zenon DEF Leaves
  <2>2. reports' \in Seq(Report)
    BY <1>9, StatesTold, ReportMade, ReportsIs, SessionStill
  <2>3. /\ CallTypes(pc', kind', about') /\ KindsOf(pc', kind', about')
    BY <1>3, <1>9, TellsKinds
  <2> QED
    BY <1>4, <1>6, <2>1, <2>2, <2>3, ApartEmpty DEF Tasks
<1> QED
  BY <1>2, <1>7, <1>8, <1>9

\* The turn is over.
LEMMA EndTurnIs ==
    ASSUME Shape, NEW reason \in Over, EndTurn(reason)
    PROVE  /\ task = "turn" /\ MayReport /\ UNCHANGED <<registry, reachable, stopping, parked, calls>>
           /\ reports' \in Seq(Report) /\ reports' # <<>>
           /\ stopping => /\ task' = "left" /\ inbox' = <<>> /\ held' = <<>>
                          /\ reports'[Len(reports')] = States("offline")
           /\ ~stopping => /\ task' = "idle" /\ UNCHANGED <<inbox, held>>
                           /\ reports'[Len(reports')] = Ended(reason)
<1>1. /\ task = "turn" /\ MayReport /\ UNCHANGED <<registry, reachable, stopping, parked, calls>>
      /\ reports' = reports \o <<Ended(reason)>>
                            \o (IF stopping THEN <<States("offline")>> ELSE <<>>)
  BY Zenon DEF EndTurn
<1>2. Ended(reason) \in Report /\ States("offline") \in Report
  BY StatesTold, ReportMade
<1>3. reports \in Seq(Report)
  BY SessionStill
<1> DEFINE e == Ended(reason)
           o == States("offline")
           s == reports \o <<e>>
<1> HIDE DEF e, o
<1>4. e \in Report /\ o \in Report
  BY <1>2 DEF e, o
<1>5. s = Append(reports, e)
  BY <1>3, <1>4, AppendIsConcat
<1>6. s \in Seq(Report) /\ s # <<>> /\ s[Len(s)] = e
  <2>1. /\ Append(reports, e) \in Seq(Report) /\ Append(reports, e) # <<>>
        /\ Len(Append(reports, e)) = Len(reports) + 1
        /\ Append(reports, e)[Len(reports) + 1] = e
    BY <1>3, <1>4, AppendProperties
  <2> QED
    BY <1>5, <2>1
<1> HIDE DEF s
<1>7. CASE stopping
  <2>1. reports' = s \o <<o>>
    BY <1>1, <1>7, Zenon DEF s, e, o
  <2>2. reports' = Append(s, o)
    BY <1>4, <1>6, <2>1, AppendIsConcat
  <2>3. /\ Append(s, o) \in Seq(Report) /\ Append(s, o) # <<>>
        /\ Len(Append(s, o)) = Len(s) + 1
        /\ Append(s, o)[Len(s) + 1] = o
    BY <1>4, <1>6, AppendProperties
  <2>4. reports' \in Seq(Report) /\ reports' # <<>> /\ reports'[Len(reports')] = o
    BY <2>2, <2>3
  <2>5. task' = "left" /\ inbox' = <<>> /\ held' = <<>>
    BY <1>7, Zenon DEF EndTurn, Leaves
  <2> QED
    BY <1>1, <1>7, <2>4, <2>5, Zenon DEF o
<1>8. CASE ~stopping
  <2>1. reports' = s \o <<>>
    BY <1>1, <1>8, Zenon DEF s, e
  <2>2. reports' = s
    BY <1>6, <2>1, ConcatEmptySeq
  <2>3. task' = "idle" /\ UNCHANGED <<inbox, held>>
    BY <1>8, Zenon DEF EndTurn
  <2> QED
    BY <1>1, <1>6, <1>8, <2>2, <2>3, Zenon DEF e
<1> QED
  BY <1>7, <1>8

\* The steps that touch neither the calls nor, but to empty them, the commands.
LEMMA ServeShape ==
    ASSUME Shape, UNCHANGED calls, RecordTypes(known', state', question', reports'),
           reachable' = reachable, stopping' = stopping, task' \in Tasks,
           parked' \in [Questions -> Asking],
           \/ inbox' = <<>> /\ held' = <<>>
           \/ inbox' = inbox /\ held' = held /\ (task' = task \/ task' \in {"idle", "turn"})
    PROVE  Shape'
<1>1. pc' = pc /\ kind' = kind /\ about' = about
  BY DEF calls
<1>2. <<>> \in Seq(Command)
  BY EmptySeq
<1>3. SessionTypes(reachable', stopping', task', inbox', held', parked')
  BY <1>2, ShapeParts DEF SessionTypes
<1>4. Apart(inbox', held', pc', kind')
  BY <1>1, ApartEmpty, ShapeParts
<1>5. task' \notin {"idle", "turn"} => inbox' = <<>> /\ held' = <<>>
  BY ShapeParts
<1> QED
  BY <1>1, <1>3, <1>4, <1>5, ShapeParts, ShapePartsNext

\* The agent has opened a session, and nobody has called.
LEMMA ShapeInit == Init => Shape
<1> SUFFICES ASSUME Init PROVE Shape
  OBVIOUS
<1>1. /\ known = FALSE /\ state = "offline" /\ question = None
      /\ reports = <<States("sleeping")>>
      /\ reachable = TRUE /\ task = "idle" /\ inbox = <<>> /\ held = <<>> /\ stopping = FALSE
      /\ parked = [q \in Questions |-> "none"] /\ pc = [c \in Calls |-> "idle"]
      /\ kind = [c \in Calls |-> None] /\ about = [c \in Calls |-> None]
  BY Zenon DEF Init
<1>2. States("sleeping") \in Report
  BY StatesTold, ReportMade
<1>3. RecordTypes(known, state, question, reports)
  <2>1. reports \in Seq(Report)
    BY <1>1, <1>2
  <2> QED
    BY <1>1, <2>1, StatesTold DEF RecordTypes
<1>4. <<>> \in Seq(Command)
  BY EmptySeq
<1>5. SessionTypes(reachable, stopping, task, inbox, held, parked)
  BY <1>1, <1>4 DEF SessionTypes, Tasks, Asking
<1>6. CallTypes(pc, kind, about)
  BY <1>1, PlacesTold DEF CallTypes
<1>7. KindsOf(pc, kind, about)
  BY <1>1 DEF KindsOf, Wants
<1> QED
  BY <1>1, <1>3, <1>5, <1>6, <1>7, ApartEmpty, ShapeParts

\* Every step keeps it.
LEMMA ShapeNext == Shape /\ [Next]_vars => Shape'
<1> SUFFICES ASSUME Shape, [Next]_vars PROVE Shape'
  OBVIOUS
<1>1. /\ RecordTypes(known, state, question, reports) /\ reports \in Seq(Report)
      /\ task \in Tasks /\ parked \in [Questions -> Asking]
  BY ShapeParts DEF SessionTypes, RecordTypes
<1>3. ASSUME Opened PROVE Shape'
  <2>1. /\ known' = TRUE /\ state' = "starting" /\ Reports(States("starting"))
        /\ UNCHANGED <<question, reachable, session, parked, calls>>
    BY <1>3, Zenon DEF Opened
  <2>2. reports' \in Seq(Report)
    BY <1>1, <2>1, StatesTold, ReportMade, ReportsIs
  <2>3. RecordTypes(known', state', question', reports')
    BY <1>1, <2>1, <2>2, StatesTold DEF RecordTypes
  <2> QED
    BY <1>1, <2>1, <2>3, ServeShape DEF session
<1>4. ASSUME Apply PROVE Shape'
  <2>1. /\ reports # <<>> /\ reports' = Tail(reports) /\ Applies(Head(reports))
        /\ UNCHANGED <<known, reachable, session, parked, calls>>
    BY <1>4, Zenon DEF Apply
  <2>2. Head(reports) \in Report /\ Tail(reports) \in Seq(Report)
    BY <1>1, <2>1, TailAt
  <2>3. RecordTypes(known', state', question', reports')
    BY <1>1, <2>1, <2>2, AppliesIs DEF RecordTypes
  <2> QED
    BY <1>1, <2>1, <2>3, ServeShape DEF session
<1>5. ASSUME InboxCloses PROVE Shape'
  <2>1. /\ Leaves /\ Reports(States("offline"))
        /\ UNCHANGED <<registry, reachable, stopping, parked, calls>>
    BY <1>5, Zenon DEF InboxCloses
  <2>2. reports' \in Seq(Report)
    BY <1>1, <2>1, StatesTold, ReportMade, ReportsIs
  <2>3. RecordTypes(known', state', question', reports')
    BY <1>1, <2>1, <2>2 DEF RecordTypes, registry
  <2> QED
    BY <1>1, <2>1, <2>3, ServeShape DEF Leaves, Tasks
<1>6. ASSUME Ends PROVE Shape'
  <2>1. /\ task = "left" /\ task' = "gone" /\ Reports(States("offline"))
        /\ parked' = [q \in Questions |-> "none"]
        /\ UNCHANGED <<registry, reachable, inbox, held, stopping, calls>>
    BY <1>6, Zenon DEF Ends
  <2>2. reports' \in Seq(Report)
    BY <1>1, <2>1, StatesTold, ReportMade, ReportsIs
  <2>3. RecordTypes(known', state', question', reports')
    BY <1>1, <2>1, <2>2 DEF RecordTypes, registry
  <2>4. inbox = <<>> /\ held = <<>>
    BY <2>1, ShapeParts
  <2>5. parked' \in [Questions -> Asking] /\ task' \in Tasks
    BY <2>1 DEF Asking, Tasks
  <2> QED
    BY <2>1, <2>3, <2>4, <2>5, ServeShape
<1>7. ASSUME Dies PROVE Shape'
  <2>1. Leaves /\ UNCHANGED <<registry, reports, reachable, stopping, parked, calls>>
    BY <1>7, Zenon DEF Dies
  <2> QED
    BY <1>1, <2>1, RecordStill, ServeShape DEF Leaves, Tasks
<1>8. ASSUME NEW reason \in Over, EndTurn(reason) PROVE Shape'
  <2>1. /\ task = "turn" /\ UNCHANGED <<registry, reachable, stopping, parked, calls>>
        /\ reports' \in Seq(Report)
        /\ stopping => task' = "left" /\ inbox' = <<>> /\ held' = <<>>
        /\ ~stopping => task' = "idle" /\ UNCHANGED <<inbox, held>>
    BY <1>8, EndTurnIs
  <2>2. RecordTypes(known', state', question', reports')
    BY <1>1, <2>1 DEF RecordTypes, registry
  <2> QED
    BY <1>1, <2>1, <2>2, ServeShape DEF Tasks
<1>9. ASSUME NEW q \in Questions, Agent(q) PROVE Shape'
  <2>1. /\ UNCHANGED <<registry, reachable, session, calls>>
        /\ \E w \in Asking : parked' = [parked EXCEPT ![q] = w]
        /\ Reports(Asked(q)) \/ reports' = reports
    BY <1>9 DEF Agent, Asks, Responds, GivesUp, Asking
  <2>2. reports' \in Seq(Report)
    BY <1>1, <2>1, ReportMade, ReportsIs
  <2>3. RecordTypes(known', state', question', reports')
    BY <1>1, <2>1, <2>2 DEF RecordTypes, registry
  <2>4. parked' \in [Questions -> Asking]
    BY <1>1, <2>1
  <2> QED
    BY <1>1, <2>1, <2>3, <2>4, ServeShape DEF session
<1>10. ASSUME UNCHANGED vars PROVE Shape'
  <2>1. /\ UNCHANGED <<registry, reports>> /\ UNCHANGED calls /\ UNCHANGED session
        /\ reachable' = reachable /\ parked' = parked
    BY <1>10 DEF vars
  <2> QED
    BY <1>1, <2>1, RecordStill, ServeShape DEF session
<1> QED
  BY <1>3, <1>4, <1>5, <1>6, <1>7, <1>8, <1>9, <1>10, CallerShapes, TakeInTurnShapes,
     TakeNextShapes, Zenon DEF Next, Serve

\* Every variable is of its type: a report says a state the registry knows, a
\* mark is of a call that has one, an answer is about a question.
THEOREM SessionTypesHold == Spec => []TypeOK
<1>1. Shape => TypeOK
  BY DEF Shape
<1> QED
  BY <1>1, ShapeInit, ShapeNext, PTL DEF Spec

-----------------------------------------------------------------------------
(* One prompt on its way. *)

\* A prompt waits for the one before it.
OneHeld == "held twice" \notin Allowed

\* Nothing joins, and nobody begins to send.
LEMMA SingleStill ==
    ASSUME NEW s, NEW t, NEW h, NEW g, NEW p, NEW q, NEW k, NEW l, Single(s, h, p, k),
           \A c \in Calls : Sending(c, q, l) => Sending(c, p, k),
           Len(t) = Len(s), \A i \in 1..Len(s) : t[i].kind = s[i].kind,
           g # <<>> => h # <<>>
    PROVE  Single(t, g, q, l)
BY DEF Single

\* Nothing waits.
LEMMA SingleEmpty ==
    ASSUME NEW s, NEW h, NEW p, NEW q, NEW k, NEW l, Single(s, h, p, k),
           \A c \in Calls : Sending(c, q, l) => Sending(c, p, k)
    PROVE  Single(<<>>, <<>>, q, l)
<1>1. \A i \in 1..Len(<<>>) : FALSE
  OBVIOUS
<1> QED
  BY <1>1 DEF Single

\* The first of the inbox is taken.
LEMMA SingleLeave ==
    ASSUME NEW s \in Seq(Command), s # <<>>, NEW h, NEW g, NEW p, NEW q, NEW k, NEW l,
           Single(s, h, p, k), g # <<>> => h # <<>> \/ Head(s).kind = "prompt",
           \A c \in Calls : Sending(c, q, l) => Sending(c, p, k)
    PROVE  Single(Tail(s), g, q, l)
<1> DEFINE t == Tail(s)
<1>1. /\ Head(s) = s[1] /\ 1 \in 1..Len(s)
      /\ \A i \in 1..Len(t) : i + 1 \in 1..Len(s) /\ t[i] = s[i + 1] /\ i + 1 # 1
      /\ \A i, j \in 1..Len(t) : i + 1 = j + 1 => i = j
  BY TailAt
<1> HIDE DEF t
<1>2. \A i, j \in 1..Len(t) : t[i].kind = "prompt" /\ t[j].kind = "prompt" => i = j
  <2> SUFFICES ASSUME NEW i \in 1..Len(t), NEW j \in 1..Len(t), t[i].kind = "prompt", t[j].kind = "prompt"
               PROVE  i = j
    OBVIOUS
  <2>1. /\ i + 1 \in 1..Len(s) /\ s[i + 1].kind = "prompt"
        /\ j + 1 \in 1..Len(s) /\ s[j + 1].kind = "prompt"
    BY <1>1
  <2>2. i + 1 = j + 1
    BY <2>1 DEF Single
  <2> QED
    BY <1>1, <2>2
<1>3. \A i \in 1..Len(t) : t[i].kind = "prompt" => \A c \in Calls : ~Sending(c, q, l)
  BY <1>1 DEF Single
<1>4. g # <<>> => /\ \A i \in 1..Len(t) : t[i].kind # "prompt"
                  /\ \A c \in Calls : ~Sending(c, q, l)
  BY <1>1 DEF Single
<1>5. \A c, d \in Calls : Sending(c, q, l) /\ Sending(d, q, l) => c = d
  BY DEF Single
<1>6. Single(t, g, q, l)
  BY <1>2, <1>3, <1>4, <1>5 DEF Single
<1> QED
  BY <1>6 DEF t

\* A call sends what it has to send.
LEMMA SingleJoin ==
    ASSUME NEW s \in Seq(Command), NEW h, NEW m \in Command, NEW p, NEW q, NEW k, NEW l,
           Single(s, h, p, k), m.from \in Calls,
           m.kind = "prompt" => Sending(m.from, p, k),
           ~Sending(m.from, q, l),
           \A c \in Calls : Sending(c, q, l) => Sending(c, p, k)
    PROVE  Single(Append(s, m), h, q, l)
<1> DEFINE t == Append(s, m)
           n == Len(s) + 1
<1>1. /\ \A i \in 1..Len(t) : i # n => i \in 1..Len(s)
      /\ \A i \in 1..Len(s) : t[i] = s[i]
      /\ t[n] = m
  BY AppendAt
<1> HIDE DEF t, n
<1>2. \A i, j \in 1..Len(t) : t[i].kind = "prompt" /\ t[j].kind = "prompt" => i = j
  BY <1>1 DEF Single
<1>3. \A i \in 1..Len(t) : t[i].kind = "prompt" => \A c \in Calls : ~Sending(c, q, l)
  BY <1>1 DEF Single
<1>4. h # <<>> => /\ \A i \in 1..Len(t) : t[i].kind # "prompt"
                  /\ \A c \in Calls : ~Sending(c, q, l)
  BY <1>1 DEF Single
<1>5. \A c, d \in Calls : Sending(c, q, l) /\ Sending(d, q, l) => c = d
  BY DEF Single
<1>6. Single(t, h, q, l)
  BY <1>2, <1>3, <1>4, <1>5 DEF Single
<1> QED
  BY <1>6 DEF t

\* No step but a call makes a call begin to send.
NoneBegins == \A c \in Calls : Sending(c, pc', kind') => Sending(c, pc, kind)

\* A call that goes anywhere but to send.
LEMMA NoneBeginsBut ==
    ASSUME NEW c, But(c, pc, pc', kind, kind'),
           c \in Calls => ~Sending(c, pc', kind') \/ Sending(c, pc, kind)
    PROVE  NoneBegins
BY DEF NoneBegins, But, Sending

\* A caller that is told does not send again.
LEMMA NoneBeginsTold ==
    ASSUME Shape, NEW m \in Command, NEW at, Tells(m, at), at \in {"mark", "forget", "refused"}
    PROVE  NoneBegins
<1>1. /\ m.from # None => pc'[m.from] = at
      /\ But(m.from, pc, pc', kind, kind')
  BY PlacesTold, TellsIs, SessionStill
<1>2. m.from \in Calls => ~Sending(m.from, pc', kind')
  <2>1. m.from \in Calls => m.from # None
    BY ConstantsAssumption
  <2> QED
    BY <1>1, <2>1 DEF Sending
<1> QED
  BY <1>1, <1>2, NoneBeginsBut

\* Nothing changes the commands, and nobody begins to send.
LEMMA OnePromptStill ==
    ASSUME OnePrompt, NoneBegins,
           (inbox' = inbox /\ held' = held) \/ (inbox' = <<>> /\ held' = <<>>)
    PROVE  OnePrompt'
<1>1. Single(inbox, held, pc, kind)
  BY DEF OnePrompt
<1>2. CASE inbox' = inbox /\ held' = held
  BY <1>1, <1>2, SingleStill DEF OnePrompt, NoneBegins
<1>3. CASE inbox' = <<>> /\ held' = <<>>
  <2>1. Single(<<>>, <<>>, pc', kind')
    BY <1>1, SingleEmpty DEF NoneBegins
  <2> QED
    BY <1>3, <2>1 DEF OnePrompt
<1> QED
  BY <1>2, <1>3

\* A prompt is asked for when there is none on its way.
LEMMA CallPrompt ==
    ASSUME OneHeld, Shape, OnePrompt, NEW c \in Calls, NEW k \in {"prompt", "cancel", "stop"},
           Call(c, k)
    PROVE  OnePrompt'
<1>1. /\ Starts(c, "reach", k, None) /\ inbox' = inbox /\ held' = held
  BY DEF Call, session
<1>2. /\ pc'[c] = "reach" /\ kind'[c] = k /\ pc[c] = "idle"
      /\ \A d \in Calls : d # c => pc'[d] = pc[d] /\ kind'[d] = kind[d]
      /\ But(c, pc, pc', kind, kind')
  BY <1>1, StartsIs, SessionStill, PlacesTold, ZenonT(60)
<1>3. CASE k # "prompt"
  <2>1. ~Sending(c, pc', kind')
    BY <1>2, <1>3 DEF Sending
  <2> QED
    BY <1>1, <1>2, <2>1, NoneBeginsBut, OnePromptStill
<1>4. CASE k = "prompt"
  <2>1. ~PromptWaits
    BY <1>4, Zenon DEF Call, OneHeld
  <2>2. DOMAIN inbox = 1..Len(inbox)
    BY LenProperties, SessionStill
  <2>3. held = <<>> /\ \A i \in 1..Len(inbox) : inbox[i].kind # "prompt"
    BY <2>1, <2>2 DEF PromptWaits
  <2>4. \A d \in Calls : ~Sending(d, pc, kind)
    BY <2>1 DEF PromptWaits, Sending
  <2>5. \A d \in Calls : d # c => ~Sending(d, pc', kind')
    BY <1>2, <2>4 DEF Sending
  <2>6. Single(inbox, held, pc', kind')
    BY <2>3, <2>5 DEF Single
  <2> QED
    BY <1>1, <2>6 DEF OnePrompt
<1> QED
  BY <1>3, <1>4

\* There is one prompt on its way at a time, as long as none is asked for
\* before the last has been taken.
LEMMA OnePromptNext == OneHeld /\ Shape /\ OnePrompt /\ [Next]_vars => OnePrompt'
<1> SUFFICES ASSUME OneHeld, Shape, OnePrompt, [Next]_vars PROVE OnePrompt'
  OBVIOUS
<1>1. ASSUME UNCHANGED calls PROVE NoneBegins
  BY <1>1 DEF calls, NoneBegins
<1>2. /\ inbox \in Seq(Command) /\ held \in Seq(Command) /\ CallTypes(pc, kind, about)
      /\ Single(inbox, held, pc, kind)
  BY SessionStill DEF OnePrompt
<1>3. ASSUME NEW c \in Calls, NEW k \in {"allow", "deny"}, Answer(c, k) PROVE OnePrompt'
  <2>1. /\ Starts(c, "deliver", k, question) /\ inbox' = inbox /\ held' = held /\ question # None
    BY <1>3 DEF Answer, session
  <2>2. question \in Questions
    BY <2>1, ShapeParts DEF RecordTypes
  <2>3. /\ pc'[c] = "deliver" /\ But(c, pc, pc', kind, kind')
    BY <1>2, <2>1, <2>2, StartsIs, PlacesTold
  <2>4. ~Sending(c, pc', kind')
    BY <2>3 DEF Sending
  <2> QED
    BY <2>1, <2>3, <2>4, NoneBeginsBut, OnePromptStill
<1>4. ASSUME NEW c \in Calls, Reach(c) PROVE OnePrompt'
  <2>1. /\ pc[c] = "reach" /\ Goes(c, IF reachable THEN "send" ELSE "refused")
        /\ inbox' = inbox /\ held' = held
    BY <1>4 DEF Reach, session
  <2>2. (IF reachable THEN "send" ELSE "refused") \in {"send", "refused"}
    OBVIOUS
  <2>3. PICK at \in {"send", "refused"} : Goes(c, at)
    BY <2>1, <2>2, Zenon
  <2>4. kind' = kind /\ But(c, pc, pc', kind, kind')
    BY <1>2, <2>3, GoesIs, PlacesTold
  <2>5. Sending(c, pc', kind') => Sending(c, pc, kind)
    BY <2>1, <2>4 DEF Sending
  <2> QED
    BY <2>1, <2>4, <2>5, NoneBeginsBut, OnePromptStill
<1>5. ASSUME NEW c \in Calls, NEW at \in {"refused", "mark"}, Goes(c, at),
             inbox' = inbox, held' = held
      PROVE  OnePrompt'
  <2>1. pc'[c] = at /\ But(c, pc, pc', kind, kind')
    BY <1>2, <1>5, GoesIs, PlacesTold
  <2>2. ~Sending(c, pc', kind')
    BY <2>1 DEF Sending
  <2> QED
    BY <1>5, <2>1, <2>2, NoneBeginsBut, OnePromptStill
<1>6. ASSUME NEW c \in Calls, Rests(c) PROVE NoneBegins
  <2>1. pc'[c] = "idle" /\ But(c, pc, pc', kind, kind')
    BY <1>2, <1>6, RestsIs
  <2>2. ~Sending(c, pc', kind')
    BY <2>1 DEF Sending
  <2> QED
    BY <2>1, <2>2, NoneBeginsBut
<1>7. ASSUME NEW c \in Calls, Send(c) PROVE OnePrompt'
  <2>1. pc[c] = "send" /\ held' = held
    BY <1>7 DEF Send
  <2>2. kind[c] \in {"prompt", "cancel", "stop"}
    BY <2>1, SessionStill DEF Wants
  <2>3. CASE ~Listening
    BY <1>5, <1>7, <2>1, <2>3, Zenon DEF Send
  <2>4. CASE Listening
    <3> DEFINE m == [kind |-> kind[c], from |-> c]
    <3>1. inbox' = Append(inbox, m) /\ Goes(c, "sent")
      BY <1>7, <2>4, Zenon DEF Send
    <3>2. m \in Command /\ m.kind = kind[c] /\ m.from = c
      BY <2>2, CommandMade
    <3> HIDE DEF m
    <3>3. pc'[c] = "sent" /\ But(c, pc, pc', kind, kind')
      BY <1>2, <3>1, GoesIs, PlacesTold
    <3>4. ~Sending(c, pc', kind')
      BY <3>3 DEF Sending
    <3>5. NoneBegins
      BY <3>3, <3>4, NoneBeginsBut
    <3>6. m.kind = "prompt" => Sending(c, pc, kind)
      BY <2>1, <3>2 DEF Sending
    <3>7. Single(Append(inbox, m), held, pc', kind')
      BY <1>2, <3>2, <3>4, <3>5, <3>6, SingleJoin DEF NoneBegins
    <3> QED
      BY <2>1, <3>1, <3>7 DEF OnePrompt
  <2> QED
    BY <2>3, <2>4
<1>8. ASSUME NEW c \in Calls, Dropped(c) PROVE OnePrompt'
  <2>1. Rests(c) /\ inbox' = Unhears(inbox, c) /\ held' = Unhears(held, c)
    BY <1>8, Zenon DEF Dropped, Unhears
  <2>2. /\ Len(inbox') = Len(inbox) /\ \A i \in 1..Len(inbox) : inbox'[i].kind = inbox[i].kind
        /\ held' \in Seq(Command) /\ Len(held') = Len(held)
    BY <1>2, <2>1, UnhearsIs
  <2>3. held' # <<>> => held # <<>>
    <3>1. held' # <<>> => Len(held') \in Nat \ {0}
      BY <2>2, EmptySeq
    <3>2. held = <<>> => Len(held) = 0
      OBVIOUS
    <3> QED
      BY <2>2, <3>1, <3>2
  <2>4. NoneBegins
    BY <1>6, <2>1
  <2>5. Single(inbox', held', pc', kind')
    BY <1>2, <2>2, <2>3, <2>4, SingleStill DEF NoneBegins
  <2> QED
    BY <2>5 DEF OnePrompt
<1>9. ASSUME NEW c \in Calls, Deliver(c) PROVE OnePrompt'
  <2>1. inbox' = inbox /\ held' = held /\ (Goes(c, "mark") \/ Rests(c))
    BY <1>9 DEF Deliver, session
  <2> QED
    BY <1>5, <1>6, <2>1, OnePromptStill
<1>10. ASSUME NEW c \in Calls, Marks(c) \/ Told(c) \/ Forgets(c) PROVE OnePrompt'
  <2>1. inbox' = inbox /\ held' = held /\ Rests(c)
    BY <1>10 DEF Marks, Told, Forgets, session
  <2> QED
    BY <1>6, <2>1, OnePromptStill
<1>11. ASSUME TakeInTurn PROVE OnePrompt'
  <2> DEFINE m == Head(inbox)
  <2>1. /\ inbox # <<>> /\ inbox' = Tail(inbox) /\ m \in Command
        /\ m.kind \in {"prompt", "cancel", "stop"}
        /\ m.kind = "prompt" => Holds(m)
        /\ m.kind = "cancel" => Tells(m, "mark") /\ held' = held
        /\ m.kind = "stop" => Tells(m, "forget") /\ held' = held
    BY <1>11, TakeInTurnIs
  <2>2. CASE m.kind = "prompt"
    <3>1. held = <<>>
      BY <1>2, <2>1, <2>2, TailAt DEF Single
    <3>2. held' = <<m>> /\ UNCHANGED calls
      BY <2>1, <2>2, <3>1, Zenon DEF Holds
    <3>3. NoneBegins
      BY <1>1, <3>2
    <3>4. Single(Tail(inbox), held', pc', kind')
      BY <1>2, <2>1, <2>2, <3>3, SingleLeave DEF NoneBegins
    <3> QED
      BY <2>1, <3>4 DEF OnePrompt
  <2>3. CASE m.kind \in {"cancel", "stop"}
    <3>1. NoneBegins /\ held' = held
      <4>1. CASE m.kind = "cancel"
        BY <2>1, <4>1, NoneBeginsTold
      <4>2. CASE m.kind = "stop"
        BY <2>1, <4>2, NoneBeginsTold
      <4> QED
        BY <2>3, <4>1, <4>2
    <3>2. Single(Tail(inbox), held', pc', kind')
      BY <1>2, <2>1, <3>1, SingleLeave DEF NoneBegins
    <3> QED
      BY <2>1, <3>2 DEF OnePrompt
  <2> QED
    BY <2>1, <2>2, <2>3
<1>12. ASSUME TakeNext PROVE OnePrompt'
  <2>1. PICK m \in Command, left \in Seq(Command) :
          /\ Takes(m, left)
          /\ \/ m.kind = "prompt" /\ Begins(m) /\ held' = <<>> /\ inbox' = left
             \/ /\ m.kind = "cancel" /\ Tells(m, "mark") /\ held' = <<>> /\ inbox' = left
                /\ UNCHANGED <<reports, task>>
             \/ /\ m.kind = "stop" /\ MayReport /\ Tells(m, "forget") /\ Leaves
                /\ Reports(States("offline"))
    BY <1>12, TakeNextIs
  <2>2. NoneBegins
    <3>1. Tells(m, "mark") \/ Tells(m, "forget")
      BY <2>1, Zenon DEF Begins
    <3> QED
      BY <3>1, NoneBeginsTold
  <2>3. Single(left, <<>>, pc', kind')
    <3>1. CASE held = <<>> /\ inbox # <<>> /\ m = Head(inbox) /\ left = Tail(inbox)
      BY <1>2, <2>2, <3>1, SingleLeave DEF NoneBegins
    <3>2. CASE held # <<>> /\ m = held[1] /\ left = inbox
      BY <1>2, <2>2, <3>2, SingleStill DEF NoneBegins
    <3> QED
      BY <2>1, <3>1, <3>2 DEF Takes
  <2>4. CASE held' = <<>> /\ inbox' = left
    BY <2>3, <2>4 DEF OnePrompt
  <2>5. CASE Leaves
    BY <2>2, <2>5, OnePromptStill DEF Leaves
  <2> QED
    BY <2>1, <2>4, <2>5, Zenon
<1>13. ASSUME NEW reason \in Over, EndTurn(reason) PROVE OnePrompt'
  <2>1. /\ UNCHANGED calls
        /\ (inbox' = <<>> /\ held' = <<>>) \/ (inbox' = inbox /\ held' = held)
    BY <1>13, EndTurnIs
  <2> QED
    BY <1>1, <2>1, OnePromptStill
<1>14. ASSUME Opened \/ Apply \/ InboxCloses \/ Ends \/ Dies PROVE OnePrompt'
  <2>1. /\ UNCHANGED calls
        /\ (inbox' = <<>> /\ held' = <<>>) \/ (inbox' = inbox /\ held' = held)
    BY <1>14 DEF Opened, Apply, InboxCloses, Ends, Dies, Leaves, session
  <2> QED
    BY <1>1, <2>1, OnePromptStill
<1>15. ASSUME NEW q \in Questions, Agent(q) PROVE OnePrompt'
  <2>1. UNCHANGED calls /\ inbox' = inbox /\ held' = held
    BY <1>15 DEF Agent, Asks, Responds, GivesUp, session
  <2> QED
    BY <1>1, <2>1, OnePromptStill
<1>16. ASSUME UNCHANGED vars PROVE OnePrompt'
  <2>1. UNCHANGED calls /\ inbox' = inbox /\ held' = held
    BY <1>16 DEF vars, session
  <2> QED
    BY <1>1, <2>1, OnePromptStill
<1>17. ASSUME NEW c \in Calls, Refused(c) PROVE OnePrompt'
  <2>1. Goes(c, "refused") /\ inbox' = inbox /\ held' = held
    BY <1>17 DEF Refused, session
  <2> QED
    BY <1>5, <2>1
<1>18. ASSUME NEW c \in Calls, Caller(c) PROVE OnePrompt'
  BY <1>3, <1>4, <1>7, <1>8, <1>9, <1>10, <1>17, <1>18, CallPrompt, Zenon DEF Caller
<1> QED
  BY <1>11, <1>12, <1>13, <1>14, <1>15, <1>16, <1>18, Zenon DEF Next, Serve

-----------------------------------------------------------------------------
(* What the registry says. *)

\* Nothing is reported between a call's answer and its mark, no question is
\* left behind by the turn that asked it, and the session does not end before
\* the supervisor has recorded it.
Orderly == "late mark" \notin Allowed /\ "abandons" \notin Allowed /\ "quick end" \notin Allowed

\* The calls that stop a session have closed it.
StopsClose(re, p, k) ==
    \A c \in Calls : k[c] = "stop" /\ p[c] \in {"send", "sent", "forget", "refused"} => ~re

\* Nobody has asked the session anything.
Unasked(t, s, h, p) == /\ t = "idle" /\ s = <<>> /\ h = <<>>
                       /\ \A c \in Calls : p[c] = "idle"

\* What is so from the beginning, in parts.
LEMMA BeginningsParts ==
    Beginnings <=> /\ ~known /\ reachable => Unasked(task, inbox, held, pc)
                   /\ StopsClose(reachable, pc, kind)
BY Zenon DEF Beginnings, Unasked, StopsClose

\* The same of the next state.
LEMMA BeginningsPartsNext ==
    Beginnings' <=> /\ ~known' /\ reachable' => Unasked(task', inbox', held', pc')
                    /\ StopsClose(reachable', pc', kind')
BY Zenon DEF Beginnings, Unasked, StopsClose

\* One call takes a step.
LEMMA StopsCloseBut ==
    ASSUME NEW c, NEW p, NEW q, NEW k, NEW l, But(c, p, q, k, l), StopsClose(reachable, p, k),
           reachable' => reachable,
           c \in Calls => (l[c] = "stop" /\ q[c] \in {"send", "sent", "forget", "refused"} => ~reachable')
    PROVE  StopsClose(reachable', q, l)
BY DEF StopsClose, But

\* Before the session is recorded nothing happens to it.
LEMMA UnaskedStays ==
    ASSUME Orderly, Shape, Next, ~known, reachable, Unasked(task, inbox, held, pc)
    PROVE  known' \/ (task' = task /\ inbox' = inbox /\ held' = held /\ pc' = pc)
<1>1. task = "idle" /\ inbox = <<>> /\ held = <<>> /\ \A c \in Calls : pc[c] = "idle"
  BY DEF Unasked
<1>2. ASSUME NEW c \in Calls, Caller(c) PROVE FALSE
  <2>1. pc[c] = "idle"
    BY <1>1
  <2>2. ASSUME NEW at, NEW k, NEW q, Starts(c, at, k, q) PROVE FALSE
    BY <2>2 DEF Starts
  <2>3. ~(\E k \in {"prompt", "cancel", "stop"} : Call(c, k))
    BY <2>2 DEF Call
  <2>4. ~(\E k \in {"allow", "deny"} : Answer(c, k))
    BY <2>2 DEF Answer
  <2>5. ~(Reach(c) \/ Send(c) \/ Refused(c) \/ Deliver(c) \/ Marks(c) \/ Told(c) \/ Forgets(c)
          \/ Dropped(c))
    BY <2>1 DEF Reach, Send, Refused, Deliver, Marks, Told, Forgets, Dropped
  <2> QED
    BY <1>2, <2>3, <2>4, <2>5 DEF Caller
<1>3. Waiting = <<>>
  BY <1>1, WaitingIs
<1>4. ~Dies
  BY Zenon DEF Dies, Orderly
<1>5. ~(TakeInTurn \/ TakeNext \/ InboxCloses \/ Ends \/ \E reason \in Over : EndTurn(reason))
  BY <1>1, <1>3 DEF TakeInTurn, TakeNext, InboxCloses, Ends, EndTurn
<1>6. ASSUME Opened \/ Apply \/ \E q \in Questions : Agent(q)
      PROVE  known' \/ (task' = task /\ inbox' = inbox /\ held' = held /\ pc' = pc)
  BY <1>6 DEF Opened, Apply, Agent, Asks, Responds, GivesUp, session, calls
<1> QED
  BY <1>2, <1>4, <1>5, <1>6 DEF Next, Serve

\* What a call does to the rest.
LEMMA CallerIs ==
    ASSUME Shape, NEW c \in Calls, Caller(c)
    PROVE  /\ But(c, pc, pc', kind, kind')
           /\ task' = task /\ stopping' = stopping
           /\ reachable' => reachable
           /\ ~known /\ known' => FALSE
           /\ known /\ ~known' => kind[c] = "stop" /\ pc[c] \in {"forget", "refused"}
           /\ kind'[c] = "stop" /\ pc'[c] \in {"send", "sent", "forget", "refused"} =>
                kind[c] = "stop" /\ (pc[c] \in {"send", "sent", "forget", "refused"} \/ ~reachable')
<1>1. CallTypes(pc, kind, about) /\ Wants(c, pc, kind, about)
  BY SessionStill
<1>2. ASSUME NEW at \in Places, Goes(c, at)
      PROVE  But(c, pc, pc', kind, kind') /\ kind' = kind /\ pc'[c] = at
  BY <1>1, <1>2, GoesIs
<1>3. ASSUME Rests(c) PROVE But(c, pc, pc', kind, kind') /\ pc'[c] = "idle"
  BY <1>1, <1>3, RestsIs
<1>4. ASSUME NEW k \in {"prompt", "cancel", "stop"}, Call(c, k)
      PROVE  /\ But(c, pc, pc', kind, kind') /\ pc'[c] = "reach"
             /\ task' = task /\ stopping' = stopping /\ reachable' = reachable /\ known' = known
  <2>1. Starts(c, "reach", k, None)
    BY <1>4 DEF Call
  <2>2. But(c, pc, pc', kind, kind') /\ pc'[c] = "reach"
    BY <1>1, <2>1, StartsIs, PlacesTold
  <2> QED
    BY <1>4, <2>2 DEF Call, session, registry
<1>5. ASSUME NEW k \in {"allow", "deny"}, Answer(c, k)
      PROVE  /\ But(c, pc, pc', kind, kind') /\ pc'[c] = "deliver"
             /\ task' = task /\ stopping' = stopping /\ reachable' = reachable /\ known' = known
  <2>1. Starts(c, "deliver", k, question) /\ question \in Questions \cup {None}
    BY <1>5, SessionStill DEF Answer, RecordTypes
  <2>2. But(c, pc, pc', kind, kind') /\ pc'[c] = "deliver"
    BY <1>1, <2>1, StartsIs, PlacesTold
  <2> QED
    BY <1>5, <2>2 DEF Answer, session, registry
<1>6. CASE Reach(c)
  <2>1. PICK at \in {"send", "refused"} : Goes(c, at)
    <3>1. Goes(c, IF reachable THEN "send" ELSE "refused")
      BY <1>6 DEF Reach
    <3>2. (IF reachable THEN "send" ELSE "refused") \in {"send", "refused"}
      OBVIOUS
    <3> QED
      BY <3>1, <3>2, Zenon
  <2>2. /\ But(c, pc, pc', kind, kind') /\ kind' = kind /\ pc'[c] = at
    BY <1>2, <2>1, PlacesTold
  <2>3. /\ task' = task /\ stopping' = stopping /\ known' = known
        /\ reachable' = (reachable /\ kind[c] # "stop")
    BY <1>6 DEF Reach, session, registry
  <2>4. /\ reachable' => reachable
        /\ kind[c] = "stop" => ~reachable'
    BY <2>3
  <2> QED
    BY <2>2, <2>3, <2>4
<1>7. CASE Send(c) \/ Refused(c)
  <2>1. /\ pc[c] \in {"send", "sent"} /\ (Goes(c, "sent") \/ Goes(c, "refused"))
        /\ task' = task /\ stopping' = stopping /\ reachable' = reachable /\ known' = known
    BY <1>7 DEF Send, Refused, session, registry
  <2>2. But(c, pc, pc', kind, kind') /\ kind' = kind
    BY <1>2, <2>1, PlacesTold
  <2> QED
    BY <2>1, <2>2
<1>8. CASE Deliver(c)
  <2>1. /\ pc[c] = "deliver" /\ (Goes(c, "mark") \/ Rests(c))
        /\ task' = task /\ stopping' = stopping /\ reachable' = reachable /\ known' = known
    BY <1>8 DEF Deliver, session, registry
  <2>2. But(c, pc, pc', kind, kind') /\ pc'[c] \in {"mark", "idle"}
    BY <1>2, <1>3, <2>1, PlacesTold
  <2> QED
    BY <2>1, <2>2
<1>9. CASE Marks(c) \/ Told(c) \/ Dropped(c)
  <2>1. /\ Rests(c)
        /\ task' = task /\ stopping' = stopping /\ reachable' = reachable /\ known' = known
    BY <1>9 DEF Marks, Told, Dropped, session, registry
  <2> QED
    BY <1>3, <2>1
<1>10. CASE Forgets(c)
  <2>1. /\ Rests(c) /\ kind[c] = "stop" /\ pc[c] \in {"forget", "refused"}
        /\ task' = task /\ stopping' = stopping /\ reachable' = reachable /\ known' = FALSE
    BY <1>10 DEF Forgets, session
  <2> QED
    BY <1>3, <2>1
<1> QED
  BY <1>4, <1>5, <1>6, <1>7, <1>8, <1>9, <1>10 DEF Caller

\* A caller that is told did not stop an open session.
LEMMA StopsCloseTold ==
    ASSUME Shape, StopsClose(reachable, pc, kind), reachable' => reachable,
           NEW m \in Command, NEW at \in {"mark", "forget", "refused"}, Tells(m, at),
           Heard(m, pc, kind)
    PROVE  StopsClose(reachable', pc', kind')
<1>1. CallTypes(pc, kind, about) /\ at \in Places
  BY SessionStill, PlacesTold
<1>2. /\ kind' = kind
      /\ m.from # None => pc'[m.from] = at
      /\ But(m.from, pc, pc', kind, kind')
  BY <1>1, TellsIs
<1>3. m.from \in Calls => m.from # None /\ pc[m.from] = "sent"
  BY ConstantsAssumption DEF Heard
<1>4. m.from \in Calls /\ kind'[m.from] = "stop" => ~reachable'
  <2>1. m.from \in Calls /\ kind[m.from] = "stop" => ~reachable
    BY <1>3 DEF StopsClose
  <2> QED
    BY <1>2, <2>1
<1> QED
  BY <1>2, <1>4, StopsCloseBut

\* What is so from the beginning stays so.
LEMMA BeginningsNext == Orderly /\ Shape /\ Beginnings /\ [Next]_vars => Beginnings'
<1> SUFFICES ASSUME Orderly, Shape, Beginnings, [Next]_vars PROVE Beginnings'
  OBVIOUS
<1>1. /\ ~known /\ reachable => Unasked(task, inbox, held, pc)
      /\ StopsClose(reachable, pc, kind)
  BY BeginningsParts
<1>2. ASSUME UNCHANGED calls, reachable' = reachable PROVE StopsClose(reachable', pc', kind')
  <2>1. pc' = pc /\ kind' = kind
    BY <1>2 DEF calls
  <2> QED
    BY <1>1, <1>2, <2>1
<1>3. ASSUME NEW c \in Calls, Caller(c) PROVE StopsClose(reachable', pc', kind')
  <2>1. /\ But(c, pc, pc', kind, kind') /\ (reachable' => reachable)
        /\ kind'[c] = "stop" /\ pc'[c] \in {"send", "sent", "forget", "refused"} =>
             kind[c] = "stop" /\ (pc[c] \in {"send", "sent", "forget", "refused"} \/ ~reachable')
    BY <1>3, CallerIs
  <2>2. kind[c] = "stop" /\ pc[c] \in {"send", "sent", "forget", "refused"} => ~reachable
    BY <1>1 DEF StopsClose
  <2>3. kind'[c] = "stop" /\ pc'[c] \in {"send", "sent", "forget", "refused"} => ~reachable'
    BY <2>1, <2>2
  <2> QED
    BY <1>1, <2>1, <2>3, StopsCloseBut
<1>4. ASSUME TakeInTurn PROVE StopsClose(reachable', pc', kind')
  <2> DEFINE m == Head(inbox)
  <2>1. /\ inbox # <<>> /\ m \in Command /\ reachable' = reachable
        /\ m.kind \in {"prompt", "cancel", "stop"}
        /\ m.kind = "prompt" => Holds(m)
        /\ m.kind = "cancel" => Tells(m, "mark")
        /\ m.kind = "stop" => Tells(m, "forget")
    BY <1>4, TakeInTurnIs
  <2>2. Heard(m, pc, kind)
    BY <2>1, TakenIsHeard
  <2>3. CASE m.kind = "prompt"
    <3>1. UNCHANGED calls \/ (held # <<>> /\ Tells(held[1], "refused"))
      BY <2>1, <2>3, Zenon DEF Holds
    <3>2. held # <<>> => held[1] \in Command /\ Heard(held[1], pc, kind)
      BY WaitingIs, TakenIsHeard
    <3> QED
      BY <1>1, <1>2, <2>1, <3>1, <3>2, StopsCloseTold
  <2>4. CASE m.kind = "cancel"
    BY <1>1, <2>1, <2>2, <2>4, StopsCloseTold
  <2>5. CASE m.kind = "stop"
    BY <1>1, <2>1, <2>2, <2>5, StopsCloseTold
  <2> QED
    BY <2>1, <2>3, <2>4, <2>5
<1>5. ASSUME TakeNext PROVE StopsClose(reachable', pc', kind')
  <2>1. reachable' = reachable
    BY <1>5, TakeNextIs
  <2>2. PICK m \in Command, left \in Seq(Command) :
          /\ Takes(m, left)
          /\ \/ m.kind = "prompt" /\ Begins(m) /\ held' = <<>> /\ inbox' = left
             \/ /\ m.kind = "cancel" /\ Tells(m, "mark") /\ held' = <<>> /\ inbox' = left
                /\ UNCHANGED <<reports, task>>
             \/ /\ m.kind = "stop" /\ MayReport /\ Tells(m, "forget") /\ Leaves
                /\ Reports(States("offline"))
    BY <1>5, TakeNextIs
  <2>3. Heard(m, pc, kind)
    BY <2>2, TakenIsHeard
  <2>4. Tells(m, "mark") \/ Tells(m, "forget")
    BY <2>2, Zenon DEF Begins
  <2> QED
    BY <1>1, <2>1, <2>3, <2>4, StopsCloseTold
<1>6. ASSUME NEW reason \in Over, EndTurn(reason) PROVE StopsClose(reachable', pc', kind')
  BY <1>2, <1>6, EndTurnIs
<1>7. ASSUME Opened \/ Apply \/ InboxCloses \/ Ends \/ Dies \/ \E q \in Questions : Agent(q)
      PROVE  StopsClose(reachable', pc', kind')
  BY <1>2, <1>7 DEF Opened, Apply, InboxCloses, Ends, Dies, Agent, Asks, Responds, GivesUp
<1>8. ASSUME UNCHANGED vars PROVE Beginnings'
  <2>1. UNCHANGED calls /\ UNCHANGED session /\ UNCHANGED registry /\ reachable' = reachable
    BY <1>8 DEF vars
  <2>2. pc' = pc /\ task' = task /\ inbox' = inbox /\ held' = held /\ known' = known
    BY <2>1 DEF calls, session, registry
  <2> QED
    BY <1>1, <1>2, <2>1, <2>2, BeginningsPartsNext
<1>9. ASSUME Next PROVE StopsClose(reachable', pc', kind')
  BY <1>3, <1>4, <1>5, <1>6, <1>7, <1>9, Zenon DEF Next, Serve
<1>10. ASSUME Next, ~known', reachable' PROVE Unasked(task', inbox', held', pc')
  <2>1. ~known /\ reachable
    <3>1. ASSUME NEW c \in Calls, Caller(c) PROVE ~known /\ reachable
      <4>1. reachable /\ (known => kind[c] = "stop" /\ pc[c] \in {"forget", "refused"})
        BY <1>10, <3>1, CallerIs
      <4> QED
        BY <1>1, <4>1 DEF StopsClose
    <3>2. ASSUME Opened PROVE FALSE
      BY <1>10, <3>2 DEF Opened
    <3>3. ASSUME Apply \/ InboxCloses \/ Ends \/ Dies \/ \E q \in Questions : Agent(q)
          PROVE  known' = known /\ reachable' = reachable
      BY <3>3 DEF Apply, InboxCloses, Ends, Dies, Agent, Asks, Responds, GivesUp, registry
    <3>4. ASSUME TakeInTurn \/ TakeNext \/ \E reason \in Over : EndTurn(reason)
          PROVE  known' = known /\ reachable' = reachable
      BY <3>4, Zenon DEF TakeInTurn, TakeNext, EndTurn, registry
    <3>5. known' = known /\ reachable' = reachable => ~known /\ reachable
      <4>1. known \in BOOLEAN /\ reachable \in BOOLEAN
        BY ShapeParts DEF RecordTypes, SessionTypes
      <4> QED
        BY <1>10, <4>1
    <3> QED
      BY <1>10, <3>1, <3>2, <3>3, <3>4, <3>5, Zenon DEF Next, Serve
  <2>2. Unasked(task, inbox, held, pc)
    BY <1>1, <2>1
  <2>3. task' = task /\ inbox' = inbox /\ held' = held /\ pc' = pc
    BY <1>10, <2>1, <2>2, UnaskedStays
  <2> QED
    BY <2>2, <2>3 DEF Unasked
<1> QED
  BY <1>8, <1>9, <1>10, BeginningsPartsNext

\* What is about to be marked is so.
MarksFit(t, p, k) == \A c \in Calls : p[c] = "mark" => Fits(t, Mark[k[c]])

\* A question waits for its answer while its turn lasts.
Posed(t, pk) == \A q \in Questions : pk[q] = "parked" => t \in {"turn", "left"}

\* What is said last, the record named.
LatestOf(rs, st) == IF rs = <<>> THEN st ELSE Saying(rs[Len(rs)])

\* What settles, in parts.
LEMMA SettlingParts ==
    Settling <=> /\ known => Fits(task, LatestOf(reports, state))
                 /\ MarksFit(task, pc, kind) /\ Posed(task, parked)
BY Zenon DEF Settling, Latest, LatestOf, MarksFit, Posed

\* The same of the next state.
LEMMA SettlingPartsNext ==
    Settling' <=> /\ known' => Fits(task', LatestOf(reports', state'))
                  /\ MarksFit(task', pc', kind') /\ Posed(task', parked')
BY Zenon DEF Settling, Latest, LatestOf, MarksFit, Posed

\* What fits.
LEMMA WhatFits ==
    /\ \A k \in {"prompt", "cancel", "allow", "deny"} : Fits("turn", Mark[k])
    /\ Fits("idle", Mark["cancel"]) /\ Fits("idle", "starting")
    /\ \A s \in Over : Fits("idle", s)
    /\ Fits("turn", "working") /\ Fits("turn", "waiting_approval")
    /\ \A s : Fits("left", s)
    /\ Fits("gone", "offline")
BY StatesTold DEF Fits, Over

\* What is reported last is said last.
LEMMA LatestSaid ==
    ASSUME NEW rs, NEW st, NEW r, rs # <<>>, rs[Len(rs)] = r
    PROVE  LatestOf(rs, st) = Saying(r)
BY DEF LatestOf

\* The same of a report that is made.
LEMMA LatestReported ==
    ASSUME Shape, NEW r \in Report, Reports(r)
    PROVE  LatestOf(reports', state') = Saying(r)
BY SessionStill, ReportsIs, LatestSaid

\* Applying the first does not change what is said last.
LEMMA LatestApplied ==
    ASSUME Shape, Apply, known
    PROVE  LatestOf(reports', state') = LatestOf(reports, state)
<1>1. reports # <<>> /\ reports' = Tail(reports) /\ Applies(Head(reports))
  BY DEF Apply
<1>2. reports \in Seq(Report) /\ RecordTypes(known, state, question, reports)
  BY SessionStill
<1>3. /\ Head(reports) \in Report /\ Head(reports) = reports[1]
      /\ \A i \in 1..Len(Tail(reports)) : Tail(reports)[i] = reports[i + 1]
      /\ Tail(reports) \in Seq(Report)
      /\ Tail(reports) # <<>> => Len(Tail(reports)) + 1 = Len(reports)
      /\ Tail(reports) = <<>> => Len(reports) = 1
  BY <1>1, <1>2, TailAt
<1>4. CASE Tail(reports) = <<>>
  <2>1. state' = Saying(reports[1])
    BY <1>1, <1>2, <1>3, AppliesIs
  <2> QED
    BY <1>1, <1>3, <1>4, <2>1 DEF LatestOf
<1>5. CASE Tail(reports) # <<>>
  <2>1. Len(Tail(reports)) \in 1..Len(Tail(reports))
    <3>1. Len(Tail(reports)) \in Nat \ {0}
      BY <1>3, <1>5, EmptySeq
    <3>2. \A n \in Nat \ {0} : n \in 1..n
      OBVIOUS
    <3> QED
      BY <3>1, <3>2, Zenon
  <2>2. Tail(reports)[Len(Tail(reports))] = reports[Len(reports)]
    BY <1>3, <1>5, <2>1
  <2> QED
    BY <1>1, <1>5, <2>2 DEF LatestOf
<1> QED
  BY <1>4, <1>5

\* One call takes a step.
LEMMA MarksFitBut ==
    ASSUME NEW c, NEW p, NEW q, NEW k, NEW l, NEW t, But(c, p, q, k, l), MarksFit(t, p, k),
           c \in Calls => (q[c] = "mark" => Fits(t, Mark[l[c]]))
    PROVE  MarksFit(t, q, l)
BY DEF MarksFit, But

\* A caller is told what fits the command it waits for.
LEMMA MarksFitTold ==
    ASSUME Shape, NEW m \in Command, NEW at \in {"mark", "forget", "refused"}, Tells(m, at),
           Heard(m, pc, kind), NEW t, MarksFit(t, pc, kind),
           at = "mark" => Fits(t, Mark[m.kind])
    PROVE  MarksFit(t, pc', kind')
<1>1. CallTypes(pc, kind, about) /\ at \in Places
  BY SessionStill, PlacesTold
<1>2. /\ kind' = kind
      /\ m.from # None => pc'[m.from] = at
      /\ But(m.from, pc, pc', kind, kind')
  BY <1>1, TellsIs
<1>3. m.from \in Calls => m.from # None /\ kind[m.from] = m.kind
  BY ConstantsAssumption DEF Heard
<1>4. m.from \in Calls => (pc'[m.from] = "mark" => Fits(t, Mark[kind'[m.from]]))
  BY <1>2, <1>3
<1> QED
  BY <1>2, <1>4, MarksFitBut

\* Every call's mark fits a turn; so the turn may begin.
LEMMA MarksFitTurn ==
    ASSUME Shape
    PROVE  MarksFit("turn", pc, kind) /\ MarksFit("left", pc, kind)
<1>1. \A c \in Calls : pc[c] = "mark" => kind[c] \in {"prompt", "cancel", "allow", "deny"}
  BY SessionStill DEF Wants
<1> QED
  BY <1>1, WhatFits DEF MarksFit

\* Where nothing may be reported between an answer and its mark.
LEMMA NoneMarks ==
    ASSUME Orderly, MayReport
    PROVE  \A t : MarksFit(t, pc, kind)
<1>1. \A c \in Calls : pc[c] # "mark"
  BY Zenon DEF Orderly, MayReport
<1> QED
  BY <1>1 DEF MarksFit

\* A step of a call that says nothing.
LEMMA SettlesSilently ==
    ASSUME Shape, Settling, NEW c, But(c, pc, pc', kind, kind'), task' = task,
           state' = state, reports' = reports, ~known => ~known',
           \A q \in Questions : parked'[q] = "parked" => parked[q] = "parked",
           c \in Calls => (pc'[c] = "mark" => Fits(task, Mark[kind'[c]]))
    PROVE  Settling'
<1>1. /\ known => Fits(task, LatestOf(reports, state))
      /\ MarksFit(task, pc, kind) /\ Posed(task, parked)
  BY SettlingParts
<1>2. MarksFit(task', pc', kind')
  BY <1>1, MarksFitBut
<1>3. Posed(task', parked')
  BY <1>1 DEF Posed
<1>4. known' => Fits(task', LatestOf(reports', state'))
  <2>1. known' => known
    OBVIOUS
  <2> QED
    BY <1>1, <2>1
<1> QED
  BY <1>2, <1>3, <1>4, SettlingPartsNext

\* A step of a call.
LEMMA CallerSettles ==
    ASSUME Shape, Settling, NEW c \in Calls, Caller(c)
    PROVE  Settling'
<1>1. /\ CallTypes(pc, kind, about) /\ Wants(c, pc, kind, about)
      /\ parked \in [Questions -> Asking] /\ reachable \in BOOLEAN
  BY SessionStill, ShapeParts DEF SessionTypes
<1>2. /\ known => Fits(task, LatestOf(reports, state))
      /\ MarksFit(task, pc, kind) /\ Posed(task, parked)
  BY SettlingParts
<1>3. /\ But(c, pc, pc', kind, kind') /\ task' = task
      /\ ~known => ~known'
  BY CallerIs
<1>4. ASSUME state' = state, reports' = reports, parked' = parked, pc'[c] # "mark" PROVE Settling'
  BY <1>3, <1>4, SettlesSilently
<1>5. ASSUME NEW k \in {"prompt", "cancel", "stop"}, Call(c, k) PROVE Settling'
  <2>1. /\ Starts(c, "reach", k, None) /\ state' = state /\ reports' = reports /\ parked' = parked
    BY <1>5 DEF Call, registry
  <2>2. pc'[c] = "reach"
    BY <1>1, <2>1, StartsIs, PlacesTold
  <2> QED
    BY <1>4, <2>1, <2>2
<1>6. ASSUME NEW k \in {"allow", "deny"}, Answer(c, k) PROVE Settling'
  <2>1. /\ Starts(c, "deliver", k, question) /\ question \in Questions \cup {None}
        /\ state' = state /\ reports' = reports /\ parked' = parked
    BY <1>6, SessionStill DEF Answer, RecordTypes, registry
  <2>2. pc'[c] = "deliver"
    BY <1>1, <2>1, StartsIs, PlacesTold
  <2> QED
    BY <1>4, <2>1, <2>2
<1>7. CASE Reach(c)
  <2>1. PICK at \in {"send", "refused"} : Goes(c, at)
    <3>1. Goes(c, IF reachable THEN "send" ELSE "refused")
      BY <1>7 DEF Reach
    <3>2. (IF reachable THEN "send" ELSE "refused") \in {"send", "refused"}
      OBVIOUS
    <3> QED
      BY <3>1, <3>2, Zenon
  <2>2. pc'[c] = at
    BY <1>1, <2>1, GoesIs, PlacesTold
  <2>3. state' = state /\ reports' = reports /\ parked' = parked
    BY <1>7 DEF Reach, registry
  <2> QED
    BY <1>4, <2>2, <2>3
<1>8. CASE Send(c) \/ Refused(c)
  <2>1. PICK at \in {"sent", "refused"} : Goes(c, at)
    BY <1>8 DEF Send, Refused
  <2>2. pc'[c] = at
    BY <1>1, <2>1, GoesIs, PlacesTold
  <2>3. state' = state /\ reports' = reports /\ parked' = parked
    BY <1>8 DEF Send, Refused, registry
  <2> QED
    BY <1>4, <2>2, <2>3
<1>9. CASE Told(c) \/ Forgets(c) \/ Dropped(c)
  <2>1. Rests(c) /\ state' = state /\ reports' = reports /\ parked' = parked
    BY <1>9 DEF Told, Forgets, Dropped, registry
  <2>2. pc'[c] = "idle"
    BY <1>1, <2>1, RestsIs
  <2> QED
    BY <1>4, <2>1, <2>2
<1>10. CASE Marks(c)
  <2>1. /\ pc[c] = "mark" /\ Reports(States(Mark[kind[c]])) /\ Rests(c)
        /\ known' = known /\ parked' = parked
    BY <1>10 DEF Marks
  <2>2. kind[c] \in {"prompt", "cancel", "allow", "deny"}
    BY <1>1, <2>1 DEF Wants
  <2>3. Mark[kind[c]] \in State
    BY <2>2, StatesTold
  <2>4. States(Mark[kind[c]]) \in Report /\ Saying(States(Mark[kind[c]])) = Mark[kind[c]]
    BY <2>3, ReportMade
  <2>5. LatestOf(reports', state') = Mark[kind[c]]
    BY <2>1, <2>4, LatestReported
  <2>6. Fits(task, Mark[kind[c]])
    BY <1>2, <2>1 DEF MarksFit
  <2>7. pc'[c] = "idle"
    BY <1>1, <2>1, RestsIs
  <2>8. MarksFit(task', pc', kind')
    BY <1>2, <1>3, <2>7, MarksFitBut
  <2> QED
    BY <1>2, <1>3, <2>1, <2>5, <2>6, <2>8, SettlingPartsNext
<1>11. CASE Deliver(c)
  <2>1. /\ pc[c] = "deliver" /\ state' = state /\ reports' = reports
    BY <1>11 DEF Deliver, registry
  <2>2. kind[c] \in {"allow", "deny"} /\ about[c] \in Questions
    BY <1>1, <2>1 DEF Wants
  <2>3. CASE reachable /\ parked[about[c]] = "parked"
    <3>1. parked' = [parked EXCEPT ![about[c]] = "answered"] /\ Goes(c, "mark")
      BY <1>11, <2>3 DEF Deliver
    <3>2. \A q \in Questions : parked'[q] = "parked" => parked[q] = "parked"
      BY <1>1, <3>1
    <3>3. kind' = kind
      BY <1>1, <3>1, GoesIs, PlacesTold
    <3>4. task \in {"turn", "left"}
      BY <1>2, <2>2, <2>3 DEF Posed
    <3>5. Fits(task, Mark[kind'[c]])
      <4>1. kind'[c] \in {"prompt", "cancel", "allow", "deny"}
        BY <2>2, <3>3
      <4>2. Fits("turn", Mark[kind'[c]]) /\ Fits("left", Mark[kind'[c]])
        BY <4>1, WhatFits
      <4> QED
        BY <3>4, <4>2
    <3> QED
      BY <1>3, <2>1, <3>2, <3>5, SettlesSilently
  <2>4. CASE ~(reachable /\ parked[about[c]] = "parked")
    <3>1. Rests(c) /\ parked' = parked
      BY <1>11, <2>4 DEF Deliver
    <3>2. pc'[c] = "idle"
      BY <1>1, <3>1, RestsIs
    <3> QED
      BY <1>4, <2>1, <3>1, <3>2
  <2> QED
    BY <2>3, <2>4
<1> QED
  BY <1>5, <1>6, <1>7, <1>8, <1>9, <1>10, <1>11, Zenon DEF Caller

\* Between two reports of the task, what it says and does is so.
LEMMA SettlesNext == Orderly /\ Shape /\ Beginnings /\ Settling /\ [Next]_vars => Settling'
<1> SUFFICES ASSUME Orderly, Shape, Beginnings, Settling, [Next]_vars PROVE Settling'
  OBVIOUS
<1>1. /\ known => Fits(task, LatestOf(reports, state))
      /\ MarksFit(task, pc, kind) /\ Posed(task, parked)
  BY SettlingParts
<1>2. /\ parked \in [Questions -> Asking] /\ reports \in Seq(Report) /\ task \in Tasks
      /\ known \in BOOLEAN /\ reachable \in BOOLEAN /\ stopping \in BOOLEAN
  BY ShapeParts DEF SessionTypes, RecordTypes
<1>3. ASSUME UNCHANGED calls PROVE \A t : MarksFit(t, pc, kind) => MarksFit(t, pc', kind')
  BY <1>3 DEF calls
<1>4. \A s \in State : States(s) \in Report /\ Saying(States(s)) = s
  BY ReportMade
<1>5. ASSUME Opened PROVE Settling'
  <2>1. /\ ~known /\ reachable /\ Reports(States("starting"))
        /\ task' = task /\ parked' = parked /\ UNCHANGED calls
    BY <1>5 DEF Opened, session
  <2>2. task = "idle"
    BY <2>1, BeginningsParts DEF Unasked
  <2>3. LatestOf(reports', state') = "starting"
    BY <1>4, <2>1, StatesTold, LatestReported
  <2> QED
    BY <1>1, <1>3, <2>1, <2>2, <2>3, WhatFits, SettlingPartsNext
<1>6. ASSUME Apply PROVE Settling'
  <2>1. known' = known /\ task' = task /\ parked' = parked /\ UNCHANGED calls
    BY <1>6 DEF Apply, session
  <2>2. known => LatestOf(reports', state') = LatestOf(reports, state)
    BY <1>6, LatestApplied
  <2> QED
    BY <1>1, <1>3, <2>1, <2>2, SettlingPartsNext
<1>7. ASSUME TakeInTurn PROVE Settling'
  <2> DEFINE m == Head(inbox)
  <2>1. /\ task = "turn" /\ inbox # <<>> /\ m \in Command
        /\ UNCHANGED <<registry, reports, reachable, task, parked>>
        /\ m.kind \in {"prompt", "cancel", "stop"}
        /\ m.kind = "prompt" => Holds(m)
        /\ m.kind = "cancel" => Tells(m, "mark")
        /\ m.kind = "stop" => Tells(m, "forget")
    BY <1>7, TakeInTurnIs
  <2>2. Heard(m, pc, kind)
    BY <2>1, TakenIsHeard
  <2>3. MarksFit("turn", pc, kind)
    BY MarksFitTurn
  <2>4. MarksFit("turn", pc', kind')
    <3>1. CASE m.kind = "prompt"
      <4>1. UNCHANGED calls \/ (held # <<>> /\ Tells(held[1], "refused"))
        BY <2>1, <3>1, Zenon DEF Holds
      <4>2. held # <<>> => held[1] \in Command /\ Heard(held[1], pc, kind)
        BY WaitingIs, TakenIsHeard
      <4> QED
        BY <1>3, <2>3, <4>1, <4>2, MarksFitTold
    <3>2. CASE m.kind = "cancel"
      BY <2>1, <2>2, <2>3, <3>2, WhatFits, MarksFitTold
    <3>3. CASE m.kind = "stop"
      BY <2>1, <2>2, <2>3, <3>3, MarksFitTold
    <3> QED
      BY <2>1, <3>1, <3>2, <3>3
  <2>5. known' = known /\ state' = state /\ reports' = reports /\ task' = "turn" /\ parked' = parked
    BY <2>1 DEF registry
  <2> QED
    BY <1>1, <2>1, <2>4, <2>5, SettlingPartsNext
<1>8. ASSUME TakeNext PROVE Settling'
  <2>1. /\ task = "idle" /\ UNCHANGED <<registry, reachable, stopping, parked>>
    BY <1>8, TakeNextIs
  <2>2. PICK m \in Command, left \in Seq(Command) :
          /\ Takes(m, left)
          /\ \/ m.kind = "prompt" /\ Begins(m) /\ held' = <<>> /\ inbox' = left
             \/ /\ m.kind = "cancel" /\ Tells(m, "mark") /\ held' = <<>> /\ inbox' = left
                /\ UNCHANGED <<reports, task>>
             \/ /\ m.kind = "stop" /\ MayReport /\ Tells(m, "forget") /\ Leaves
                /\ Reports(States("offline"))
    BY <1>8, TakeNextIs
  <2>3. Heard(m, pc, kind)
    BY <2>2, TakenIsHeard
  <2>4. MarksFit("turn", pc, kind) /\ MarksFit("left", pc, kind)
    BY MarksFitTurn
  <2>5. known' = known /\ state' = state /\ parked' = parked
    BY <2>1 DEF registry
  <2>6. ASSUME task' \in {"turn", "left"} PROVE Posed(task', parked')
    BY <2>6 DEF Posed
  <2>7. CASE m.kind = "prompt" /\ Begins(m)
    <3>1. task' = "turn" /\ Reports(States("working")) /\ Tells(m, "mark")
      BY <2>7, Zenon DEF Begins
    <3>2. LatestOf(reports', state') = "working"
      BY <1>4, <3>1, StatesTold, LatestReported
    <3>3. Fits("turn", Mark[m.kind])
      BY <2>7, WhatFits
    <3>4. MarksFit("turn", pc', kind')
      BY <2>3, <2>4, <3>1, <3>3, MarksFitTold
    <3> QED
      BY <2>6, <3>1, <3>2, <3>4, WhatFits, SettlingPartsNext
  <2>8. CASE m.kind = "cancel" /\ Tells(m, "mark") /\ UNCHANGED <<reports, task>>
    <3>1. Fits(task, Mark[m.kind])
      BY <2>1, <2>8, WhatFits
    <3>2. MarksFit(task, pc', kind')
      BY <1>1, <2>3, <2>8, <3>1, MarksFitTold
    <3> QED
      BY <1>1, <2>5, <2>8, <3>2, SettlingPartsNext
  <2>9. CASE m.kind = "stop" /\ Tells(m, "forget") /\ Leaves
    <3>1. task' = "left"
      BY <2>9 DEF Leaves
    <3>2. MarksFit("left", pc', kind')
      BY <2>3, <2>4, <2>9, MarksFitTold
    <3> QED
      BY <2>6, <3>1, <3>2, WhatFits, SettlingPartsNext
  <2> QED
    BY <2>2, <2>7, <2>8, <2>9, Zenon
<1>9. ASSUME NEW reason \in Over, EndTurn(reason) PROVE Settling'
  <2>1. /\ MayReport /\ parked' = parked /\ UNCHANGED calls /\ reports' # <<>>
        /\ stopping => task' = "left"
        /\ ~stopping => task' = "idle" /\ reports'[Len(reports')] = Ended(reason)
    BY <1>9, EndTurnIs
  <2>2. \A t : MarksFit(t, pc', kind')
    BY <1>3, <2>1, NoneMarks
  <2>3. \A q \in Questions : parked[q] = "none"
    BY <1>9, Zenon DEF EndTurn, Orderly
  <2>4. Posed(task', parked')
    BY <2>1, <2>3 DEF Posed
  <2>5. Fits(task', LatestOf(reports', state'))
    <3>1. CASE stopping
      BY <2>1, <3>1, WhatFits
    <3>2. CASE ~stopping
      <4>1. LatestOf(reports', state') = Saying(Ended(reason))
        BY <2>1, <3>2, LatestSaid
      <4>2. Saying(Ended(reason)) = reason
        BY StatesTold, ReportMade
      <4> QED
        BY <2>1, <3>2, <4>1, <4>2, WhatFits
    <3> QED
      BY <3>1, <3>2
  <2> QED
    BY <2>2, <2>4, <2>5, SettlingPartsNext
<1>10. ASSUME InboxCloses \/ Dies PROVE Settling'
  <2>1. task' = "left" /\ UNCHANGED calls
    BY <1>10 DEF InboxCloses, Dies, Leaves
  <2>2. MarksFit("left", pc', kind')
    BY <1>3, <2>1, MarksFitTurn
  <2>3. Posed("left", parked')
    BY DEF Posed
  <2> QED
    BY <2>1, <2>2, <2>3, WhatFits, SettlingPartsNext
<1>11. ASSUME Ends PROVE Settling'
  <2>1. /\ task' = "gone" /\ MayReport /\ Reports(States("offline")) /\ UNCHANGED calls
        /\ parked' = [q \in Questions |-> "none"]
    BY <1>11 DEF Ends
  <2>2. LatestOf(reports', state') = "offline"
    BY <1>4, <2>1, StatesTold, LatestReported
  <2>3. \A t : MarksFit(t, pc', kind')
    BY <1>3, <2>1, NoneMarks
  <2>4. Posed("gone", parked')
    BY <2>1 DEF Posed
  <2> QED
    BY <2>1, <2>2, <2>3, <2>4, WhatFits, SettlingPartsNext
<1>12. ASSUME NEW q \in Questions, Asks(q) PROVE Settling'
  <2>1. /\ task = "turn" /\ task' = task /\ Reports(Asked(q)) /\ UNCHANGED calls
    BY <1>12 DEF Asks, session
  <2>2. LatestOf(reports', state') = "waiting_approval"
    BY <2>1, ReportMade, LatestReported
  <2>3. Posed("turn", parked')
    BY DEF Posed
  <2> QED
    BY <1>1, <1>3, <2>1, <2>2, <2>3, WhatFits, SettlingPartsNext
<1>13. ASSUME NEW q \in Questions, Responds(q) \/ GivesUp(q) PROVE Settling'
  <2>1. /\ parked' = [parked EXCEPT ![q] = "none"] /\ known' = known /\ state' = state
        /\ reports' = reports /\ task' = task /\ UNCHANGED calls
    BY <1>13 DEF Responds, GivesUp, session, registry
  <2>2. \A r \in Questions : parked'[r] = "parked" => parked[r] = "parked"
    BY <1>2, <2>1
  <2>3. Posed(task', parked')
    BY <1>1, <2>1, <2>2 DEF Posed
  <2> QED
    BY <1>1, <1>3, <2>1, <2>3, SettlingPartsNext
<1>14. ASSUME UNCHANGED vars PROVE Settling'
  <2>1. UNCHANGED calls /\ UNCHANGED session /\ UNCHANGED registry /\ reports' = reports /\ parked' = parked
    BY <1>14 DEF vars
  <2>2. known' = known /\ state' = state /\ task' = task
    BY <2>1 DEF session, registry
  <2> QED
    BY <1>1, <1>3, <2>1, <2>2, SettlingPartsNext
<1> QED
  BY <1>5, <1>6, <1>7, <1>8, <1>9, <1>10, <1>11, <1>12, <1>13, <1>14, CallerSettles,
     Zenon DEF Next, Serve, Agent

\* It begins so.
LEMMA SettlingInit == Init => Beginnings /\ Settling
<1> SUFFICES ASSUME Init PROVE Beginnings /\ Settling
  OBVIOUS
<1>1. /\ known = FALSE /\ reachable = TRUE /\ task = "idle" /\ inbox = <<>> /\ held = <<>>
      /\ parked = [q \in Questions |-> "none"] /\ pc = [c \in Calls |-> "idle"]
      /\ kind = [c \in Calls |-> None]
  BY Zenon DEF Init
<1>2. Unasked(task, inbox, held, pc)
  BY <1>1 DEF Unasked
<1>3. StopsClose(reachable, pc, kind)
  BY <1>1 DEF StopsClose
<1>4. MarksFit(task, pc, kind) /\ Posed(task, parked)
  BY <1>1 DEF MarksFit, Posed
<1> QED
  BY <1>1, <1>2, <1>3, <1>4, BeginningsParts, SettlingParts

\* When every report and mark has been applied, the registry says of the session
\* what is so, as long as no report comes between a call's answer and its mark,
\* no turn leaves a question behind and the session does not end before it is
\* recorded; for each of the three the code has a way to break it.
THEOREM RegistrySettles ==
    ASSUME "late mark" \notin Allowed, "abandons" \notin Allowed, "quick end" \notin Allowed
    PROVE  Spec => []RecordSettles
<1>1. Orderly
  BY DEF Orderly
<1>2. Shape /\ Beginnings /\ Settling /\ [Next]_vars => Shape' /\ Beginnings' /\ Settling'
  BY <1>1, ShapeNext, BeginningsNext, SettlesNext
<1>3. Init => Shape /\ Beginnings /\ Settling
  BY ShapeInit, SettlingInit
<1>4. Settling => RecordSettles
  <2> SUFFICES ASSUME Settling, known, reports = <<>>
               PROVE  /\ task = "idle" => state \notin {"queued", "working", "waiting_approval", "offline"}
                      /\ task = "turn" => state \notin {"sleeping", "completed", "failed", "offline"}
                      /\ task = "gone" => state = "offline"
    BY Zenon DEF RecordSettles, Quiet
  <2>1. Fits(task, state)
    BY SettlingParts DEF LatestOf
  <2> QED
    BY <2>1 DEF Fits
<1> QED
  BY <1>2, <1>3, <1>4, PTL DEF Spec

-----------------------------------------------------------------------------
(* The promise, kept step by step. *)

\* How a call stands, the variables named.
StandOf(c, p, k) == IF k[c] \in {"prompt", "cancel", "stop"} THEN Standing[p[c]] ELSE "none"

Stood(p, k) == [c \in Calls |-> StandOf(c, p, k)]

\* Whether the session may be asked.
MayAsk(re, t) == re /\ t \in {"idle", "turn"}

\* A step that leaves the session as open, and as much at work, as it was.
Stands == /\ (task' = "turn") <=> (task = "turn")
          /\ MayAsk(reachable', task') <=> MayAsk(reachable, task)

\* A step of AgentPromise, or none.
Keeps == P!Promised \/ UNCHANGED P!promised

\* How the calls stand is what AgentPromise is told.
LEMMA StoodIs == /\ [c \in Calls |-> Stand(c)] = Stood(pc, kind)
                 /\ [c \in Calls |-> Stand(c)]' = Stood(pc', kind')
<1>1. \A c : Stand(c) = StandOf(c, pc, kind) /\ Stand(c)' = StandOf(c, pc', kind')
  BY DEF Stand, StandOf
<1> QED
  BY <1>1 DEF Stood

\* Only one call is touched.
LEMMA StoodBut ==
    ASSUME NEW c, But(c, pc, pc', kind, kind')
    PROVE  /\ c \in Calls => Stood(pc', kind') = [Stood(pc, kind) EXCEPT ![c] = StandOf(c, pc', kind')]
           /\ c \notin Calls \/ StandOf(c, pc', kind') = StandOf(c, pc, kind)
                => Stood(pc', kind') = Stood(pc, kind)
           /\ c \in Calls => Stood(pc, kind)[c] = StandOf(c, pc, kind)
<1>1. \A d \in Calls : d # c => StandOf(d, pc', kind') = StandOf(d, pc, kind)
  BY DEF But, StandOf
<1> QED
  BY <1>1 DEF Stood

\* Nothing that was promised is touched.
LEMMA KeepsStill ==
    ASSUME Stood(pc', kind') = Stood(pc, kind), Stands
    PROVE  UNCHANGED P!promised
BY StoodIs DEF P!promised, MayAsk, Listening, Stands

\* A call that takes a step as it may, while the session stands.
LEMMA KeepsCall ==
    ASSUME NEW c \in Calls, But(c, pc, pc', kind, kind'), Stands,
           NEW old, NEW new, old = StandOf(c, pc, kind), new = StandOf(c, pc', kind'),
           \/ new = old
           \/ old = "none" /\ new = "asked"
           \/ old # "none" /\ new = "none"
           \/ old = "asked" /\ new = "taken"
           \/ old = "asked" /\ new = "refused" /\ ~MayAsk(reachable, task)
    PROVE  Keeps
<1>1. /\ Stood(pc', kind') = [Stood(pc, kind) EXCEPT ![c] = new]
      /\ Stood(pc, kind)[c] = old
      /\ new = old => Stood(pc', kind') = Stood(pc, kind)
  BY StoodBut
<1>2. CASE new = old
  BY <1>1, <1>2, KeepsStill DEF Keeps
<1>3. CASE old = "none" /\ new = "asked"
  <2>1. P!Ask(c)
    BY <1>1, <1>3, StoodIs DEF P!Ask, P!Stands, MayAsk, Listening, Stands
  <2> QED
    BY <2>1 DEF P!Promised, Keeps
<1>4. CASE old # "none" /\ new = "none"
  <2>1. P!Forget(c)
    BY <1>1, <1>4, StoodIs DEF P!Forget, P!Stands, MayAsk, Listening, Stands
  <2> QED
    BY <2>1 DEF P!Promised, Keeps
<1>5. CASE old = "asked" /\ new = "taken"
  <2>1. P!Take(c)
    BY <1>1, <1>5, StoodIs DEF P!Take, P!Stands, MayAsk, Listening, Stands
  <2> QED
    BY <2>1 DEF P!Promised, Keeps
<1>6. CASE old = "asked" /\ new = "refused" /\ ~MayAsk(reachable, task)
  <2>1. P!Refuse(c)
    BY <1>1, <1>6, StoodIs DEF P!Refuse, P!Stands, MayAsk, Listening, Stands
  <2> QED
    BY <2>1 DEF P!Promised, Keeps
<1> QED
  BY <1>2, <1>3, <1>4, <1>5, <1>6

\* A turn begins, for a caller or for nobody any more.
LEMMA KeepsBegin ==
    ASSUME NEW c, But(c, pc, pc', kind, kind'), task = "idle", task' = "turn", reachable' = reachable,
           c \in Calls => StandOf(c, pc, kind) = "asked" /\ StandOf(c, pc', kind') = "taken"
    PROVE  Keeps
<1>1. MayAsk(reachable', task') <=> MayAsk(reachable, task)
  BY DEF MayAsk
<1>2. CASE c \in Calls
  <2>1. /\ Stood(pc', kind') = [Stood(pc, kind) EXCEPT ![c] = "taken"]
        /\ Stood(pc, kind)[c] = "asked"
    BY <1>2, StoodBut
  <2>2. P!Begin(c)
    BY <1>1, <2>1, StoodIs DEF P!Begin, P!Stands, MayAsk, Listening
  <2> QED
    BY <1>2, <2>2 DEF P!Promised, Keeps
<1>3. CASE c \notin Calls
  <2>1. Stood(pc', kind') = Stood(pc, kind)
    BY <1>3, StoodBut
  <2>2. P!BeginUnheard
    BY <1>1, <2>1, StoodIs DEF P!BeginUnheard, MayAsk, Listening
  <2> QED
    BY <2>2 DEF P!Promised, Keeps
<1> QED
  BY <1>2, <1>3

\* The session closes, for a caller or for nobody any more.
LEMMA KeepsLast ==
    ASSUME NEW c, But(c, pc, pc', kind, kind'), (task' = "turn") <=> (task = "turn"),
           ~MayAsk(reachable', task'),
           c \in Calls => \/ StandOf(c, pc, kind) = "asked" /\ StandOf(c, pc', kind') = "taken"
                          \/ StandOf(c, pc, kind) = StandOf(c, pc', kind')
    PROVE  Keeps
<1>1. CASE c \in Calls /\ StandOf(c, pc, kind) = "asked" /\ StandOf(c, pc', kind') = "taken"
  <2>1. /\ Stood(pc', kind') = [Stood(pc, kind) EXCEPT ![c] = "taken"]
        /\ Stood(pc, kind)[c] = "asked"
    BY <1>1, StoodBut
  <2>2. P!TakeLast(c)
    BY <2>1, StoodIs DEF P!TakeLast, P!Stands, MayAsk, Listening
  <2> QED
    BY <1>1, <2>2 DEF P!Promised, Keeps
<1>2. CASE c \notin Calls \/ StandOf(c, pc, kind) = StandOf(c, pc', kind')
  <2>1. Stood(pc', kind') = Stood(pc, kind)
    BY <1>2, StoodBut
  <2>2. CASE MayAsk(reachable, task)
    <3>1. P!Close
      BY <2>1, <2>2, StoodIs DEF P!Close, MayAsk, Listening
    <3> QED
      BY <3>1 DEF P!Promised, Keeps
  <2>3. CASE ~MayAsk(reachable, task)
    BY <2>1, <2>3, KeepsStill DEF Stands, Keeps
  <2> QED
    BY <2>2, <2>3
<1> QED
  BY <1>1, <1>2

\* A turn is over.
LEMMA KeepsFinish ==
    ASSUME UNCHANGED calls, task = "turn", task' # "turn",
           MayAsk(reachable', task') => MayAsk(reachable, task)
    PROVE  Keeps
<1>1. Stood(pc', kind') = Stood(pc, kind)
  BY DEF calls
<1>2. P!Finish
  BY <1>1, StoodIs DEF P!Finish, MayAsk, Listening
<1> QED
  BY <1>2 DEF P!Promised, Keeps

\* Where a call goes from, and where it goes to.
LEMMA StandOfIs ==
    ASSUME NEW c, NEW p, NEW k, p[c] \in Places
    PROVE  /\ k[c] \notin {"prompt", "cancel", "stop"} => StandOf(c, p, k) = "none"
           /\ p[c] \in {"idle", "deliver"} => StandOf(c, p, k) = "none"
           /\ k[c] \in {"prompt", "cancel", "stop"} /\ p[c] \in {"reach", "send", "sent"} =>
                StandOf(c, p, k) = "asked"
           /\ k[c] \in {"prompt", "cancel", "stop"} /\ p[c] \in {"mark", "forget"} =>
                StandOf(c, p, k) = "taken"
           /\ k[c] \in {"prompt", "cancel", "stop"} /\ p[c] = "refused" =>
                StandOf(c, p, k) = "refused"
BY DEF StandOf, Standing, Places

\* A caller that is told goes from asked to taken.
LEMMA StandTold ==
    ASSUME Shape, NEW m \in Command, NEW at \in {"mark", "forget"}, Tells(m, at),
           Heard(m, pc, kind)
    PROVE  /\ But(m.from, pc, pc', kind, kind')
           /\ m.from \in Calls => /\ StandOf(m.from, pc, kind) = "asked"
                                  /\ StandOf(m.from, pc', kind') = "taken"
<1>1. CallTypes(pc, kind, about) /\ at \in Places /\ m.kind \in {"prompt", "cancel", "stop"}
  BY SessionStill, PlacesTold, CommandParts
<1>2. /\ kind' = kind
      /\ m.from # None => pc'[m.from] = at
      /\ But(m.from, pc, pc', kind, kind')
  BY <1>1, TellsIs
<1>3. m.from \in Calls => m.from # None /\ kind[m.from] = m.kind /\ pc[m.from] = "sent"
  BY ConstantsAssumption DEF Heard
<1>4. m.from \in Calls => /\ pc[m.from] \in Places /\ pc'[m.from] \in Places
                          /\ kind[m.from] \in {"prompt", "cancel", "stop"}
                          /\ kind'[m.from] \in {"prompt", "cancel", "stop"}
                          /\ pc[m.from] \in {"reach", "send", "sent"}
                          /\ pc'[m.from] \in {"mark", "forget"}
  BY <1>1, <1>2, <1>3, PlacesTold
<1>5. m.from \in Calls => /\ StandOf(m.from, pc, kind) = "asked"
                          /\ StandOf(m.from, pc', kind') = "taken"
  BY <1>4, StandOfIs
<1> QED
  BY <1>2, <1>5

\* A step of a call keeps the promise.
LEMMA CallerKeeps ==
    ASSUME Shape, NEW c \in Calls, Caller(c)
    PROVE  Keeps
<1>1. /\ CallTypes(pc, kind, about) /\ Wants(c, pc, kind, about)
      /\ pc[c] \in Places /\ reachable \in BOOLEAN
  BY SessionStill, ShapeParts DEF SessionTypes, CallTypes
<1>2. But(c, pc, pc', kind, kind') /\ task' = task
  BY CallerIs
<1>3. ASSUME reachable' = reachable PROVE Stands
  BY <1>2, <1>3 DEF Stands
<1>4. ASSUME NEW at \in Places, Goes(c, at) PROVE kind' = kind /\ pc'[c] = at /\ pc'[c] \in Places
  BY <1>1, <1>4, GoesIs
<1>5. ASSUME Rests(c), reachable' = reachable PROVE Keeps
  <2>1. pc'[c] = "idle" /\ pc'[c] \in Places
    BY <1>1, <1>5, RestsIs, PlacesTold
  <2>2. StandOf(c, pc', kind') = "none"
    BY <2>1, StandOfIs
  <2> QED
    BY <1>2, <1>3, <1>5, <2>2, KeepsCall
<1>6. ASSUME NEW k \in {"prompt", "cancel", "stop"}, Call(c, k) PROVE Keeps
  <2>1. Starts(c, "reach", k, None) /\ reachable' = reachable
    BY <1>6 DEF Call
  <2>2. pc[c] = "idle" /\ pc'[c] = "reach" /\ kind'[c] = k /\ pc'[c] \in Places
    BY <1>1, <2>1, StartsIs, PlacesTold
  <2>3. StandOf(c, pc, kind) = "none"
    BY <1>1, <2>2, StandOfIs
  <2>4. StandOf(c, pc', kind') = "asked"
    BY <2>2, StandOfIs
  <2> QED
    BY <1>2, <1>3, <2>1, <2>3, <2>4, KeepsCall
<1>7. ASSUME NEW k \in {"allow", "deny"}, Answer(c, k) PROVE Keeps
  <2>1. Starts(c, "deliver", k, question) /\ reachable' = reachable /\ question \in Questions \cup {None}
    BY <1>7, SessionStill DEF Answer, RecordTypes
  <2>2. "deliver" \in Places /\ k \in Kind
    BY PlacesTold
  <2>3. pc[c] = "idle" /\ pc'[c] = "deliver"
    BY <1>1, <2>1, <2>2, StartsIs
  <2>4. StandOf(c, pc, kind) = "none" /\ StandOf(c, pc', kind') = "none"
    BY <1>1, <2>2, <2>3, StandOfIs
  <2> QED
    BY <1>2, <1>3, <2>1, <2>4, KeepsCall
<1>8. CASE Reach(c)
  <2>1. /\ pc[c] = "reach" /\ reachable' = (reachable /\ kind[c] # "stop")
        /\ Goes(c, IF reachable THEN "send" ELSE "refused")
    BY <1>8 DEF Reach
  <2>2. kind[c] \in {"prompt", "cancel", "stop"}
    BY <1>1, <2>1 DEF Wants
  <2>3. StandOf(c, pc, kind) = "asked"
    BY <1>1, <2>1, <2>2, StandOfIs
  <2>4. CASE ~reachable
    <3>1. Goes(c, "refused") /\ ~reachable'
      BY <2>1, <2>4
    <3>2. StandOf(c, pc', kind') = "refused"
      BY <1>4, <2>2, <3>1, PlacesTold, StandOfIs
    <3>3. ~MayAsk(reachable, task) /\ ~MayAsk(reachable', task')
      BY <2>4, <3>1 DEF MayAsk
    <3>4. Stands
      BY <1>2, <3>3 DEF Stands
    <3> QED
      BY <1>2, <2>3, <3>2, <3>3, <3>4, KeepsCall
  <2>5. CASE reachable
    <3>1. Goes(c, "send")
      BY <2>1, <2>5
    <3>2. StandOf(c, pc', kind') = "asked"
      BY <1>4, <2>2, <3>1, PlacesTold, StandOfIs
    <3>3. CASE kind[c] = "stop"
      <4>1. ~MayAsk(reachable', task')
        BY <2>1, <3>3 DEF MayAsk
      <4> QED
        BY <1>2, <2>3, <3>2, <4>1, KeepsLast
    <3>4. CASE kind[c] # "stop"
      <4>1. reachable' = reachable
        BY <1>1, <2>1, <3>4
      <4> QED
        BY <1>2, <1>3, <2>3, <3>2, <4>1, KeepsCall
    <3> QED
      BY <3>3, <3>4
  <2> QED
    BY <2>4, <2>5
<1>9. CASE Send(c) \/ Refused(c)
  <2>1. /\ pc[c] \in {"send", "sent"} /\ reachable' = reachable
        /\ Goes(c, "sent") \/ (Goes(c, "refused") /\ ~Listening)
    BY <1>9 DEF Send, Refused
  <2>2. kind[c] \in {"prompt", "cancel", "stop"}
    BY <1>1, <2>1 DEF Wants
  <2>3. StandOf(c, pc, kind) = "asked"
    BY <1>1, <2>1, <2>2, StandOfIs
  <2>4. CASE Goes(c, "sent")
    <3>1. StandOf(c, pc', kind') = "asked"
      BY <1>4, <2>2, <2>4, PlacesTold, StandOfIs
    <3> QED
      BY <1>2, <1>3, <2>1, <2>3, <3>1, KeepsCall
  <2>5. CASE Goes(c, "refused") /\ ~Listening
    <3>1. StandOf(c, pc', kind') = "refused"
      BY <1>4, <2>2, <2>5, PlacesTold, StandOfIs
    <3>2. ~MayAsk(reachable, task)
      BY <2>5 DEF MayAsk, Listening
    <3> QED
      BY <1>2, <1>3, <2>1, <2>3, <3>1, <3>2, KeepsCall
  <2> QED
    BY <2>1, <2>4, <2>5
<1>10. CASE Deliver(c)
  <2>1. /\ pc[c] = "deliver" /\ reachable' = reachable
        /\ Goes(c, "mark") \/ Rests(c)
    BY <1>10 DEF Deliver
  <2>2. kind[c] \in {"allow", "deny"}
    BY <1>1, <2>1 DEF Wants
  <2>3. CASE Goes(c, "mark")
    <3>1. kind'[c] \in {"allow", "deny"} /\ pc'[c] \in Places
      BY <1>4, <2>2, <2>3, PlacesTold
    <3>2. StandOf(c, pc, kind) = "none" /\ StandOf(c, pc', kind') = "none"
      BY <1>1, <2>2, <3>1, StandOfIs
    <3> QED
      BY <1>2, <1>3, <2>1, <3>2, KeepsCall
  <2> QED
    BY <1>5, <2>1, <2>3
<1>11. CASE Marks(c) \/ Told(c) \/ Forgets(c) \/ Dropped(c)
  <2>1. Rests(c) /\ reachable' = reachable
    BY <1>11 DEF Marks, Told, Forgets, Dropped
  <2> QED
    BY <1>5, <2>1
<1> QED
  BY <1>6, <1>7, <1>8, <1>9, <1>10, <1>11, Zenon DEF Caller

\* Every step keeps the promise.
LEMMA KeepsNext == Shape /\ OnePrompt /\ [Next]_vars => Keeps
<1> SUFFICES ASSUME Shape, OnePrompt, [Next]_vars PROVE Keeps
  OBVIOUS
<1>1. ASSUME UNCHANGED calls, task' = task, reachable' = reachable PROVE Keeps
  <2>1. Stood(pc', kind') = Stood(pc, kind)
    BY <1>1 DEF calls
  <2>2. Stands
    BY <1>1 DEF Stands
  <2> QED
    BY <2>1, <2>2, KeepsStill DEF Keeps
<1>2. ASSUME UNCHANGED calls, task = "idle", task' = "left" PROVE Keeps
  <2>1. But(None, pc, pc', kind, kind') /\ None \notin Calls
    BY <1>2, ConstantsAssumption DEF calls, But
  <2>2. ~MayAsk(reachable', task')
    BY <1>2 DEF MayAsk
  <2> QED
    BY <1>2, <2>1, <2>2, KeepsLast
<1>3. ASSUME UNCHANGED calls, task = "turn", task' \in {"idle", "left"}, reachable' = reachable
      PROVE  Keeps
  <2>1. MayAsk(reachable', task') => MayAsk(reachable, task)
    BY <1>3 DEF MayAsk
  <2> QED
    BY <1>3, <2>1, KeepsFinish
<1>4. ASSUME NEW m \in Command, NEW at \in {"mark", "forget"}, Tells(m, at), Heard(m, pc, kind),
             task' = task, reachable' = reachable
      PROVE  Keeps
  <2>1. /\ But(m.from, pc, pc', kind, kind')
        /\ m.from \in Calls => /\ StandOf(m.from, pc, kind) = "asked"
                               /\ StandOf(m.from, pc', kind') = "taken"
    BY <1>4, StandTold
  <2>2. Stands
    BY <1>4 DEF Stands
  <2>3. CASE m.from \in Calls
    BY <2>1, <2>2, <2>3, KeepsCall
  <2>4. CASE m.from \notin Calls
    <3>1. Stood(pc', kind') = Stood(pc, kind)
      BY <2>1, <2>4, StoodBut
    <3> QED
      BY <2>2, <3>1, KeepsStill DEF Keeps
  <2> QED
    BY <2>3, <2>4
<1>5. ASSUME TakeInTurn PROVE Keeps
  <2> DEFINE m == Head(inbox)
  <2>1. /\ inbox # <<>> /\ m \in Command
        /\ UNCHANGED <<registry, reports, reachable, task, parked>>
        /\ m.kind \in {"prompt", "cancel", "stop"}
        /\ m.kind = "prompt" => Holds(m)
        /\ m.kind = "cancel" => Tells(m, "mark")
        /\ m.kind = "stop" => Tells(m, "forget")
    BY <1>5, TakeInTurnIs
  <2>2. Heard(m, pc, kind) /\ task' = task /\ reachable' = reachable
    BY <2>1, TakenIsHeard
  <2>3. CASE m.kind = "prompt"
    <3>1. Single(inbox, held, pc, kind) /\ inbox \in Seq(Command)
      BY SessionStill DEF OnePrompt
    <3>2. held = <<>>
      BY <2>1, <2>3, <3>1, TailAt DEF Single
    <3>3. UNCHANGED calls
      BY <2>1, <2>3, <3>2, Zenon DEF Holds
    <3> QED
      BY <1>1, <2>2, <3>3
  <2>4. CASE m.kind = "cancel"
    BY <1>4, <2>1, <2>2, <2>4
  <2>5. CASE m.kind = "stop"
    BY <1>4, <2>1, <2>2, <2>5
  <2> QED
    BY <2>1, <2>3, <2>4, <2>5
<1>6. ASSUME TakeNext PROVE Keeps
  <2>1. task = "idle" /\ reachable' = reachable
    BY <1>6, TakeNextIs
  <2>2. PICK m \in Command, left \in Seq(Command) :
          /\ Takes(m, left)
          /\ \/ m.kind = "prompt" /\ Begins(m) /\ held' = <<>> /\ inbox' = left
             \/ /\ m.kind = "cancel" /\ Tells(m, "mark") /\ held' = <<>> /\ inbox' = left
                /\ UNCHANGED <<reports, task>>
             \/ /\ m.kind = "stop" /\ MayReport /\ Tells(m, "forget") /\ Leaves
                /\ Reports(States("offline"))
    BY <1>6, TakeNextIs
  <2>3. Heard(m, pc, kind)
    BY <2>2, TakenIsHeard
  <2>4. CASE Begins(m)
    <3>1. task' = "turn" /\ Tells(m, "mark")
      BY <2>4, Zenon DEF Begins
    <3>2. /\ But(m.from, pc, pc', kind, kind')
          /\ m.from \in Calls => /\ StandOf(m.from, pc, kind) = "asked"
                                 /\ StandOf(m.from, pc', kind') = "taken"
      BY <2>3, <3>1, StandTold
    <3> QED
      BY <2>1, <3>1, <3>2, KeepsBegin
  <2>5. CASE Tells(m, "mark") /\ UNCHANGED <<reports, task>>
    BY <1>4, <2>1, <2>3, <2>5
  <2>6. CASE Tells(m, "forget") /\ Leaves
    <3>1. task' = "left"
      BY <2>6 DEF Leaves
    <3>2. /\ But(m.from, pc, pc', kind, kind')
          /\ m.from \in Calls => /\ StandOf(m.from, pc, kind) = "asked"
                                 /\ StandOf(m.from, pc', kind') = "taken"
      BY <2>3, <2>6, StandTold
    <3>3. ~MayAsk(reachable', task')
      BY <3>1 DEF MayAsk
    <3> QED
      BY <2>1, <3>1, <3>2, <3>3, KeepsLast
  <2> QED
    BY <2>2, <2>4, <2>5, <2>6, Zenon
<1>7. ASSUME NEW reason \in Over, EndTurn(reason) PROVE Keeps
  <2>1. task = "turn" /\ UNCHANGED calls /\ task' \in {"idle", "left"} /\ reachable' = reachable
    BY <1>7, EndTurnIs
  <2> QED
    BY <1>3, <2>1
<1>8. ASSUME InboxCloses PROVE Keeps
  <2>1. task = "idle" /\ UNCHANGED calls /\ task' = "left"
    BY <1>8 DEF InboxCloses, Leaves
  <2> QED
    BY <1>2, <2>1
<1>9. ASSUME Dies PROVE Keeps
  <2>1. task \in {"idle", "turn"} /\ UNCHANGED calls /\ task' = "left" /\ reachable' = reachable
    BY <1>9 DEF Dies, Leaves
  <2> QED
    BY <1>2, <1>3, <2>1
<1>10. ASSUME Ends PROVE Keeps
  <2>1. task = "left" /\ UNCHANGED calls /\ task' = "gone"
    BY <1>10 DEF Ends
  <2>2. Stood(pc', kind') = Stood(pc, kind)
    BY <2>1 DEF calls
  <2>3. Stands
    BY <2>1 DEF Stands, MayAsk
  <2> QED
    BY <2>2, <2>3, KeepsStill DEF Keeps
<1>11. ASSUME Opened \/ Apply \/ \E q \in Questions : Agent(q) PROVE Keeps
  <2>1. UNCHANGED calls /\ task' = task /\ reachable' = reachable
    BY <1>11 DEF Opened, Apply, Agent, Asks, Responds, GivesUp, session
  <2> QED
    BY <1>1, <2>1
<1>12. ASSUME UNCHANGED vars PROVE Keeps
  <2>1. UNCHANGED calls /\ UNCHANGED session /\ reachable' = reachable
    BY <1>12 DEF vars
  <2>2. task' = task
    BY <2>1 DEF session
  <2> QED
    BY <1>1, <2>1, <2>2
<1> QED
  BY <1>5, <1>6, <1>7, <1>8, <1>9, <1>10, <1>11, <1>12, CallerKeeps, Zenon DEF Next, Serve

\* No prompt is on its way, and nothing has been asked.
LEMMA PromiseInit == Init => OnePrompt /\ P!PromiseInit
<1> SUFFICES ASSUME Init PROVE OnePrompt /\ P!PromiseInit
  OBVIOUS
<1>1. /\ reachable = TRUE /\ task = "idle" /\ inbox = <<>> /\ held = <<>>
      /\ pc = [c \in Calls |-> "idle"] /\ kind = [c \in Calls |-> None]
  BY Zenon DEF Init
<1>2. \A c \in Calls : pc[c] = "idle" /\ pc[c] \in Places
  BY <1>1, PlacesTold
<1>3. OnePrompt
  <2>1. \A c \in Calls : ~Sending(c, pc, kind)
    BY <1>2 DEF Sending
  <2>2. \A i \in 1..Len(<<>>) : FALSE
    OBVIOUS
  <2> QED
    BY <1>1, <2>1, <2>2 DEF OnePrompt, Single
<1>4. Stood(pc, kind) = [c \in Calls |-> "none"]
  <2>1. \A c \in Calls : StandOf(c, pc, kind) = "none"
    BY <1>2, StandOfIs
  <2> QED
    BY <2>1 DEF Stood
<1>5. P!PromiseInit
  BY <1>1, <1>4, StoodIs DEF P!PromiseInit, Listening
<1> QED
  BY <1>3, <1>5

\* A session keeps its promise at every step: a call is answered once and only
\* for what it asked, a turn begins when none is under way, and a call is refused
\* only by a session that has closed (RunningSession::send, serve).  It needs that no
\* prompt is asked for while another is on its way: serve holds one, and drops it
\* for the next.  That
\* every call is answered in the end needs fairness, and is left to TLC.
THEOREM SessionKeepsItsWord ==
    ASSUME "held twice" \notin Allowed
    PROVE  Spec => P!PromiseInit /\ [][P!Promised]_(P!promised)
<1>1. OneHeld
  BY DEF OneHeld
<1>2. Init => Shape /\ OnePrompt /\ P!PromiseInit
  BY ShapeInit, PromiseInit
<1>3. Shape /\ OnePrompt /\ [Next]_vars => Shape' /\ OnePrompt'
  BY <1>1, ShapeNext, OnePromptNext
<1>4. Shape /\ OnePrompt /\ [Next]_vars => [P!Promised]_(P!promised)
  BY KeepsNext DEF Keeps
<1> QED
  BY <1>2, <1>3, <1>4, PTL DEF Spec

=============================================================================
