--------------------------- MODULE TerminalsProofs --------------------------
(***************************************************************************)
(* What holds of the terminals, for any identifiers, names, presses and    *)
(* limits.                                                                 *)
(*                                                                         *)
(* A call that opens a terminal has an identifier of its own and, where    *)
(* presses wait for one another, a name of its own; its program has not    *)
(* been started until it is, and is listed as soon as the call is over.    *)
(* An exit that waits to be applied is of a program that is gone.          *)
(***************************************************************************)
EXTENDS Terminals, SequenceTheorems, TLAPS

-----------------------------------------------------------------------------
(* The registry. *)

\* What the registry always is.
Sound(r) == r \in Registry /\ Ordered(r, r.since) /\ Ordered(r, r.newer)

\* A registry, field by field.
LEMMA RegistryFields ==
    ASSUME NEW r \in Registry
    PROVE  /\ r.status \in [Ids -> Live \cup Finished \cup {"unknown"}]
           /\ r.name \in [Ids -> Names \cup {None}]
           /\ r.since \subseteq Ids \X Ids /\ r.newer \subseteq Ids \X Ids
           /\ r.selected \in Ids \cup {None} /\ r.stopping \subseteq Ids
BY DEF Registry

\* A registry is made of its fields.
LEMMA RegistryMade ==
    ASSUME NEW s \in [Ids -> Live \cup Finished \cup {"unknown"}],
           NEW n \in [Ids -> Names \cup {None}],
           NEW a \in SUBSET (Ids \X Ids), NEW b \in SUBSET (Ids \X Ids),
           NEW x \in Ids \cup {None}, NEW y \in SUBSET Ids
    PROVE  [status |-> s, name |-> n, since |-> a, newer |-> b, selected |-> x, stopping |-> y]
             \in Registry
BY DEF Registry

\* Some member of the set comes last.
LEMMA LatestIsOne ==
    ASSUME NEW S, NEW order, S # {} PROVE Latest(S, order) \in S
<1>1. \E t \in S : (\E u \in S : Last(u, S, order)) => Last(t, S, order)
  <2>1. CASE \E u \in S : Last(u, S, order)
    BY <2>1
  <2>2. CASE ~\E u \in S : Last(u, S, order)
    BY <2>2
  <2> QED
    BY <2>1, <2>2
<1> QED
  BY <1>1, Zenon DEF Latest

\* What one terminal coming last changes in the order of two.
LEMMA AfterIs ==
    ASSUME NEW t, NEW S, NEW order, NEW u, NEW v
    PROVE  <<u, v>> \in After(t, S, order)
             <=> \/ u # t /\ v # t /\ <<u, v>> \in order
                 \/ u = t /\ v # t /\ v \in S
BY DEF After

\* A terminal that comes last among the known comes after each of them.
LEMMA AfterOrders ==
    ASSUME NEW r, NEW q, NEW order, NEW t,
           Ordered(r, order), Known(q) = Known(r) \cup {t}
    PROVE  Ordered(q, After(t, Known(r), order))
<1> SUFFICES ASSUME NEW u \in Known(q), NEW v \in Known(q), u # v
             PROVE  <<u, v>> \in After(t, Known(r), order)
                      <=> <<v, u>> \notin After(t, Known(r), order)
  BY DEF Ordered
<1>1. u \in Known(r) \cup {t} /\ v \in Known(r) \cup {t}
  OBVIOUS
<1>2. CASE u # t /\ v # t
  <2>1. <<u, v>> \in order <=> <<v, u>> \notin order
    BY <1>1, <1>2 DEF Ordered
  <2> QED
    BY <1>2, <2>1, AfterIs
<1>3. CASE u = t
  BY <1>1, <1>3, AfterIs
<1>4. CASE v = t
  BY <1>1, <1>4, AfterIs
<1> QED
  BY <1>2, <1>3, <1>4

\* The order keeps to the identifiers.
LEMMA AfterType ==
    ASSUME NEW t \in Ids, NEW S \in SUBSET Ids, NEW order \in SUBSET (Ids \X Ids)
    PROVE  After(t, S, order) \in SUBSET (Ids \X Ids)
BY DEF After

\* What opening a terminal makes of the registry (SessionRegistry::opened).
LEMMA RecordedIs ==
    ASSUME NEW r, Sound(r), NEW t \in Ids, NEW n \in Names
    PROVE  /\ Sound(Recorded(r, t, n))
           /\ Alive(Recorded(r, t, n)) = Alive(r) \cup {t}
           /\ \A u \in Ids : Recorded(r, t, n).name[u] = IF u = t THEN n ELSE r.name[u]
<1> DEFINE q == Recorded(r, t, n)
<1>1. /\ r.status \in [Ids -> Live \cup Finished \cup {"unknown"}]
      /\ r.name \in [Ids -> Names \cup {None}]
      /\ r.since \subseteq Ids \X Ids /\ r.newer \subseteq Ids \X Ids
      /\ r.stopping \subseteq Ids
  BY RegistryFields DEF Sound
<1>2. /\ q.status = [r.status EXCEPT ![t] = "starting"]
      /\ q.name = [r.name EXCEPT ![t] = n]
      /\ q.since = After(t, Known(r), r.since) /\ q.newer = After(t, Known(r), r.newer)
  BY DEF Recorded
<1>3. Known(r) \subseteq Ids
  BY DEF Known
<1>4. q \in Registry
  <2>1. q.status \in [Ids -> Live \cup Finished \cup {"unknown"}]
    BY <1>1, <1>2 DEF Live
  <2>2. q.name \in [Ids -> Names \cup {None}]
    BY <1>1, <1>2
  <2>3. q.since \in SUBSET (Ids \X Ids) /\ q.newer \in SUBSET (Ids \X Ids)
    BY <1>1, <1>2, <1>3, AfterType
  <2> QED
    BY <1>1, <1>2, <2>1, <2>2, <2>3, RegistryMade DEF Recorded
<1>5. Known(q) = Known(r) \cup {t} /\ Alive(q) = Alive(r) \cup {t}
  BY <1>1, <1>2 DEF Known, Alive, Live
<1>6. Ordered(q, q.since) /\ Ordered(q, q.newer)
  BY <1>2, <1>5, AfterOrders DEF Sound
<1>7. \A u \in Ids : q.name[u] = IF u = t THEN n ELSE r.name[u]
  BY <1>1, <1>2
<1> QED
  BY <1>4, <1>5, <1>6, <1>7 DEF Sound

\* What a report makes of the registry (SessionRegistry::apply): it brings no
\* terminal to life, and after its exit a terminal is not running.
LEMMA AppliedIs ==
    ASSUME NEW r, Sound(r), NEW t \in Ids, NEW kind \in {"output", "exit"}
    PROVE  /\ Sound(Applied(r, t, kind))
           /\ Applied(r, t, kind).name = r.name
           /\ kind = "output" => Alive(Applied(r, t, kind)) = Alive(r)
           /\ kind = "exit" => Alive(Applied(r, t, kind)) = Alive(r) \ {t}
<1> DEFINE q == Applied(r, t, kind)
<1>1. /\ r.status \in [Ids -> Live \cup Finished \cup {"unknown"}]
      /\ r.name \in [Ids -> Names \cup {None}]
      /\ r.since \subseteq Ids \X Ids /\ r.newer \subseteq Ids \X Ids
      /\ r.selected \in Ids \cup {None} /\ r.stopping \subseteq Ids
  BY RegistryFields DEF Sound
<1>2. CASE t \notin Known(r)
  <2>1. q = [status |-> r.status, name |-> r.name, since |-> r.since, newer |-> r.newer,
             selected |-> r.selected, stopping |-> r.stopping \ {t}]
    BY <1>2, Zenon DEF Applied
  <2>2. q \in Registry
    BY <1>1, <2>1, RegistryMade, SMTT(20)
  <2>3. q.status = r.status /\ q.name = r.name /\ q.since = r.since /\ q.newer = r.newer
    BY <2>1
  <2>4. Known(q) = Known(r) /\ Alive(q) = Alive(r) /\ t \notin Alive(r)
    BY <1>2, <2>3 DEF Known, Alive, Live
  <2>5. Ordered(q, q.since) /\ Ordered(q, q.newer)
    BY <2>3, <2>4 DEF Sound, Ordered
  <2> QED
    BY <2>2, <2>3, <2>4, <2>5 DEF Sound
<1>3. CASE t \in Known(r)
  <2>1. q = [status |-> [r.status EXCEPT ![t] = Status(r, t, kind)], name |-> r.name,
             since |-> r.since, newer |-> After(t, Known(r), r.newer),
             selected |-> r.selected, stopping |-> r.stopping \ {t}]
    BY <1>3, Zenon DEF Applied
  <2>2. /\ q.status = [r.status EXCEPT ![t] = Status(r, t, kind)]
        /\ q.name = r.name /\ q.since = r.since
        /\ q.newer = After(t, Known(r), r.newer)
    BY <2>1
  <2>3. /\ Status(r, t, kind) \in Live \cup Finished
        /\ kind = "output" => (Status(r, t, kind) \in Live <=> r.status[t] \in Live)
        /\ kind = "exit" => Status(r, t, kind) \notin Live
    BY <1>1, <1>3 DEF Status, Live, Finished, Known
  <2> HIDE DEF q
  <2>4. q.status \in [Ids -> Live \cup Finished \cup {"unknown"}]
    BY <1>1, <2>2, <2>3
  <2>5. Known(r) \subseteq Ids
    BY DEF Known
  <2>6. q.newer \in SUBSET (Ids \X Ids)
    BY <1>1, <2>2, <2>5, AfterType
  <2>7. q \in Registry
    BY <1>1, <2>1, <2>2, <2>4, <2>6, RegistryMade
  <2>8. Known(q) = Known(r) \cup {t} /\ Known(q) = Known(r)
    BY <1>1, <1>3, <2>2, <2>3 DEF Known, Live, Finished
  <2>9. /\ kind = "output" => Alive(q) = Alive(r)
        /\ kind = "exit" => Alive(q) = Alive(r) \ {t}
    BY <1>1, <2>2, <2>3 DEF Alive
  <2>10. Ordered(q, q.since)
    BY <2>2, <2>8 DEF Sound, Ordered
  <2>11. Ordered(q, q.newer)
    BY <2>2, <2>8, AfterOrders DEF Sound
  <2> QED
    BY <2>2, <2>7, <2>9, <2>10, <2>11 DEF Sound, q
<1> QED
  BY <1>2, <1>3

\* What pruning makes of the registry (SessionRegistry::forget_stale): what is
\* running stays, and keeps its name.
LEMMA PrunedIs ==
    ASSUME NEW r, Sound(r)
    PROVE  /\ Sound(Pruned(r))
           /\ Alive(Pruned(r)) = Alive(r)
           /\ \A t \in Alive(r) : Pruned(r).name[t] = r.name[t]
<1> DEFINE q    == Pruned(r)
           gone == Stale(r)
<1>1. /\ r.status \in [Ids -> Live \cup Finished \cup {"unknown"}]
      /\ r.name \in [Ids -> Names \cup {None}]
      /\ r.since \subseteq Ids \X Ids /\ r.newer \subseteq Ids \X Ids
      /\ r.selected \in Ids \cup {None} /\ r.stopping \subseteq Ids
  BY RegistryFields DEF Sound
<1>2. gone \subseteq Done(r)
  BY DEF Stale
<1>3. q = [status |-> [t \in Ids |-> IF t \in gone THEN "unknown" ELSE r.status[t]],
           name |-> [t \in Ids |-> IF t \in gone THEN None ELSE r.name[t]],
           since |-> {p \in r.since : {p[1], p[2]} \cap gone = {}},
           newer |-> {p \in r.newer : {p[1], p[2]} \cap gone = {}},
           selected |-> Selection(r, gone), stopping |-> r.stopping \ gone]
  BY Zenon DEF Pruned
<1>4. /\ q.status = [t \in Ids |-> IF t \in gone THEN "unknown" ELSE r.status[t]]
      /\ q.name = [t \in Ids |-> IF t \in gone THEN None ELSE r.name[t]]
      /\ q.since = {p \in r.since : {p[1], p[2]} \cap gone = {}}
      /\ q.newer = {p \in r.newer : {p[1], p[2]} \cap gone = {}}
  BY <1>3
<1>5. Selection(r, gone) \in Ids \cup {None}
  <2>1. Alive(r) # {} => Latest(Alive(r), r.newer) \in Alive(r)
    BY LatestIsOne
  <2>2. Alive(r) \subseteq Ids
    BY DEF Alive
  <2>3. /\ r.selected \notin gone => Selection(r, gone) = r.selected
        /\ r.selected \in gone /\ Alive(r) # {} => Selection(r, gone) = Latest(Alive(r), r.newer)
        /\ r.selected \in gone /\ Alive(r) = {} => Selection(r, gone) = None
    BY Zenon DEF Selection
  <2> QED
    BY <1>1, <2>1, <2>2, <2>3
<1> HIDE DEF q, gone
<1>6. q.status \in [Ids -> Live \cup Finished \cup {"unknown"}]
  BY <1>1, <1>4
<1>7. q.name \in [Ids -> Names \cup {None}]
  BY <1>1, <1>4
<1>8. q.since \in SUBSET (Ids \X Ids) /\ q.newer \in SUBSET (Ids \X Ids)
  BY <1>1, <1>4
<1>9. q \in Registry
  BY <1>1, <1>3, <1>4, <1>5, <1>6, <1>7, <1>8, RegistryMade
<1>10. Known(q) = Known(r) \ gone
  BY <1>1, <1>4 DEF Known
<1>11. Done(r) \cap Alive(r) = {}
  BY DEF Done, Alive, Live, Finished
<1>12. Alive(q) = Alive(r)
  <2>1. \A t \in Ids : t \in gone => t \notin Alive(r)
    BY <1>2, <1>11
  <2>2. \A t \in Ids : q.status[t] = IF t \in gone THEN "unknown" ELSE r.status[t]
    BY <1>4
  <2> QED
    BY <2>1, <2>2 DEF Alive, Live
<1>13. \A t \in Alive(r) : q.name[t] = r.name[t]
  BY <1>2, <1>4, <1>11 DEF Alive
<1>14. \A order : Ordered(r, order) => Ordered(q, {p \in order : {p[1], p[2]} \cap gone = {}})
  <2> SUFFICES ASSUME NEW order, Ordered(r, order),
                      NEW t \in Known(q), NEW u \in Known(q), t # u
               PROVE  LET kept == {p \in order : {p[1], p[2]} \cap gone = {}}
                      IN  <<t, u>> \in kept <=> <<u, t>> \notin kept
    BY DEF Ordered
  <2>1. t \in Known(r) /\ u \in Known(r) /\ t \notin gone /\ u \notin gone
    BY <1>10
  <2>2. <<t, u>> \in order <=> <<u, t>> \notin order
    BY <2>1 DEF Ordered
  <2> QED
    BY <2>1, <2>2
<1>15. Ordered(q, q.since) /\ Ordered(q, q.newer)
  BY <1>4, <1>14 DEF Sound
<1> QED
  BY <1>9, <1>12, <1>13, <1>15 DEF Sound, q

\* What marking and selecting leave alone.
LEMMA MarkedIs ==
    ASSUME NEW r, Sound(r), NEW t
    PROVE  /\ Sound(Marked(r, t)) /\ Alive(Marked(r, t)) = Alive(r)
           /\ Marked(r, t).name = r.name
<1> DEFINE q == Marked(r, t)
<1>1. Known(r) \subseteq Ids
  BY DEF Known
<1>2. q \in Registry
  BY <1>1, RegistryFields, RegistryMade DEF Sound, Marked
<1>3. q.status = r.status /\ q.name = r.name /\ q.since = r.since /\ q.newer = r.newer
  BY DEF Marked
<1> HIDE DEF q
<1> QED
  BY <1>2, <1>3 DEF Sound, Ordered, Known, Alive, q

\* The same of selecting.
LEMMA SelectingIs ==
    ASSUME NEW r, Sound(r), NEW t \in Ids \cup {None}
    PROVE  /\ Sound(Selecting(r, t)) /\ Alive(Selecting(r, t)) = Alive(r)
           /\ Selecting(r, t).name = r.name
<1> DEFINE q == Selecting(r, t)
<1>1. q \in Registry
  BY RegistryFields, RegistryMade DEF Sound, Selecting
<1>2. q.status = r.status /\ q.name = r.name /\ q.since = r.since /\ q.newer = r.newer
  BY DEF Selecting
<1> HIDE DEF q
<1> QED
  BY <1>1, <1>2 DEF Sound, Ordered, Known, Alive, q

\* What a target resolves to is a terminal, or nothing.
LEMMA ResolveType ==
    ASSUME NEW r, Sound(r), NEW target
    PROVE  Resolve(r, target) \in Ids \cup {None}
<1>1. Known(r) \subseteq Ids /\ r.selected \in Ids \cup {None}
  BY RegistryFields DEF Sound, Known
<1>2. \A n : Called(r, n) \in Ids \cup {None}
  <2> TAKE n
  <2> DEFINE those == {t \in Known(r) : r.name[t] = n}
             live  == those \cap Alive(r)
  <2>1. those \subseteq Ids /\ live \subseteq Ids
    BY <1>1
  <2>2. /\ live # {} => Called(r, n) = Latest(live, r.since)
        /\ live = {} /\ those # {} => Called(r, n) = Latest(those, r.since)
        /\ live = {} /\ those = {} => Called(r, n) = None
    BY Zenon DEF Called
  <2>3. /\ live # {} => Latest(live, r.since) \in live
        /\ those # {} => Latest(those, r.since) \in those
    BY LatestIsOne
  <2> HIDE DEF those, live
  <2> QED
    BY <2>1, <2>2, <2>3
<1>3. Resolve(r, target) \in {Called(r, target), target, r.selected, None}
      /\ (Resolve(r, target) = target => target \in Known(r) \cup {Called(r, target), r.selected, None})
  BY Zenon DEF Resolve
<1> QED
  BY <1>1, <1>2, <1>3

-----------------------------------------------------------------------------
(* The invariants. *)

\* The places where a call is opening a terminal.
Early   == {"ask", "start"}
OpensAt == {"ask", "start", "record"}

\* What a call opens is a terminal nobody else opens, called something.
Openings ==
    /\ \A c \in Calls : pc[c] \in OpensAt => id[c] \in Ids /\ wants[c] \in Names
    /\ \A c, d \in Calls : pc[c] \in OpensAt /\ pc[d] \in OpensAt /\ id[c] = id[d] => c = d
    /\ \A c \in Calls : pc[c] \in Early => program[id[c]] = "none"
    /\ \A c \in Calls : pc[c] \notin OpensAt => wants[c] = None

Shape == TypeOK /\ Openings

\* Nobody opens what is running, and nobody opens what somebody opens.
Sole ==
    /\ OneOfAName
    /\ \A c \in Calls : pc[c] \in OpensAt => \A t \in Alive(reg) : reg.name[t] # wants[c]
    /\ \A c, d \in Calls : pc[c] \in OpensAt /\ pc[d] \in OpensAt /\ wants[c] = wants[d] => c = d

\* The call that will list a terminal.
Recording(t) == \E c \in Calls : pc[c] = "record" /\ id[c] = t

\* What the host holds is listed, and only what is gone is said to have ended.
Listed ==
    /\ \A i \in 1..Len(reports) : reports[i][2] = "exit" => program[reports[i][1]] = "reported"
    /\ stage = "up" => \A t \in Hosted : t \in Alive(reg) \/ Recording(t)

\* What is listed as running is running, or its exit is on its way.
Running ==
    /\ \A c \in Calls : pc[c] = "record" => program[id[c]] = "runs"
    /\ stage = "up" =>
         \A t \in Alive(reg) : \/ program[t] \in {"runs", "ended", "reaped"}
                               \/ \E i \in 1..Len(reports) : reports[i] = <<t, "exit">>

\* PushOS stops when nothing is being opened, and ends what runs.
Leaving ==
    stage # "up" =>
      /\ \A c \in Calls : pc[c] \notin OpensAt
      /\ \A t \in Ids : program[t] = "runs" => t \in killed \/ (stage = "ending" /\ t \in doomed)
-----------------------------------------------------------------------------
(* Types. *)

\* What the other variables are.
Places   == {"idle", "ask", "start", "record", "mark", "kill"}
Programs == {"none", "runs", "ended", "reaped", "reported"}
Reports  == Ids \X {"output", "exit"}

\* The types, with the registry told apart.
LEMMA TypeParts ==
    TypeOK <=> /\ Sound(reg)
               /\ program \in [Ids -> Programs] /\ killed \subseteq Ids
               /\ reports \in Seq(Reports)
               /\ pc \in [Calls -> Places] /\ wants \in [Calls -> Names \cup {None}]
               /\ id \in [Calls -> Ids \cup {None}]
               /\ stage \in {"up", "ending", "down"} /\ doomed \subseteq Ids
BY Zenon DEF TypeOK, Sound, Programs, Reports, Places

\* The same of the next state.
LEMMA TypePartsNext ==
    TypeOK' <=> /\ Sound(reg')
                /\ program' \in [Ids -> Programs] /\ killed' \subseteq Ids
                /\ reports' \in Seq(Reports)
                /\ pc' \in [Calls -> Places] /\ wants' \in [Calls -> Names \cup {None}]
                /\ id' \in [Calls -> Ids \cup {None}]
                /\ stage' \in {"up", "ending", "down"} /\ doomed' \subseteq Ids
BY Zenon DEF TypeOK, Sound, Programs, Reports, Places, Ordered, Known

\* Where a call goes.
LEMMA GoesIs ==
    ASSUME pc \in [Calls -> Places], wants \in [Calls -> Names \cup {None}],
           id \in [Calls -> Ids \cup {None}],
           NEW c \in Calls, NEW at \in Places, NEW t \in Ids \cup {None},
           NEW n \in Names \cup {None}, Goes(c, at, t, n)
    PROVE  /\ pc' \in [Calls -> Places] /\ wants' \in [Calls -> Names \cup {None}]
           /\ id' \in [Calls -> Ids \cup {None}]
           /\ \A d \in Calls : /\ pc'[d] = IF d = c THEN at ELSE pc[d]
                               /\ wants'[d] = IF d = c THEN n ELSE wants[d]
                               /\ id'[d] = IF d = c THEN t ELSE id[d]
BY DEF Goes

\* A call comes to rest.
LEMMA RestsIs ==
    ASSUME pc \in [Calls -> Places], wants \in [Calls -> Names \cup {None}],
           id \in [Calls -> Ids \cup {None}], NEW c \in Calls, Rests(c)
    PROVE  /\ pc' \in [Calls -> Places] /\ wants' \in [Calls -> Names \cup {None}]
           /\ id' \in [Calls -> Ids \cup {None}]
           /\ \A d \in Calls : /\ pc'[d] = IF d = c THEN "idle" ELSE pc[d]
                               /\ wants'[d] = IF d = c THEN None ELSE wants[d]
                               /\ id'[d] = IF d = c THEN None ELSE id[d]
BY DEF Rests, Goes, Places

\* The thread that reads a terminal adds one report, while the runtime listens.
LEMMA ObserveIs ==
    ASSUME reports \in Seq(Reports), NEW t \in Ids, NEW kind \in {"output", "exit"},
           Observe(t, kind)
    PROVE  /\ reports' \in Seq(Reports)
           /\ \A i \in 1..Len(reports) : i \in 1..Len(reports') /\ reports'[i] = reports[i]
           /\ \A i \in 1..Len(reports') : i \in 1..Len(reports) \/ reports'[i] = <<t, kind>>
           /\ stage = "up" => \E i \in 1..Len(reports') : reports'[i] = <<t, kind>>
<1> DEFINE e == <<t, kind>>
<1>1. e \in Reports
  BY DEF Reports
<1> HIDE DEF e
<1>2. CASE stage = "up"
  <2>1. reports' = Append(reports, e)
    BY <1>2, Zenon DEF Observe, e
  <2>2. /\ Append(reports, e) \in Seq(Reports) /\ Len(Append(reports, e)) = Len(reports) + 1
        /\ Append(reports, e)[Len(reports) + 1] = e
    BY <1>1, AppendProperties
  <2>3. ASSUME NEW i \in 1..Len(reports) PROVE Append(reports, e)[i] = reports[i]
    BY <1>1, <2>3, AppendProperties
  <2>4. Len(reports) \in Nat
    BY LenProperties
  <2>5. 1..Len(reports') = 1..Len(reports) \cup {Len(reports) + 1}
    <3>1. \A m \in Nat : 1..(m + 1) = 1..m \cup {m + 1}
      OBVIOUS
    <3> QED
      BY <2>1, <2>2, <2>4, <3>1
  <2>6. \A i \in 1..Len(reports) : reports'[i] = reports[i]
    BY <2>1, <2>3
  <2>7. reports'[Len(reports) + 1] = e
    BY <2>1, <2>2
  <2>8. reports' \in Seq(Reports)
    BY <2>1, <2>2
  <2> QED
    BY <2>5, <2>6, <2>7, <2>8, Zenon DEF e
<1>3. CASE stage # "up"
  <2>1. reports' = reports
    BY <1>3, Zenon DEF Observe
  <2> QED
    BY <1>3, <2>1
<1> QED
  BY <1>2, <1>3

\* The first report, and those that wait behind it.
LEMMA FirstReport ==
    ASSUME reports \in Seq(Reports), reports # <<>>
    PROVE  /\ Head(reports) \in Reports /\ Tail(reports) \in Seq(Reports)
           /\ \E i \in 1..Len(reports) : reports[i] = Head(reports)
           /\ \A i \in 1..Len(reports) :
                reports[i] = Head(reports) \/ \E j \in 1..Len(Tail(reports)) : Tail(reports)[j] = reports[i]
           /\ \A j \in 1..Len(Tail(reports)) : \E i \in 1..Len(reports) : Tail(reports)[j] = reports[i]
<1>1. /\ Head(reports) \in Reports /\ Tail(reports) \in Seq(Reports)
      /\ Len(Tail(reports)) = Len(reports) - 1 /\ Head(reports) = reports[1]
      /\ \A j \in 1..Len(Tail(reports)) : Tail(reports)[j] = reports[j + 1]
  BY HeadTailProperties
<1>2. Len(reports) \in Nat /\ Len(reports) # 0
  BY EmptySeq, LenProperties
<1>3. 1 \in 1..Len(reports)
  BY <1>2
<1>4. \A i \in 1..Len(reports) : i = 1 \/ (i - 1 \in 1..Len(Tail(reports)) /\ (i - 1) + 1 = i)
  BY <1>1, <1>2
<1>5. \A j \in 1..Len(Tail(reports)) : j + 1 \in 1..Len(reports)
  BY <1>1, <1>2
<1> QED
  BY <1>1, <1>3, <1>4, <1>5

\* A report, taken apart.
LEMMA ReportParts ==
    ASSUME NEW e \in Reports
    PROVE  e[1] \in Ids /\ e[2] \in {"output", "exit"} /\ e = <<e[1], e[2]>>
BY DEF Reports

-----------------------------------------------------------------------------
(* The calls. *)

\* The places are what they are called.
LEMMA PlacesTold ==
    /\ OpensAt \subseteq Places /\ Early \subseteq OpensAt
    /\ "idle" \notin OpensAt /\ "mark" \notin OpensAt /\ "kill" \notin OpensAt
    /\ "ask" \in Early /\ "start" \in Early /\ "record" \in OpensAt /\ "record" \notin Early
    /\ OpensAt = Early \cup {"record"}
    /\ {"idle", "mark", "kill"} \subseteq Places
BY DEF OpensAt, Early, Places

\* What a call is about is not confused by a call that opens nothing.
LEMMA OpenNothing ==
    ASSUME Openings, program' = program, NEW c \in Calls, NEW at, at \notin OpensAt, NEW t,
           \A d \in Calls : /\ pc'[d] = IF d = c THEN at ELSE pc[d]
                            /\ wants'[d] = IF d = c THEN None ELSE wants[d]
                            /\ id'[d] = IF d = c THEN t ELSE id[d]
    PROVE  Openings'
<1>1. at \notin Early
  BY PlacesTold
<1> QED
  BY <1>1 DEF Openings

\* Nor by a program that was started and goes on.
LEMMA OpenAsBefore ==
    ASSUME Openings, UNCHANGED calls, \A t \in Ids : program[t] = "none" => program'[t] = "none"
    PROVE  Openings'
<1>1. pc' = pc /\ wants' = wants /\ id' = id
  BY DEF calls
<1>2. \A c \in Calls : pc[c] \in Early => id[c] \in Ids /\ program[id[c]] = "none"
  BY PlacesTold DEF Openings
<1> QED
  BY <1>1, <1>2 DEF Openings

\* A call starts with a terminal nobody has.
LEMMA OpenShape ==
    ASSUME Shape, NEW c \in Calls, NEW n \in Names, Open(c, n)
    PROVE  Shape'
<1>1. PICK t \in Ids : Fresh(t) /\ Goes(c, "ask", t, n)
  BY Zenon DEF Open
<1>2. UNCHANGED <<reg, host, stage, doomed>>
  BY Zenon DEF Open
<1>3. /\ reg' = reg /\ program' = program /\ killed' = killed /\ reports' = reports
      /\ stage' = stage /\ doomed' = doomed
  BY <1>2 DEF host
<1>4. "ask" \in Places /\ t \in Ids \cup {None} /\ n \in Names \cup {None}
  BY PlacesTold
<1>5. /\ pc \in [Calls -> Places] /\ wants \in [Calls -> Names \cup {None}]
      /\ id \in [Calls -> Ids \cup {None}]
  BY TypeParts DEF Shape
<1>6. /\ pc' \in [Calls -> Places] /\ wants' \in [Calls -> Names \cup {None}]
      /\ id' \in [Calls -> Ids \cup {None}]
      /\ \A d \in Calls : /\ pc'[d] = IF d = c THEN "ask" ELSE pc[d]
                          /\ wants'[d] = IF d = c THEN n ELSE wants[d]
                          /\ id'[d] = IF d = c THEN t ELSE id[d]
  BY <1>1, <1>4, <1>5, GoesIs
<1>7. TypeOK'
  BY <1>3, <1>6, TypeParts, TypePartsNext DEF Shape
<1>8. program[t] = "none" /\ \A d \in Calls : id[d] # t
  BY <1>1 DEF Fresh
<1>9. Openings'
  BY <1>3, <1>6, <1>8, PlacesTold DEF Openings, Shape
<1> QED
  BY <1>7, <1>9 DEF Shape

\* The host is asked, and either there is room or the call is over.
LEMMA AskShape ==
    ASSUME Shape, NEW c \in Calls, Ask(c)
    PROVE  Shape'
<1>1. UNCHANGED <<reg, host, stage, doomed>> /\ pc[c] = "ask"
  BY Zenon DEF Ask
<1>2. /\ reg' = reg /\ program' = program /\ killed' = killed /\ reports' = reports
      /\ stage' = stage /\ doomed' = doomed
  BY <1>1 DEF host
<1>3. /\ pc \in [Calls -> Places] /\ wants \in [Calls -> Names \cup {None}]
      /\ id \in [Calls -> Ids \cup {None}]
  BY TypeParts DEF Shape
<1>4. CASE Room
  <2>1. Goes(c, "start", id[c], wants[c])
    BY <1>4, Zenon DEF Ask
  <2>2. "start" \in Places /\ id[c] \in Ids \cup {None} /\ wants[c] \in Names \cup {None}
    BY <1>3, PlacesTold
  <2>3. /\ pc' \in [Calls -> Places] /\ wants' \in [Calls -> Names \cup {None}]
        /\ id' \in [Calls -> Ids \cup {None}]
        /\ \A d \in Calls : /\ pc'[d] = IF d = c THEN "start" ELSE pc[d]
                            /\ wants'[d] = IF d = c THEN wants[c] ELSE wants[d]
                            /\ id'[d] = IF d = c THEN id[c] ELSE id[d]
    BY <1>3, <2>1, <2>2, GoesIs
  <2>4. TypeOK'
    BY <1>2, <2>3, TypeParts, TypePartsNext DEF Shape
  <2>5. Openings'
    BY <1>1, <1>2, <2>3, PlacesTold DEF Openings, Shape
  <2> QED
    BY <2>4, <2>5 DEF Shape
<1>5. CASE ~Room
  <2>1. Rests(c)
    BY <1>5, Zenon DEF Ask
  <2>2. TypeOK'
    BY <1>2, <1>3, <2>1, RestsIs, TypeParts, TypePartsNext DEF Shape
  <2>3. Openings'
    BY <1>2, <1>3, <2>1, RestsIs, OpenNothing, PlacesTold DEF Shape
  <2> QED
    BY <2>2, <2>3 DEF Shape
<1> QED
  BY <1>4, <1>5

\* The program is started: it is of no other call.
LEMMA StartShape ==
    ASSUME Shape, NEW c \in Calls, Start(c)
    PROVE  /\ Shape' /\ id[c] \in Ids /\ program[id[c]] = "none"
           /\ \A t \in Ids : program'[t] = IF t = id[c] THEN "runs" ELSE program[t]
           /\ \A d \in Calls : /\ pc'[d] = IF d = c THEN "record" ELSE pc[d]
                               /\ wants'[d] = wants[d] /\ id'[d] = id[d]
<1>1. /\ UNCHANGED <<reg, killed, reports, stage, doomed>> /\ pc[c] = "start"
      /\ program' = [program EXCEPT ![id[c]] = "runs"]
      /\ Goes(c, "record", id[c], wants[c])
  BY Zenon DEF Start
<1>2. /\ reg' = reg /\ killed' = killed /\ reports' = reports
      /\ stage' = stage /\ doomed' = doomed
  BY <1>1
<1>3. /\ pc \in [Calls -> Places] /\ wants \in [Calls -> Names \cup {None}]
      /\ id \in [Calls -> Ids \cup {None}] /\ program \in [Ids -> Programs]
  BY TypeParts DEF Shape
<1>4. "record" \in Places /\ id[c] \in Ids \cup {None} /\ wants[c] \in Names \cup {None}
  BY <1>3, PlacesTold
<1>5. /\ pc' \in [Calls -> Places] /\ wants' \in [Calls -> Names \cup {None}]
      /\ id' \in [Calls -> Ids \cup {None}]
      /\ \A d \in Calls : /\ pc'[d] = IF d = c THEN "record" ELSE pc[d]
                          /\ wants'[d] = IF d = c THEN wants[c] ELSE wants[d]
                          /\ id'[d] = IF d = c THEN id[c] ELSE id[d]
  BY <1>1, <1>3, <1>4, GoesIs
<1>6. id[c] \in Ids /\ program[id[c]] = "none"
  BY <1>1, PlacesTold DEF Shape, Openings
<1>7. /\ program' \in [Ids -> Programs]
      /\ \A t \in Ids : program'[t] = IF t = id[c] THEN "runs" ELSE program[t]
  BY <1>1, <1>3, <1>6 DEF Programs
<1>8. TypeOK'
  BY <1>2, <1>5, <1>7, TypeParts, TypePartsNext DEF Shape
<1>9. Openings'
  <2>1. \A d \in Calls : pc[d] \in OpensAt => id[d] \in Ids /\ (d # c => id[d] # id[c])
    BY <1>1, PlacesTold DEF Shape, Openings
  <2> QED
    BY <1>1, <1>5, <1>7, <2>1, PlacesTold DEF Openings, Shape
<1> QED
  BY <1>5, <1>6, <1>7, <1>8, <1>9 DEF Shape

\* A call is over, whatever it did to the registry and the killers.
LEMMA RestShape ==
    ASSUME Shape, NEW c \in Calls, Rests(c), Sound(reg'), killed' \subseteq Ids,
           program' = program, reports' = reports, stage' = stage, doomed' = doomed
    PROVE  Shape'
<1>1. /\ pc \in [Calls -> Places] /\ wants \in [Calls -> Names \cup {None}]
      /\ id \in [Calls -> Ids \cup {None}]
  BY TypeParts DEF Shape
<1>2. /\ pc' \in [Calls -> Places] /\ wants' \in [Calls -> Names \cup {None}]
      /\ id' \in [Calls -> Ids \cup {None}]
      /\ \A d \in Calls : /\ pc'[d] = IF d = c THEN "idle" ELSE pc[d]
                          /\ wants'[d] = IF d = c THEN None ELSE wants[d]
                          /\ id'[d] = IF d = c THEN None ELSE id[d]
  BY <1>1, RestsIs
<1>3. TypeOK'
  BY <1>2, TypeParts, TypePartsNext DEF Shape
<1>4. Openings'
  BY <1>2, OpenNothing, PlacesTold DEF Shape
<1> QED
  BY <1>3, <1>4 DEF Shape

\* A call goes on to end a terminal.
LEMMA CloseShape ==
    ASSUME Shape, NEW c \in Calls, NEW at \in {"mark", "kill"}, NEW t \in Ids \cup {None},
           Goes(c, at, t, None), Sound(reg'), killed' = killed,
           program' = program, reports' = reports, stage' = stage, doomed' = doomed
    PROVE  Shape'
<1>1. /\ pc \in [Calls -> Places] /\ wants \in [Calls -> Names \cup {None}]
      /\ id \in [Calls -> Ids \cup {None}]
  BY TypeParts DEF Shape
<1>2. at \in Places /\ at \notin OpensAt /\ None \in Names \cup {None}
  BY PlacesTold
<1>3. /\ pc' \in [Calls -> Places] /\ wants' \in [Calls -> Names \cup {None}]
      /\ id' \in [Calls -> Ids \cup {None}]
      /\ \A d \in Calls : /\ pc'[d] = IF d = c THEN at ELSE pc[d]
                          /\ wants'[d] = IF d = c THEN None ELSE wants[d]
                          /\ id'[d] = IF d = c THEN t ELSE id[d]
  BY <1>1, <1>2, GoesIs
<1>4. TypeOK'
  BY <1>3, TypeParts, TypePartsNext DEF Shape
<1>5. Openings'
  BY <1>2, <1>3, OpenNothing DEF Shape
<1> QED
  BY <1>4, <1>5 DEF Shape

\* No call takes a step.
LEMMA StillShape ==
    ASSUME Shape, UNCHANGED calls, Sound(reg'), killed' \subseteq Ids,
           program' \in [Ids -> Programs], reports' \in Seq(Reports),
           stage' \in {"up", "ending", "down"}, doomed' \subseteq Ids,
           \A t \in Ids : program[t] = "none" => program'[t] = "none"
    PROVE  Shape'
<1>1. pc' = pc /\ wants' = wants /\ id' = id
  BY DEF calls
<1>2. TypeOK'
  BY <1>1, TypeParts, TypePartsNext DEF Shape
<1>3. Openings'
  BY OpenAsBefore DEF Shape
<1> QED
  BY <1>2, <1>3 DEF Shape

\* What recording makes of the registry.
LEMMA RecordIs ==
    ASSUME Shape, NEW c \in Calls, Record(c)
    PROVE  /\ id[c] \in Ids /\ Sound(reg')
           /\ Alive(reg') = Alive(reg) \cup {id[c]}
           /\ \A t \in Alive(reg') : reg'.name[t] = IF t = id[c] THEN wants[c] ELSE reg.name[t]
<1>1. pc[c] = "record" /\ reg' = Pruned(Recorded(reg, id[c], wants[c]))
  BY Zenon DEF Record
<1>2. id[c] \in Ids /\ wants[c] \in Names
  BY <1>1, PlacesTold DEF Shape, Openings
<1>3. Sound(reg)
  BY TypeParts DEF Shape
<1> DEFINE r == Recorded(reg, id[c], wants[c])
<1>4. /\ Sound(r) /\ Alive(r) = Alive(reg) \cup {id[c]}
      /\ \A u \in Ids : r.name[u] = IF u = id[c] THEN wants[c] ELSE reg.name[u]
  BY <1>2, <1>3, RecordedIs
<1> HIDE DEF r
<1>5. /\ Sound(Pruned(r)) /\ Alive(Pruned(r)) = Alive(r)
      /\ \A t \in Alive(r) : Pruned(r).name[t] = r.name[t]
  BY <1>4, PrunedIs
<1>6. reg' = Pruned(r)
  BY <1>1 DEF r
<1>7. Alive(r) \subseteq Ids
  BY DEF Alive
<1> QED
  BY <1>2, <1>4, <1>5, <1>6, <1>7

\* What applying a report makes of it.
LEMMA ApplyIs ==
    ASSUME Shape, Apply
    PROVE  /\ Sound(reg') /\ stage = "up" /\ reports # <<>> /\ reports' = Tail(reports)
           /\ Head(reports) \in Reports
           /\ Head(reports)[2] = "output" => Alive(reg') = Alive(reg)
           /\ Head(reports)[2] = "exit" => Alive(reg') = Alive(reg) \ {Head(reports)[1]}
           /\ \A t \in Alive(reg') : reg'.name[t] = reg.name[t]
<1> DEFINE t    == Head(reports)[1]
           kind == Head(reports)[2]
           r    == Applied(reg, t, kind)
<1>1. /\ stage = "up" /\ reports # <<>> /\ reports' = Tail(reports)
      /\ reg' = IF kind = "exit" THEN Pruned(r) ELSE r
  BY Zenon DEF Apply
<1>2. Sound(reg) /\ reports \in Seq(Reports)
  BY TypeParts DEF Shape
<1>3. Head(reports) \in Reports
  BY <1>1, <1>2, FirstReport
<1>4. t \in Ids /\ kind \in {"output", "exit"}
  BY <1>3, ReportParts
<1>5. /\ Sound(r) /\ r.name = reg.name
      /\ kind = "output" => Alive(r) = Alive(reg)
      /\ kind = "exit" => Alive(r) = Alive(reg) \ {t}
  BY <1>2, <1>4, AppliedIs
<1> HIDE DEF r, t, kind
<1>6. /\ Sound(Pruned(r)) /\ Alive(Pruned(r)) = Alive(r)
      /\ \A u \in Alive(r) : Pruned(r).name[u] = r.name[u]
  BY <1>5, PrunedIs
<1>7. CASE kind = "exit"
  <2>1. reg' = Pruned(r)
    BY <1>1, <1>7
  <2> QED
    BY <1>1, <1>3, <1>5, <1>6, <1>7, <2>1 DEF t, kind
<1>8. CASE kind = "output"
  <2>1. reg' = r
    BY <1>1, <1>8
  <2> QED
    BY <1>1, <1>3, <1>5, <1>8, <2>1 DEF t, kind
<1> QED
  BY <1>4, <1>7, <1>8

\* What a program that goes from one state to the next leaves alone.
LEMMA ProgramIs ==
    ASSUME Shape, NEW t \in Ids, NEW before \in Programs, NEW after \in Programs,
           program[t] = before, program' = [program EXCEPT ![t] = after],
           before # "none"
    PROVE  /\ program' \in [Ids -> Programs]
           /\ \A u \in Ids : program'[u] = IF u = t THEN after ELSE program[u]
           /\ \A u \in Ids : program[u] = "none" => program'[u] = "none"
<1>1. program \in [Ids -> Programs]
  BY TypeParts DEF Shape
<1> QED
  BY <1>1

\* The registry starts empty, and no call is under way.
LEMMA ShapeInit == Init => Shape
<1> SUFFICES ASSUME Init PROVE Shape
  OBVIOUS
<1>1. /\ program = [t \in Ids |-> "none"] /\ killed = {} /\ reports = <<>>
      /\ pc = [c \in Calls |-> "idle"] /\ wants = [c \in Calls |-> None]
      /\ id = [c \in Calls |-> None] /\ stage = "up" /\ doomed = {}
      /\ reg = [status |-> [t \in Ids |-> "unknown"], name |-> [t \in Ids |-> None],
                since |-> {}, newer |-> {}, selected |-> None, stopping |-> {}]
  BY Zenon DEF Init
<1>2. <<>> \in Seq(Reports)
  BY EmptySeq
<1>3. reg \in Registry
  BY <1>1, RegistryMade
<1>4. Known(reg) = {}
  BY <1>1 DEF Known
<1>5. Sound(reg)
  BY <1>3, <1>4 DEF Sound, Ordered
<1>6. TypeOK
  BY <1>1, <1>2, <1>5, TypeParts DEF Programs, Places
<1>7. Openings
  BY <1>1, PlacesTold DEF Openings
<1> QED
  BY <1>6, <1>7 DEF Shape

\* The types, and what a call has to itself, are kept by every step.
LEMMA ShapeNext == Shape /\ [Next]_vars => Shape'
<1> SUFFICES ASSUME Shape, [Next]_vars PROVE Shape'
  OBVIOUS
<1>1. /\ Sound(reg) /\ killed \subseteq Ids /\ program \in [Ids -> Programs]
      /\ reports \in Seq(Reports) /\ id \in [Calls -> Ids \cup {None}]
      /\ stage \in {"up", "ending", "down"} /\ doomed \subseteq Ids
  BY TypeParts DEF Shape
<1>2. ASSUME NEW c \in Calls, NEW n \in Names, Reuse(c, n) PROVE Shape'
  <2>1. reg' = Selecting(reg, Called(reg, n)) /\ UNCHANGED <<host, calls, stage, doomed>>
    BY <1>2, Zenon DEF Reuse
  <2>2. Resolve(reg, n) = Called(reg, n)
    BY <1>2, Zenon DEF Resolve
  <2>3. Called(reg, n) \in Ids \cup {None}
    BY <1>1, <2>2, ResolveType
  <2>4. Sound(reg')
    BY <1>1, <2>1, <2>3, SelectingIs
  <2>5. /\ program' = program /\ killed' = killed /\ reports' = reports /\ UNCHANGED calls
        /\ stage' = stage /\ doomed' = doomed
    BY <2>1 DEF host
  <2> QED
    BY <1>1, <2>4, <2>5, StillShape
<1>3. ASSUME NEW c \in Calls, StartFails(c) PROVE Shape'
  BY <1>1, <1>3, RestShape DEF StartFails, host
<1>4. ASSUME NEW c \in Calls, Record(c) PROVE Shape'
  <2>1. Rests(c) /\ UNCHANGED <<host, stage, doomed>>
    BY <1>4, Zenon DEF Record
  <2> QED
    BY <1>1, <1>4, <2>1, RecordIs, RestShape DEF host
<1>5. ASSUME NEW c \in Calls, NEW target, Close(c, target) PROVE Shape'
  <2>1. /\ Goes(c, "mark", Resolve(reg, target), None)
        /\ UNCHANGED <<reg, host, stage, doomed>>
    BY <1>5, Zenon DEF Close
  <2>2. Resolve(reg, target) \in Ids \cup {None}
    BY <1>1, ResolveType
  <2>3. /\ reg' = reg /\ program' = program /\ killed' = killed /\ reports' = reports
        /\ stage' = stage /\ doomed' = doomed
    BY <2>1 DEF host
  <2> QED
    BY <1>1, <2>1, <2>2, <2>3, CloseShape
<1>6. ASSUME NEW c \in Calls, Mark(c) PROVE Shape'
  <2>1. /\ Goes(c, "kill", id[c], None) /\ UNCHANGED <<host, stage, doomed>>
        /\ reg' = Marked(reg, id[c])
    BY <1>6, Zenon DEF Mark
  <2>2. id[c] \in Ids \cup {None} /\ Sound(reg')
    BY <1>1, <2>1, MarkedIs
  <2>3. /\ program' = program /\ killed' = killed /\ reports' = reports
        /\ stage' = stage /\ doomed' = doomed
    BY <2>1 DEF host
  <2> QED
    BY <1>1, <2>1, <2>2, <2>3, CloseShape
<1>7. ASSUME NEW c \in Calls, Kill(c) PROVE Shape'
  <2>1. /\ Kills(id[c]) /\ Rests(c) /\ reg' = reg /\ program' = program
        /\ reports' = reports /\ stage' = stage /\ doomed' = doomed
    BY <1>7 DEF Kill
  <2>2. killed' \subseteq Ids
    BY <1>1, <2>1 DEF Kills, Hosted
  <2> QED
    BY <1>1, <2>1, <2>2, RestShape
<1>8. ASSUME NEW c \in Calls, Dropped(c) PROVE Shape'
  <2>1. Rests(c) /\ UNCHANGED <<reg, host, stage, doomed>>
    BY <1>8, Zenon DEF Dropped
  <2> QED
    BY <1>1, <2>1, RestShape DEF host
<1>9. ASSUME NEW target, Select(target) PROVE Shape'
  <2>1. /\ reg' = Selecting(reg, Resolve(reg, target))
        /\ UNCHANGED <<host, calls, stage, doomed>>
    BY <1>9, Zenon DEF Select
  <2>2. Sound(reg')
    BY <1>1, <2>1, ResolveType, SelectingIs
  <2>3. /\ program' = program /\ killed' = killed /\ reports' = reports /\ UNCHANGED calls
        /\ stage' = stage /\ doomed' = doomed
    BY <2>1 DEF host
  <2> QED
    BY <1>1, <2>2, <2>3, StillShape
<1>10. ASSUME NEW t \in Ids, Say(t) PROVE Shape'
  <2>1. Observe(t, "output") /\ UNCHANGED <<reg, program, killed, calls, stage, doomed>>
    BY <1>10, Zenon DEF Say
  <2>2. reports' \in Seq(Reports)
    BY <1>1, <2>1, ObserveIs
  <2> QED
    BY <1>1, <2>1, <2>2, StillShape
<1>11. ASSUME NEW t \in Ids, End(t) PROVE Shape'
  <2>1. /\ program[t] = "runs" /\ program' = [program EXCEPT ![t] = "ended"]
        /\ UNCHANGED <<reg, killed, reports, calls, stage, doomed>>
    BY <1>11, Zenon DEF End
  <2>2. {"runs", "ended"} \subseteq Programs
    BY DEF Programs
  <2>3. /\ program' \in [Ids -> Programs]
        /\ \A u \in Ids : program[u] = "none" => program'[u] = "none"
    BY <2>1, <2>2, ProgramIs
  <2> QED
    BY <1>1, <2>1, <2>3, StillShape
<1>12. ASSUME NEW t \in Ids, Reap(t) PROVE Shape'
  <2>1. /\ program[t] = "ended" /\ program' = [program EXCEPT ![t] = "reaped"]
        /\ UNCHANGED <<reg, killed, reports, calls, stage, doomed>>
    BY <1>12, Zenon DEF Reap
  <2>2. {"ended", "reaped"} \subseteq Programs
    BY DEF Programs
  <2>3. /\ program' \in [Ids -> Programs]
        /\ \A u \in Ids : program[u] = "none" => program'[u] = "none"
    BY <2>1, <2>2, ProgramIs
  <2> QED
    BY <1>1, <2>1, <2>3, StillShape
<1>13. ASSUME NEW t \in Ids, Report(t) PROVE Shape'
  <2>1. /\ program[t] = "reaped" /\ program' = [program EXCEPT ![t] = "reported"]
        /\ Observe(t, "exit")
        /\ UNCHANGED <<reg, killed, calls, stage, doomed>>
    BY <1>13, Zenon DEF Report
  <2>2. {"reaped", "reported"} \subseteq Programs
    BY DEF Programs
  <2>3. /\ program' \in [Ids -> Programs]
        /\ \A u \in Ids : program[u] = "none" => program'[u] = "none"
    BY <2>1, <2>2, ProgramIs
  <2>4. reports' \in Seq(Reports)
    BY <1>1, <2>1, ObserveIs
  <2> QED
    BY <1>1, <2>1, <2>3, <2>4, StillShape
<1>14. ASSUME Apply PROVE Shape'
  <2>1. Sound(reg') /\ reports' = Tail(reports) /\ reports # <<>>
    BY <1>14, ApplyIs
  <2>2. UNCHANGED <<program, killed, calls, stage, doomed>>
    BY <1>14, Zenon DEF Apply
  <2>3. reports' \in Seq(Reports)
    BY <1>1, <2>1, FirstReport
  <2> QED
    BY <1>1, <2>1, <2>2, <2>3, StillShape
<1>15. ASSUME Leave PROVE Shape'
  <2>1. stage' = "ending" /\ doomed' = Alive(reg) /\ UNCHANGED <<reg, host, calls>>
    BY <1>15, Zenon DEF Leave
  <2>2. doomed' \subseteq Ids
    BY <2>1 DEF Alive
  <2>3. reg' = reg /\ program' = program /\ killed' = killed /\ reports' = reports /\ UNCHANGED calls
    BY <2>1 DEF host
  <2> QED
    BY <1>1, <2>1, <2>2, <2>3, StillShape
<1>16. ASSUME NEW t \in Ids, EndNext(t) PROVE Shape'
  <2>1. /\ reg' = Marked(reg, t) /\ Kills(t) /\ doomed' = doomed \ {t}
        /\ UNCHANGED <<program, reports, calls, stage>>
    BY <1>16, Zenon DEF EndNext
  <2>2. Sound(reg') /\ killed' \subseteq Ids
    BY <1>1, <2>1, MarkedIs DEF Kills
  <2> QED
    BY <1>1, <2>1, <2>2, StillShape
<1>17. ASSUME Left PROVE Shape'
  <2>1. stage' = "down" /\ UNCHANGED <<reg, host, calls, doomed>>
    BY <1>17, Zenon DEF Left
  <2>2. /\ reg' = reg /\ program' = program /\ killed' = killed /\ reports' = reports
        /\ UNCHANGED calls /\ doomed' = doomed
    BY <2>1 DEF host
  <2> QED
    BY <1>1, <2>1, <2>2, StillShape
<1>18. ASSUME UNCHANGED vars PROVE Shape'
  <2>1. /\ reg' = reg /\ program' = program /\ killed' = killed /\ reports' = reports
        /\ UNCHANGED calls /\ stage' = stage /\ doomed' = doomed
    BY <1>18 DEF vars, host
  <2> QED
    BY <1>1, <2>1, StillShape
<1> QED
  <2>1. CASE \E c \in Calls : Opens(c)
    BY <1>2, <1>3, <1>4, <2>1, OpenShape, AskShape, StartShape, Zenon DEF Opens
  <2>2. CASE \E c \in Calls : Closes(c)
    BY <1>5, <1>6, <1>7, <2>2, Zenon DEF Closes
  <2>3. CASE \E t \in Ids : Runs(t)
    BY <1>10, <1>11, <1>12, <1>13, <2>3, Zenon DEF Runs
  <2>4. CASE Stops
    BY <1>15, <1>16, <1>17, <2>4, Zenon DEF Stops
  <2> QED
    BY <1>8, <1>9, <1>14, <1>18, <2>1, <2>2, <2>3, <2>4, Zenon DEF Next

\* Every state is one the types allow: an order of the known terminals
\* included, which is what resolving a name and falling back rely on.
THEOREM TerminalTypes == Spec => []TypeOK
<1>1. Shape => TypeOK
  BY DEF Shape
<1> QED
  BY <1>1, ShapeInit, ShapeNext, PTL DEF Spec

-----------------------------------------------------------------------------
(* The steps, as far as what is opened, listed and run is concerned. *)

\* No call begins to open, and those that are at it are at the same.
CallsKept ==
    \A c \in Calls : pc'[c] \in OpensAt =>
        pc[c] \in OpensAt /\ wants'[c] = wants[c] /\ id'[c] = id[c]

\* A terminal that a call is about to list is still about to be listed.
RecordsKept ==
    \A c \in Calls : pc[c] = "record" <=> pc'[c] = "record"

\* What is running is the same, under the same name.
AliveKept ==
    Alive(reg') = Alive(reg) /\ \A t \in Alive(reg) : reg'.name[t] = reg.name[t]

\* Nothing but the places of calls, the selection and the killers change.
Quiet ==
    /\ CallsKept /\ RecordsKept /\ AliveKept
    /\ program' = program /\ reports' = reports
    /\ killed \subseteq killed' /\ stage' = stage /\ doomed' = doomed

\* What a call that begins to open takes.
LEMMA OpenIs ==
    ASSUME Shape, NEW c \in Calls, NEW n \in Names, Open(c, n)
    PROVE  /\ stage = "up" /\ pc[c] = "idle" /\ ~Reusable(n)
           /\ \A d \in Calls : /\ pc'[d] = IF d = c THEN "ask" ELSE pc[d]
                               /\ wants'[d] = IF d = c THEN n ELSE wants[d]
                               /\ d # c => id'[d] = id[d]
           /\ reg' = reg /\ program' = program /\ reports' = reports
           /\ killed' = killed /\ stage' = stage /\ doomed' = doomed
<1>1. PICK t \in Ids : Fresh(t) /\ Goes(c, "ask", t, n)
  BY Zenon DEF Open
<1>2. Pressed(c) /\ ~Reusable(n) /\ UNCHANGED <<reg, host, stage, doomed>>
  BY Zenon DEF Open
<1>3. /\ pc \in [Calls -> Places] /\ wants \in [Calls -> Names \cup {None}]
      /\ id \in [Calls -> Ids \cup {None}]
  BY TypeParts DEF Shape
<1>4. "ask" \in Places /\ t \in Ids \cup {None} /\ n \in Names \cup {None}
  BY PlacesTold
<1>5. \A d \in Calls : /\ pc'[d] = IF d = c THEN "ask" ELSE pc[d]
                       /\ wants'[d] = IF d = c THEN n ELSE wants[d]
                       /\ id'[d] = IF d = c THEN t ELSE id[d]
  BY <1>1, <1>3, <1>4, GoesIs
<1> QED
  BY <1>2, <1>5 DEF Pressed, host

\* A call comes to rest and what it was about is left to the others.
LEMMA RestsKeeps ==
    ASSUME Shape, NEW c \in Calls, Rests(c)
    PROVE  /\ CallsKept
           /\ \A d \in Calls : pc'[d] = IF d = c THEN "idle" ELSE pc[d]
           /\ pc[c] # "record" => RecordsKept
<1>1. \A d \in Calls : /\ pc'[d] = IF d = c THEN "idle" ELSE pc[d]
                       /\ wants'[d] = IF d = c THEN None ELSE wants[d]
                       /\ id'[d] = IF d = c THEN None ELSE id[d]
  BY RestsIs, TypeParts DEF Shape
<1> QED
  BY <1>1, PlacesTold DEF CallsKept, RecordsKept

\* The same of a call that goes from one place to another.
LEMMA GoesKeeps ==
    ASSUME Shape, NEW c \in Calls, NEW at \in {"mark", "kill"}, NEW t \in Ids \cup {None},
           Goes(c, at, t, None), pc[c] # "record"
    PROVE  CallsKept /\ RecordsKept
<1>1. at \in Places /\ at \notin OpensAt /\ None \in Names \cup {None} /\ at # "record"
  BY PlacesTold
<1>2. /\ pc \in [Calls -> Places] /\ wants \in [Calls -> Names \cup {None}]
      /\ id \in [Calls -> Ids \cup {None}]
  BY TypeParts DEF Shape
<1>3. \A d \in Calls : /\ pc'[d] = IF d = c THEN at ELSE pc[d]
                       /\ wants'[d] = IF d = c THEN None ELSE wants[d]
                       /\ id'[d] = IF d = c THEN t ELSE id[d]
  BY <1>1, <1>2, GoesIs
<1> QED
  BY <1>1, <1>3 DEF CallsKept, RecordsKept

\* Asking the host goes on opening the same terminal, or gives up.
LEMMA AskKeeps ==
    ASSUME Shape, NEW c \in Calls, Ask(c)
    PROVE  CallsKept /\ RecordsKept
<1>1. pc[c] = "ask"
  BY Zenon DEF Ask
<1>2. /\ pc \in [Calls -> Places] /\ wants \in [Calls -> Names \cup {None}]
      /\ id \in [Calls -> Ids \cup {None}]
  BY TypeParts DEF Shape
<1>3. CASE Room
  <2>1. Goes(c, "start", id[c], wants[c])
    BY <1>3, Zenon DEF Ask
  <2>2. "start" \in Places /\ id[c] \in Ids \cup {None} /\ wants[c] \in Names \cup {None}
    BY <1>2, PlacesTold
  <2>3. /\ pc' \in [Calls -> Places] /\ wants' \in [Calls -> Names \cup {None}]
        /\ id' \in [Calls -> Ids \cup {None}]
        /\ \A d \in Calls : /\ pc'[d] = IF d = c THEN "start" ELSE pc[d]
                            /\ wants'[d] = IF d = c THEN wants[c] ELSE wants[d]
                            /\ id'[d] = IF d = c THEN id[c] ELSE id[d]
    BY <1>2, <2>1, <2>2, GoesIs
  <2> QED
    BY <1>1, <2>3, PlacesTold DEF CallsKept, RecordsKept
<1>4. CASE ~Room
  BY <1>1, <1>4, RestsKeeps, Zenon DEF Ask
<1> QED
  BY <1>3, <1>4

\* Every step is one of these.
LEMMA NextSteps ==
    ASSUME Shape, [Next]_vars
    PROVE  \/ Quiet \/ Apply \/ Stops
           \/ \E c \in Calls : \/ Start(c) \/ Record(c)
                               \/ Dropped(c) /\ pc[c] = "record"
                               \/ \E n \in Names : Open(c, n)
           \/ \E t \in Ids : Runs(t)
<1>1. Sound(reg) /\ id \in [Calls -> Ids \cup {None}]
  BY TypeParts DEF Shape
<1>2. ASSUME UNCHANGED calls PROVE CallsKept /\ RecordsKept
  <2>1. pc' = pc /\ wants' = wants /\ id' = id
    BY <1>2 DEF calls
  <2> QED
    BY <2>1 DEF CallsKept, RecordsKept
<1>3. ASSUME reg' = reg PROVE AliveKept
  BY <1>3 DEF AliveKept
<1>4. ASSUME NEW c \in Calls, NEW n \in Names, Reuse(c, n) PROVE Quiet
  <2>1. reg' = Selecting(reg, Called(reg, n)) /\ UNCHANGED <<host, calls, stage, doomed>>
    BY <1>4, Zenon DEF Reuse
  <2>2. Resolve(reg, n) = Called(reg, n)
    BY <1>4, Zenon DEF Resolve
  <2>3. AliveKept
    BY <1>1, <2>1, <2>2, ResolveType, SelectingIs DEF AliveKept
  <2> QED
    BY <1>2, <2>1, <2>3 DEF Quiet, host
<1>5. ASSUME NEW c \in Calls, Ask(c) PROVE Quiet
  <2>1. reg' = reg /\ UNCHANGED <<host, stage, doomed>>
    BY <1>5, Zenon DEF Ask
  <2> QED
    BY <1>3, <1>5, <2>1, AskKeeps DEF Quiet, host
<1>6. ASSUME NEW c \in Calls, StartFails(c) PROVE Quiet
  <2>1. pc[c] = "start" /\ Rests(c) /\ reg' = reg /\ UNCHANGED <<host, stage, doomed>>
    BY <1>6, Zenon DEF StartFails
  <2> QED
    BY <1>3, <2>1, RestsKeeps DEF Quiet, host
<1>7. ASSUME NEW c \in Calls, NEW target, Close(c, target) PROVE Quiet
  <2>1. /\ Goes(c, "mark", Resolve(reg, target), None) /\ Pressed(c)
        /\ reg' = reg /\ UNCHANGED <<host, stage, doomed>>
    BY <1>7, Zenon DEF Close
  <2>2. Resolve(reg, target) \in Ids \cup {None} /\ pc[c] # "record"
    BY <1>1, <2>1, ResolveType DEF Pressed
  <2> QED
    BY <1>3, <2>1, <2>2, GoesKeeps DEF Quiet, host
<1>8. ASSUME NEW c \in Calls, Mark(c) PROVE Quiet
  <2>1. /\ Goes(c, "kill", id[c], None) /\ pc[c] = "mark"
        /\ reg' = Marked(reg, id[c]) /\ UNCHANGED <<host, stage, doomed>>
    BY <1>8, Zenon DEF Mark
  <2>2. AliveKept
    BY <1>1, <2>1, MarkedIs DEF AliveKept
  <2>3. CallsKept /\ RecordsKept
    BY <1>1, <2>1, GoesKeeps
  <2> QED
    BY <2>1, <2>2, <2>3 DEF Quiet, host
<1>9. ASSUME NEW c \in Calls, Kill(c) PROVE Quiet
  <2>1. /\ Kills(id[c]) /\ Rests(c) /\ pc[c] = "kill"
        /\ UNCHANGED <<reg, program, reports, stage, doomed>>
    BY <1>9, Zenon DEF Kill
  <2> QED
    BY <1>3, <2>1, RestsKeeps DEF Quiet, Kills
<1>10. ASSUME NEW c \in Calls, Dropped(c), pc[c] # "record" PROVE Quiet
  <2>1. Rests(c) /\ reg' = reg /\ UNCHANGED <<host, stage, doomed>>
    BY <1>10, Zenon DEF Dropped
  <2> QED
    BY <1>3, <1>10, <2>1, RestsKeeps DEF Quiet, host
<1>11. ASSUME NEW target, Select(target) PROVE Quiet
  <2>1. /\ reg' = Selecting(reg, Resolve(reg, target))
        /\ UNCHANGED <<host, calls, stage, doomed>>
    BY <1>11, Zenon DEF Select
  <2>2. AliveKept
    BY <1>1, <2>1, ResolveType, SelectingIs DEF AliveKept
  <2> QED
    BY <1>2, <2>1, <2>2 DEF Quiet, host
<1>12. ASSUME UNCHANGED vars PROVE Quiet
  <2>1. reg' = reg /\ UNCHANGED calls /\ UNCHANGED host /\ stage' = stage /\ doomed' = doomed
    BY <1>12 DEF vars
  <2> QED
    BY <1>2, <1>3, <2>1 DEF Quiet, host
<1> QED
  BY <1>4, <1>5, <1>6, <1>7, <1>8, <1>9, <1>10, <1>11, <1>12, Zenon DEF Next, Opens, Closes

\* What the steps of a program leave alone.
LEMMA RunsKeep ==
    ASSUME Shape, NEW t \in Ids, Runs(t)
    PROVE  /\ CallsKept /\ RecordsKept /\ AliveKept
           /\ killed' = killed /\ stage' = stage /\ doomed' = doomed
<1>1. /\ reg' = reg /\ UNCHANGED calls /\ killed' = killed /\ stage' = stage /\ doomed' = doomed
  BY DEF Runs, Say, End, Reap, Report
<1>2. pc' = pc /\ wants' = wants /\ id' = id
  BY <1>1 DEF calls
<1> QED
  BY <1>1, <1>2 DEF CallsKept, RecordsKept, AliveKept

\* What the steps of stopping leave alone.
LEMMA StopsKeep ==
    ASSUME Shape, Stops
    PROVE  /\ CallsKept /\ RecordsKept /\ AliveKept
           /\ program' = program /\ reports' = reports /\ killed \subseteq killed'
           /\ stage' # "up"
<1>1. Sound(reg)
  BY TypeParts DEF Shape
<1>2. CASE Leave
  <2>1. UNCHANGED <<reg, host, calls>> /\ stage' = "ending"
    BY <1>2, Zenon DEF Leave
  <2> QED
    BY <2>1 DEF host, calls, CallsKept, RecordsKept, AliveKept
<1>3. ASSUME NEW t \in Ids, EndNext(t)
      PROVE  /\ CallsKept /\ RecordsKept /\ AliveKept
             /\ program' = program /\ reports' = reports /\ killed \subseteq killed'
             /\ stage' # "up"
  <2>1. /\ reg' = Marked(reg, t) /\ Kills(t) /\ stage = "ending"
        /\ UNCHANGED <<program, reports, calls, stage>>
    BY <1>3, Zenon DEF EndNext
  <2>2. AliveKept
    BY <1>1, <2>1, MarkedIs DEF AliveKept
  <2> QED
    BY <2>1, <2>2 DEF calls, CallsKept, RecordsKept, Kills
<1>4. CASE Left
  <2>1. UNCHANGED <<reg, host, calls>> /\ stage' = "down"
    BY <1>4, Zenon DEF Left
  <2> QED
    BY <2>1 DEF host, calls, CallsKept, RecordsKept, AliveKept
<1> QED
  BY <1>2, <1>3, <1>4, Zenon DEF Stops

-----------------------------------------------------------------------------
(* A name is of one running terminal. *)

\* Presses of the same pad come one after the other.
OneAtATime == "pressed twice" \notin Allowed

\* What holds of names is kept when nobody begins to open and nothing comes to life.
LEMMA SoleKept ==
    ASSUME Sole, CallsKept, Alive(reg') \subseteq Alive(reg),
           \A t \in Alive(reg') : reg'.name[t] = reg.name[t]
    PROVE  Sole'
<1>1. OneOfAName'
  BY DEF OneOfAName, Sole
<1>2. \A c \in Calls : pc'[c] \in OpensAt => \A t \in Alive(reg') : reg'.name[t] # wants'[c]
  BY DEF CallsKept, Sole
<1>3. \A c, d \in Calls : pc'[c] \in OpensAt /\ pc'[d] \in OpensAt /\ wants'[c] = wants'[d] => c = d
  BY DEF CallsKept, Sole
<1> QED
  BY <1>1, <1>2, <1>3 DEF Sole

\* What a terminal is called when it is opened nobody else opens or runs.
LEMMA SoleNext == OneAtATime /\ Shape /\ Sole /\ [Next]_vars => Sole'
<1> SUFFICES ASSUME OneAtATime, Shape, Sole, [Next]_vars PROVE Sole'
  OBVIOUS
<1>1. CASE Quiet
  BY <1>1, SoleKept DEF Quiet, AliveKept
<1>2. CASE Apply
  <2>1. UNCHANGED calls
    BY <1>2, Zenon DEF Apply
  <2>2. CallsKept
    BY <2>1 DEF calls, CallsKept
  <2>3. Head(reports)[2] \in {"output", "exit"}
    BY <1>2, ApplyIs, ReportParts
  <2> QED
    BY <1>2, <2>2, <2>3, ApplyIs, SoleKept
<1>3. CASE Stops
  BY <1>3, StopsKeep, SoleKept DEF AliveKept
<1>4. ASSUME NEW t \in Ids, Runs(t) PROVE Sole'
  BY <1>4, RunsKeep, SoleKept DEF AliveKept
<1>5. ASSUME NEW c \in Calls, NEW n \in Names, Open(c, n) PROVE Sole'
  <2>1. /\ ~Reusable(n) /\ reg' = reg
        /\ \A d \in Calls : /\ pc'[d] = IF d = c THEN "ask" ELSE pc[d]
                            /\ wants'[d] = IF d = c THEN n ELSE wants[d]
    BY <1>5, OpenIs
  <2>2. ~Opening(n)
    BY <1>5, Zenon DEF Open, OneAtATime
  <2>3. \A d \in Calls : wants[d] # n
    BY <2>2 DEF Opening
  <2>4. \A t \in Alive(reg) : reg.name[t] # n
    BY <2>1 DEF Reusable
  <2>5. OneOfAName'
    BY <2>1 DEF OneOfAName, Sole
  <2>6. \A d \in Calls : pc'[d] \in OpensAt => \A t \in Alive(reg') : reg'.name[t] # wants'[d]
    BY <2>1, <2>4 DEF Sole
  <2>7. \A d, e \in Calls : pc'[d] \in OpensAt /\ pc'[e] \in OpensAt /\ wants'[d] = wants'[e] => d = e
    BY <2>1, <2>3 DEF Sole
  <2> QED
    BY <2>5, <2>6, <2>7 DEF Sole
<1>6. ASSUME NEW c \in Calls, Start(c) PROVE Sole'
  <2>1. \A d \in Calls : /\ pc'[d] = IF d = c THEN "record" ELSE pc[d]
                         /\ wants'[d] = wants[d] /\ id'[d] = id[d]
    BY <1>6, StartShape
  <2>2. pc[c] = "start" /\ reg' = reg
    BY <1>6, Zenon DEF Start
  <2>3. CallsKept
    BY <2>1, <2>2, PlacesTold DEF CallsKept
  <2> QED
    BY <2>2, <2>3, SoleKept
<1>7. ASSUME NEW c \in Calls, Record(c) PROVE Sole'
  <2>1. /\ id[c] \in Ids /\ Alive(reg') = Alive(reg) \cup {id[c]}
        /\ \A t \in Alive(reg') : reg'.name[t] = IF t = id[c] THEN wants[c] ELSE reg.name[t]
    BY <1>7, RecordIs
  <2>2. pc[c] = "record" /\ Rests(c)
    BY <1>7, Zenon DEF Record
  <2>3. CallsKept /\ \A d \in Calls : pc'[d] = IF d = c THEN "idle" ELSE pc[d]
    BY <2>2, RestsKeeps
  <2>4. pc[c] \in OpensAt /\ "idle" \notin OpensAt
    BY <2>2, PlacesTold
  <2>5. \A t \in Alive(reg) : reg.name[t] # wants[c]
    BY <2>4 DEF Sole
  <2>6. OneOfAName'
    BY <2>1, <2>5 DEF OneOfAName, Sole
  <2>7. \A d \in Calls : pc'[d] \in OpensAt => d # c /\ pc[d] \in OpensAt /\ wants'[d] = wants[d]
    BY <2>3, <2>4 DEF CallsKept
  <2>8. \A d \in Calls : pc'[d] \in OpensAt => wants[d] # wants[c]
    BY <2>4, <2>7 DEF Sole
  <2>9. \A d \in Calls : pc'[d] \in OpensAt => \A t \in Alive(reg') : reg'.name[t] # wants'[d]
    BY <2>1, <2>7, <2>8 DEF Sole
  <2>10. \A d, e \in Calls : pc'[d] \in OpensAt /\ pc'[e] \in OpensAt /\ wants'[d] = wants'[e] => d = e
    BY <2>7 DEF Sole
  <2> QED
    BY <2>6, <2>9, <2>10 DEF Sole
<1>8. ASSUME NEW c \in Calls, Dropped(c) PROVE Sole'
  <2>1. Rests(c) /\ reg' = reg
    BY <1>8, Zenon DEF Dropped
  <2> QED
    BY <2>1, RestsKeeps, SoleKept
<1> QED
  BY <1>1, <1>2, <1>3, <1>4, <1>5, <1>6, <1>7, <1>8, NextSteps, Zenon

\* A pad pressed again reaches the terminal it opened (TerminalSupervisor::open
\* and reuse): while a press waits for the one before it, no two terminals of
\* one name run.
THEOREM OneRunsOfAName ==
    ASSUME "pressed twice" \notin Allowed
    PROVE  Spec => []OneOfAName
<1>1. OneAtATime
  BY DEF OneAtATime
<1>2. Init => Sole
  <2> SUFFICES ASSUME Init PROVE Sole
    OBVIOUS
  <2>1. Alive(reg) = {}
    BY DEF Init, Alive, Live
  <2>2. \A c \in Calls : pc[c] \notin OpensAt
    BY PlacesTold DEF Init
  <2> QED
    BY <2>1, <2>2 DEF Sole, OneOfAName
<1>3. Sole => OneOfAName
  BY DEF Sole
<1> QED
  BY <1>1, <1>2, <1>3, ShapeInit, ShapeNext, SoleNext, PTL DEF Spec

-----------------------------------------------------------------------------
(* The registry and the host. *)

\* What is started is listed: nobody gives up between the two.
NoneIsLost == "dropped late" \notin Allowed

\* A program lasts until it is listed.
NoneIsQuick == "quick exit" \notin Allowed

\* Nothing is being opened when PushOS stops.
NoneComesLate == "opened late" \notin Allowed

\* A terminal a call is about to list is among those being opened.
LEMMA RecordingIs ==
    ASSUME Shape, NEW t, Recording(t)
    PROVE  \E c \in Calls : pc[c] \in OpensAt /\ id[c] = t
BY PlacesTold DEF Recording

\* A call that keeps its place keeps its terminal.
LEMMA RecordingKept ==
    ASSUME Shape, CallsKept, RecordsKept
    PROVE  /\ \A t : Recording(t) => Recording(t)'
           /\ \A c \in Calls : pc'[c] = "record" => pc[c] = "record" /\ id'[c] = id[c]
<1>1. \A c \in Calls : pc'[c] = "record" => pc[c] = "record" /\ id'[c] = id[c]
  BY PlacesTold DEF CallsKept, RecordsKept
<1>2. ASSUME NEW t, Recording(t) PROVE Recording(t)'
  <2>1. PICK c \in Calls : pc[c] = "record" /\ id[c] = t
    BY <1>2, Zenon DEF Recording
  <2>2. pc'[c] = "record"
    BY <2>1 DEF RecordsKept
  <2>3. id'[c] = t
    BY <1>1, <2>1, <2>2
  <2> QED
    BY <2>2, <2>3, Zenon DEF Recording
<1> QED
  BY <1>1, <1>2

\* Nothing was held, and nothing reported.
LEMMA HostInit == Init => Listed /\ Running /\ Leaving
<1> SUFFICES ASSUME Init PROVE Listed /\ Running /\ Leaving
  OBVIOUS
<1>1. /\ program = [t \in Ids |-> "none"] /\ reports = <<>> /\ stage = "up"
      /\ pc = [c \in Calls |-> "idle"]
  BY Zenon DEF Init
<1>2. Alive(reg) = {}
  BY DEF Init, Alive, Live
<1>3. Hosted = {}
  BY <1>1 DEF Hosted
<1>4. \A i \in 1..Len(reports) : FALSE
  BY <1>1
<1>5. Listed
  BY <1>3, <1>4 DEF Listed
<1>6. Running
  BY <1>1, <1>2 DEF Running
<1> QED
  BY <1>1, <1>5, <1>6 DEF Leaving

\* What the host holds stays listed, and what has ended is said to have ended once.
LEMMA ListedNext == NoneIsLost /\ Shape /\ Listed /\ [Next]_vars => Listed'
<1> SUFFICES ASSUME NoneIsLost, Shape, Listed, [Next]_vars PROVE Listed'
  OBVIOUS
<1> DEFINE Said(s, p) == \A i \in 1..Len(s) : s[i][2] = "exit" => p[s[i][1]] = "reported"
           Held(p)    == {t \in Ids : p[t] \in {"runs", "ended"}}
<1>1. Listed <=> /\ Said(reports, program)
                 /\ stage = "up" => \A t \in Held(program) : t \in Alive(reg) \/ Recording(t)
  BY DEF Listed, Hosted
<1>2. Listed' <=> /\ Said(reports', program')
                  /\ stage' = "up" => \A t \in Held(program') : t \in Alive(reg') \/ Recording(t)'
  BY DEF Listed, Hosted
<1>3. reports \in Seq(Reports) /\ program \in [Ids -> Programs]
  BY TypeParts DEF Shape
<1>4. \A i \in 1..Len(reports) : reports[i] \in Reports /\ reports[i][1] \in Ids
  BY <1>3, ElementOfSeq, ReportParts
<1> HIDE DEF Said
<1>5. ASSUME CallsKept, RecordsKept, AliveKept, Held(program') \subseteq Held(program), stage' = stage
      PROVE  stage' = "up" => \A t \in Held(program') : t \in Alive(reg') \/ Recording(t)'
  BY <1>1, <1>5, RecordingKept DEF AliveKept
<1>6. CASE Quiet
  BY <1>1, <1>2, <1>5, <1>6 DEF Quiet
<1>7. CASE Apply
  <2>1. UNCHANGED <<program, killed, calls, stage, doomed>>
    BY <1>7, Zenon DEF Apply
  <2>2. CallsKept /\ RecordsKept
    BY <2>1 DEF calls, CallsKept, RecordsKept
  <2>3. /\ reports # <<>> /\ reports' = Tail(reports)
        /\ Head(reports)[2] \in {"output", "exit"} /\ stage = "up"
        /\ Head(reports)[2] = "output" => Alive(reg') = Alive(reg)
        /\ Head(reports)[2] = "exit" => Alive(reg') = Alive(reg) \ {Head(reports)[1]}
    BY <1>7, ApplyIs, ReportParts
  <2>4. /\ \E i \in 1..Len(reports) : reports[i] = Head(reports)
        /\ \A j \in 1..Len(Tail(reports)) : \E i \in 1..Len(reports) : Tail(reports)[j] = reports[i]
    BY <1>3, <2>3, FirstReport
  <2>5. Said(reports', program')
    BY <1>1, <2>1, <2>3, <2>4, ZenonT(30) DEF Said
  <2>6. Head(reports)[2] = "exit" => program[Head(reports)[1]] = "reported"
    BY <1>1, <2>4, Zenon DEF Said
  <2>7. \A t \in Held(program) : t \in Alive(reg) => t \in Alive(reg')
    BY <2>3, <2>6
  <2> QED
    BY <1>1, <1>2, <2>1, <2>2, <2>3, <2>5, <2>7, RecordingKept
<1>8. CASE Stops
  <2>1. program' = program /\ reports' = reports /\ stage' # "up"
    BY <1>8, StopsKeep
  <2> QED
    BY <1>1, <1>2, <2>1
<1>9. ASSUME NEW t \in Ids, Say(t) PROVE Listed'
  <2>1. Observe(t, "output") /\ program' = program
    BY <1>9 DEF Say
  <2>2. Runs(t)
    BY <1>9, Zenon DEF Runs
  <2>3. \A i \in 1..Len(reports') : i \in 1..Len(reports) \/ reports'[i] = <<t, "output">>
    BY <1>3, <2>1, ObserveIs
  <2>4. \A i \in 1..Len(reports) : reports'[i] = reports[i]
    BY <1>3, <2>1, ObserveIs
  <2>5. \A i \in 1..Len(reports') : reports'[i][2] = "exit" => i \in 1..Len(reports)
    BY <2>3
  <2>6. Said(reports', program')
    BY <1>1, <2>1, <2>4, <2>5, Zenon DEF Said
  <2> QED
    BY <1>2, <1>5, <2>1, <2>2, <2>6, RunsKeep
<1>10. ASSUME NEW t \in Ids, NEW before \in {"runs", "ended"}, NEW after \in {"ended", "reaped"},
              program[t] = before, program' = [program EXCEPT ![t] = after],
              before = "ended" => after = "reaped", reports' = reports, Runs(t)
       PROVE  Listed'
  <2>1. \A u \in Ids : program'[u] = IF u = t THEN after ELSE program[u]
    BY <1>3, <1>10
  <2>2. Held(program') \subseteq Held(program)
    BY <1>10, <2>1
  <2>3. \A u \in Ids : program[u] = "reported" => program'[u] = "reported"
    BY <1>10, <2>1
  <2>4. Said(reports', program')
    BY <1>1, <1>4, <1>10, <2>3 DEF Said
  <2> QED
    BY <1>2, <1>5, <1>10, <2>2, <2>4, RunsKeep
<1>11. ASSUME NEW t \in Ids, End(t) PROVE Listed'
  <2>1. program[t] = "runs" /\ program' = [program EXCEPT ![t] = "ended"] /\ reports' = reports
    BY <1>11 DEF End
  <2>2. Runs(t)
    BY <1>11, Zenon DEF Runs
  <2> QED
    BY <1>10, <2>1, <2>2
<1>12. ASSUME NEW t \in Ids, Reap(t) PROVE Listed'
  <2>1. program[t] = "ended" /\ program' = [program EXCEPT ![t] = "reaped"] /\ reports' = reports
    BY <1>12 DEF Reap
  <2>2. Runs(t)
    BY <1>12, Zenon DEF Runs
  <2> QED
    BY <1>10, <2>1, <2>2
<1>13. ASSUME NEW t \in Ids, Report(t) PROVE Listed'
  <2>1. /\ program[t] = "reaped" /\ program' = [program EXCEPT ![t] = "reported"]
        /\ Observe(t, "exit")
    BY <1>13, Zenon DEF Report
  <2>2. Runs(t)
    BY <1>13, Zenon DEF Runs
  <2>3. \A u \in Ids : program'[u] = IF u = t THEN "reported" ELSE program[u]
    BY <1>3, <2>1
  <2>4. /\ \A i \in 1..Len(reports') : i \in 1..Len(reports) \/ reports'[i] = <<t, "exit">>
        /\ \A i \in 1..Len(reports) : reports'[i] = reports[i]
    BY <1>3, <2>1, ObserveIs
  <2>5. ASSUME NEW i \in 1..Len(reports'), reports'[i][2] = "exit"
        PROVE  program'[reports'[i][1]] = "reported"
    <3>1. CASE i \in 1..Len(reports)
      <4>1. reports'[i] = reports[i] /\ reports[i][1] \in Ids
        BY <1>4, <2>4, <3>1
      <4>2. program[reports[i][1]] = "reported"
        BY <1>1, <2>5, <3>1, <4>1 DEF Said
      <4> QED
        BY <2>3, <4>1, <4>2
    <3>2. CASE reports'[i] = <<t, "exit">>
      BY <2>3, <3>2
    <3> QED
      BY <2>4, <3>1, <3>2
  <2>6. Said(reports', program')
    BY <2>5 DEF Said
  <2>7. Held(program') \subseteq Held(program)
    BY <2>3
  <2> QED
    BY <1>2, <1>5, <2>2, <2>6, <2>7, RunsKeep
<1>14. ASSUME NEW c \in Calls, NEW n \in Names, Open(c, n) PROVE Listed'
  <2>1. /\ pc[c] = "idle" /\ \A d \in Calls : pc'[d] = IF d = c THEN "ask" ELSE pc[d]
        /\ \A d \in Calls : d # c => id'[d] = id[d]
        /\ reg' = reg /\ program' = program /\ reports' = reports /\ stage' = stage
    BY <1>14, OpenIs
  <2>2. \A d \in Calls : pc[d] = "record" => pc'[d] = "record" /\ id'[d] = id[d]
    BY <2>1
  <2>3. \A t : Recording(t) => Recording(t)'
    BY <2>2 DEF Recording
  <2> QED
    BY <1>1, <1>2, <2>1, <2>3
<1>15. ASSUME NEW c \in Calls, Start(c) PROVE Listed'
  <2>1. /\ id[c] \in Ids /\ program[id[c]] = "none"
        /\ \A t \in Ids : program'[t] = IF t = id[c] THEN "runs" ELSE program[t]
        /\ \A d \in Calls : pc'[d] = (IF d = c THEN "record" ELSE pc[d]) /\ id'[d] = id[d]
    BY <1>15, StartShape
  <2>2. reg' = reg /\ reports' = reports /\ stage' = stage
    BY <1>15 DEF Start
  <2>3. \A d \in Calls : pc[d] = "record" => pc'[d] = "record" /\ id'[d] = id[d]
    BY <2>1
  <2>4. \A t : Recording(t) => Recording(t)'
    BY <2>3 DEF Recording
  <2>5. pc'[c] = "record" /\ id'[c] = id[c]
    BY <2>1
  <2>6. ASSUME NEW t, t = id[c] PROVE Recording(t)'
    <3>1. pc'[c] = "record" /\ id'[c] = t
      BY <2>5, <2>6
    <3> QED
      BY <3>1, Zenon DEF Recording
  <2>7. \A t \in Held(program') : t = id[c] \/ t \in Held(program)
    BY <2>1
  <2>8. \A u \in Ids : program[u] = "reported" => program'[u] = "reported"
    BY <2>1
  <2>9. Said(reports', program')
    BY <1>1, <1>4, <2>2, <2>8 DEF Said
  <2> QED
    BY <1>1, <1>2, <2>2, <2>4, <2>6, <2>7, <2>9
<1>16. ASSUME NEW c \in Calls, Record(c) PROVE Listed'
  <2>1. Alive(reg') = Alive(reg) \cup {id[c]}
    BY <1>16, RecordIs
  <2>2. Rests(c) /\ UNCHANGED <<host, stage, doomed>>
    BY <1>16, Zenon DEF Record
  <2>3. CallsKept /\ \A d \in Calls : pc'[d] = IF d = c THEN "idle" ELSE pc[d]
    BY <2>2, RestsKeeps
  <2>4. \A d \in Calls : pc[d] = "record" /\ d # c => pc'[d] = "record" /\ id'[d] = id[d]
    BY <2>3, PlacesTold DEF CallsKept
  <2>5. \A t : Recording(t) => t = id[c] \/ Recording(t)'
    BY <2>4 DEF Recording
  <2>6. program' = program /\ reports' = reports /\ stage' = stage
    BY <2>2 DEF host
  <2> QED
    BY <1>1, <1>2, <2>1, <2>5, <2>6
<1>17. ASSUME NEW c \in Calls, Dropped(c), pc[c] = "record" PROVE Listed'
  <2>1. FALSE
    BY <1>17, Zenon DEF Dropped, NoneIsLost
  <2> QED
    BY <2>1
<1> QED
  BY <1>6, <1>7, <1>8, <1>9, <1>11, <1>12, <1>13, <1>14, <1>15, <1>16, <1>17, NextSteps,
     Zenon DEF Runs

\* What is listed as running has a program that runs or an exit on its way.
LEMMA RunningNext ==
    NoneIsQuick /\ NoneIsLost /\ Shape /\ Running /\ [Next]_vars => Running'
<1> SUFFICES ASSUME NoneIsQuick, NoneIsLost, Shape, Running, [Next]_vars PROVE Running'
  OBVIOUS
<1> DEFINE Told(s, t)  == \E i \in 1..Len(s) : s[i] = <<t, "exit">>
           Fit(p, s, t) == p[t] \in {"runs", "ended", "reaped"} \/ Told(s, t)
<1>1. Running <=> /\ \A c \in Calls : pc[c] = "record" => program[id[c]] = "runs"
                  /\ stage = "up" => \A t \in Alive(reg) : Fit(program, reports, t)
  BY DEF Running
<1>2. Running' <=> /\ \A c \in Calls : pc'[c] = "record" => program'[id'[c]] = "runs"
                   /\ stage' = "up" => \A t \in Alive(reg') : Fit(program', reports', t)
  BY DEF Running
<1>3. reports \in Seq(Reports) /\ program \in [Ids -> Programs] /\ stage \in {"up", "ending", "down"}
  BY TypeParts DEF Shape
<1>4. Alive(reg) \subseteq Ids
  BY DEF Alive
<1> HIDE DEF Told
<1>5. ASSUME CallsKept, RecordsKept, program' = program
      PROVE  \A c \in Calls : pc'[c] = "record" => program'[id'[c]] = "runs"
  BY <1>1, <1>5, RecordingKept
<1>6. CASE Quiet
  <2>1. \A t \in Alive(reg') : Fit(program, reports, t) => Fit(program', reports', t)
    BY <1>6 DEF Quiet
  <2> QED
    BY <1>1, <1>2, <1>5, <1>6, <2>1 DEF Quiet, AliveKept
<1>7. CASE Apply
  <2>1. UNCHANGED <<program, killed, calls, stage, doomed>>
    BY <1>7, Zenon DEF Apply
  <2>2. CallsKept /\ RecordsKept
    BY <2>1 DEF calls, CallsKept, RecordsKept
  <2>3. /\ reports # <<>> /\ reports' = Tail(reports)
        /\ Head(reports) \in Reports /\ stage = "up"
        /\ Head(reports)[2] = "output" => Alive(reg') = Alive(reg)
        /\ Head(reports)[2] = "exit" => Alive(reg') = Alive(reg) \ {Head(reports)[1]}
    BY <1>7, ApplyIs
  <2>4. Head(reports)[2] \in {"output", "exit"}
    BY <2>3, ReportParts
  <2>5. Alive(reg') \subseteq Alive(reg)
    BY <2>3, <2>4
  <2>6. \A i \in 1..Len(reports) :
           reports[i] = Head(reports) \/ \E j \in 1..Len(Tail(reports)) : Tail(reports)[j] = reports[i]
    BY <1>3, <2>3, FirstReport
  <2>7. ASSUME NEW t \in Alive(reg'), Told(reports, t) PROVE Told(reports', t)
    <3>1. PICK i \in 1..Len(reports) : reports[i] = <<t, "exit">>
      BY <2>7, Zenon DEF Told
    <3>2. Head(reports) # <<t, "exit">>
      BY <2>3, <2>7
    <3>3. PICK j \in 1..Len(Tail(reports)) : Tail(reports)[j] = reports[i]
      BY <2>6, <3>1, <3>2
    <3> QED
      BY <2>3, <3>1, <3>3, Zenon DEF Told
  <2>8. \A t \in Alive(reg') : Fit(program', reports', t)
    BY <1>1, <2>1, <2>3, <2>5, <2>7
  <2> QED
    BY <1>2, <1>5, <2>1, <2>2, <2>8
<1>8. CASE Stops
  BY <1>2, <1>5, <1>8, StopsKeep
<1>9. ASSUME NEW t \in Ids, Say(t) PROVE Running'
  <2>1. Observe(t, "output") /\ program' = program
    BY <1>9 DEF Say
  <2>2. CallsKept /\ RecordsKept /\ AliveKept /\ stage' = stage
    BY <1>9, RunsKeep, Zenon DEF Runs
  <2>3. \A i \in 1..Len(reports) : i \in 1..Len(reports') /\ reports'[i] = reports[i]
    BY <1>3, <2>1, ObserveIs
  <2>4. \A u : Told(reports, u) => Told(reports', u)
    BY <2>3, Zenon DEF Told
  <2>5. \A u \in Alive(reg) : Fit(program, reports, u) => Fit(program', reports', u)
    BY <2>1, <2>4
  <2> QED
    BY <1>1, <1>2, <1>5, <2>1, <2>2, <2>5 DEF AliveKept
<1>10. ASSUME NEW t \in Ids, NEW after \in {"ended", "reaped"}, program[t] \in {"runs", "ended"},
              program' = [program EXCEPT ![t] = after], reports' = reports, Runs(t),
              \A c \in Calls : pc[c] = "record" => id[c] # t
       PROVE  Running'
  <2>1. \A u \in Ids : program'[u] = IF u = t THEN after ELSE program[u]
    BY <1>3, <1>10
  <2>2. CallsKept /\ RecordsKept /\ AliveKept /\ stage' = stage
    BY <1>10, RunsKeep
  <2>3. \A c \in Calls : pc[c] = "record" => id[c] \in Ids
    BY PlacesTold DEF Shape, Openings
  <2>4. \A c \in Calls : pc'[c] = "record" => pc[c] = "record" /\ id'[c] = id[c]
    BY <2>2, RecordingKept
  <2>5. \A c \in Calls : pc'[c] = "record" => program'[id'[c]] = "runs"
    BY <1>1, <1>10, <2>1, <2>3, <2>4
  <2>6. \A u \in Alive(reg) : Fit(program, reports, u) => Fit(program', reports', u)
    BY <1>4, <1>10, <2>1
  <2> QED
    BY <1>1, <1>2, <2>2, <2>5, <2>6 DEF AliveKept
<1>11. ASSUME NEW t \in Ids, End(t) PROVE Running'
  <2>1. program[t] = "runs" /\ program' = [program EXCEPT ![t] = "ended"] /\ reports' = reports
    BY <1>11 DEF End
  <2>2. Runs(t)
    BY <1>11, Zenon DEF Runs
  <2>3. \A c \in Calls : pc[c] = "record" => id[c] # t
    BY <1>11, Zenon DEF End, NoneIsQuick
  <2> QED
    BY <1>10, <2>1, <2>2, <2>3
<1>12. ASSUME NEW t \in Ids, Reap(t) PROVE Running'
  <2>1. program[t] = "ended" /\ program' = [program EXCEPT ![t] = "reaped"] /\ reports' = reports
    BY <1>12 DEF Reap
  <2>2. Runs(t)
    BY <1>12, Zenon DEF Runs
  <2>3. \A c \in Calls : pc[c] = "record" => id[c] # t
    BY <1>1, <2>1
  <2> QED
    BY <1>10, <2>1, <2>2, <2>3
<1>13. ASSUME NEW t \in Ids, Report(t) PROVE Running'
  <2>1. /\ program[t] = "reaped" /\ program' = [program EXCEPT ![t] = "reported"]
        /\ Observe(t, "exit")
    BY <1>13, Zenon DEF Report
  <2>2. CallsKept /\ RecordsKept /\ AliveKept /\ stage' = stage
    BY <1>13, RunsKeep, Zenon DEF Runs
  <2>3. \A u \in Ids : program'[u] = IF u = t THEN "reported" ELSE program[u]
    BY <1>3, <2>1
  <2>4. /\ \A i \in 1..Len(reports) : i \in 1..Len(reports') /\ reports'[i] = reports[i]
        /\ stage = "up" => \E i \in 1..Len(reports') : reports'[i] = <<t, "exit">>
    BY <1>3, <2>1, ObserveIs
  <2>5. \A u : Told(reports, u) => Told(reports', u)
    BY <2>4, Zenon DEF Told
  <2>6. stage = "up" => Told(reports', t)
    BY <2>4, Zenon DEF Told
  <2>7. \A c \in Calls : pc[c] = "record" => id[c] \in Ids
    BY PlacesTold DEF Shape, Openings
  <2>8. \A c \in Calls : pc'[c] = "record" => pc[c] = "record" /\ id'[c] = id[c]
    BY <2>2, RecordingKept
  <2>9. \A c \in Calls : pc'[c] = "record" => program'[id'[c]] = "runs"
    BY <1>1, <2>1, <2>3, <2>7, <2>8
  <2>10. ASSUME stage = "up", NEW u \in Alive(reg) PROVE Fit(program', reports', u)
    BY <1>1, <1>4, <2>3, <2>5, <2>6, <2>10
  <2> QED
    BY <1>2, <2>2, <2>9, <2>10 DEF AliveKept
<1>14. ASSUME NEW c \in Calls, NEW n \in Names, Open(c, n) PROVE Running'
  <2>1. /\ \A d \in Calls : pc'[d] = IF d = c THEN "ask" ELSE pc[d]
        /\ \A d \in Calls : d # c => id'[d] = id[d]
        /\ reg' = reg /\ program' = program /\ reports' = reports /\ stage' = stage
    BY <1>14, OpenIs
  <2>2. \A d \in Calls : pc'[d] = "record" => pc[d] = "record" /\ id'[d] = id[d]
    BY <2>1
  <2> QED
    BY <1>1, <1>2, <2>1, <2>2
<1>15. ASSUME NEW c \in Calls, Start(c) PROVE Running'
  <2>1. /\ id[c] \in Ids /\ program[id[c]] = "none"
        /\ \A t \in Ids : program'[t] = IF t = id[c] THEN "runs" ELSE program[t]
        /\ \A d \in Calls : pc'[d] = (IF d = c THEN "record" ELSE pc[d]) /\ id'[d] = id[d]
    BY <1>15, StartShape
  <2>2. reg' = reg /\ reports' = reports /\ stage' = stage
    BY <1>15 DEF Start
  <2>3. \A d \in Calls : pc[d] = "record" => id[d] \in Ids
    BY PlacesTold DEF Shape, Openings
  <2>4. \A d \in Calls : pc'[d] = "record" => program'[id'[d]] = "runs"
    BY <1>1, <2>1, <2>3
  <2>5. \A u \in Alive(reg) : Fit(program, reports, u) => Fit(program', reports', u)
    BY <1>4, <2>1, <2>2
  <2> QED
    BY <1>1, <1>2, <2>2, <2>4, <2>5
<1>16. ASSUME NEW c \in Calls, Record(c) PROVE Running'
  <2>1. Alive(reg') = Alive(reg) \cup {id[c]}
    BY <1>16, RecordIs
  <2>2. Rests(c) /\ UNCHANGED <<host, stage, doomed>> /\ pc[c] = "record"
    BY <1>16, Zenon DEF Record
  <2>3. CallsKept /\ \A d \in Calls : pc'[d] = IF d = c THEN "idle" ELSE pc[d]
    BY <2>2, RestsKeeps
  <2>4. \A d \in Calls : pc'[d] = "record" => pc[d] = "record" /\ id'[d] = id[d]
    BY <2>3, PlacesTold DEF CallsKept
  <2>5. program' = program /\ reports' = reports /\ stage' = stage
    BY <2>2 DEF host
  <2>6. program[id[c]] = "runs"
    BY <1>1, <2>2
  <2>7. \A u \in Alive(reg) : Fit(program, reports, u) => Fit(program', reports', u)
    BY <2>5
  <2>8. Fit(program', reports', id[c])
    BY <2>5, <2>6
  <2> QED
    BY <1>1, <1>2, <2>1, <2>4, <2>5, <2>7, <2>8
<1>17. ASSUME NEW c \in Calls, Dropped(c), pc[c] = "record" PROVE Running'
  <2>1. FALSE
    BY <1>17, Zenon DEF Dropped, NoneIsLost
  <2> QED
    BY <2>1
<1> QED
  BY <1>6, <1>7, <1>8, <1>9, <1>11, <1>12, <1>13, <1>14, <1>15, <1>16, <1>17, NextSteps,
     Zenon DEF Runs

\* The registry and the host agree (TerminalSupervisor::open, pump and
\* SessionRegistry::apply): a terminal the host holds is listed, one listed as
\* running has a program or an exit on its way, as long as a call that has
\* started a program lives to list it, and the program does not end before.
THEOREM RegistryAndHostAgree ==
    ASSUME "quick exit" \notin Allowed, "dropped late" \notin Allowed
    PROVE  Spec => []ListedIsRunning
<1>1. NoneIsQuick /\ NoneIsLost
  BY DEF NoneIsQuick, NoneIsLost
<1>2. Shape /\ Listed /\ Running => ListedIsRunning
  <2>1. Shape => DOMAIN reports = 1..Len(reports)
    BY LenProperties, TypeParts DEF Shape
  <2> QED
    BY <2>1, Zenon DEF Listed, Running, ListedIsRunning, Recording
<1> QED
  BY <1>1, <1>2, ShapeInit, ShapeNext, HostInit, ListedNext, RunningNext, PTL DEF Spec

\* Once PushOS stops nothing is opened, and what runs is ended or to be ended.
LEMMA LeavingNext ==
    NoneComesLate /\ NoneIsLost /\ Shape /\ Listed /\ Leaving /\ [Next]_vars => Leaving'
<1> SUFFICES ASSUME NoneComesLate, NoneIsLost, Shape, Listed, Leaving, [Next]_vars PROVE Leaving'
  OBVIOUS
<1>1. program \in [Ids -> Programs]
  BY TypeParts DEF Shape
<1>2. ASSUME CallsKept, killed \subseteq killed', stage' = stage, doomed' = doomed,
             \A t \in Ids : program'[t] = "runs" => program[t] = "runs"
      PROVE  Leaving'
  BY <1>2 DEF Leaving, CallsKept
<1>3. CASE Quiet
  BY <1>2, <1>3 DEF Quiet
<1>4. CASE Apply
  <2>1. UNCHANGED <<program, killed, calls, stage, doomed>>
    BY <1>4, Zenon DEF Apply
  <2>2. CallsKept
    BY <2>1 DEF calls, CallsKept
  <2> QED
    BY <1>2, <2>1, <2>2
<1>5. ASSUME NEW t \in Ids, Runs(t) PROVE Leaving'
  <2>1. program' = program \/ \E p \in {"ended", "reaped", "reported"} : program' = [program EXCEPT ![t] = p]
    BY <1>5 DEF Runs, Say, End, Reap, Report
  <2>2. \A u \in Ids : program'[u] = "runs" => program[u] = "runs"
    BY <1>1, <2>1
  <2> QED
    BY <1>2, <1>5, <2>2, RunsKeep
<1>6. ASSUME NEW c \in Calls, NEW n \in Names, Open(c, n) PROVE Leaving'
  BY <1>6, OpenIs DEF Leaving
<1>7. ASSUME NEW c \in Calls, Start(c) PROVE Leaving'
  <2>1. pc[c] = "start" /\ stage' = stage
    BY <1>7, Zenon DEF Start
  <2>2. stage = "up"
    BY <2>1, PlacesTold DEF Leaving
  <2> QED
    BY <2>1, <2>2 DEF Leaving
<1>8. ASSUME NEW c \in Calls, Record(c) \/ Dropped(c) PROVE Leaving'
  <2>1. Rests(c) /\ UNCHANGED <<host, stage, doomed>>
    BY <1>8, Zenon DEF Record, Dropped
  <2>2. CallsKept
    BY <2>1, RestsKeeps
  <2> QED
    BY <1>2, <2>1, <2>2 DEF host
<1>9. CASE Leave
  <2>1. /\ stage = "up" /\ stage' = "ending" /\ doomed' = Alive(reg)
        /\ UNCHANGED <<reg, host, calls>>
    BY <1>9, Zenon DEF Leave
  <2>2. \A c \in Calls : pc[c] \notin OpensAt
    BY <1>9, Zenon DEF Leave, NoneComesLate, OpensAt
  <2>3. \A t : ~Recording(t)
    BY <2>2, PlacesTold DEF Recording
  <2>4. \A t \in Ids : program[t] = "runs" => t \in Alive(reg)
    BY <2>1, <2>3 DEF Listed, Hosted
  <2>5. program' = program /\ pc' = pc
    BY <2>1 DEF host, calls
  <2> QED
    BY <2>1, <2>2, <2>4, <2>5 DEF Leaving
<1>10. ASSUME NEW t \in Ids, EndNext(t) PROVE Leaving'
  <2>1. /\ stage = "ending" /\ Kills(t) /\ doomed' = doomed \ {t}
        /\ UNCHANGED <<program, reports, calls, stage>>
    BY <1>10, Zenon DEF EndNext
  <2>2. program[t] = "runs" => t \in killed'
    BY <2>1 DEF Kills, Hosted
  <2>3. killed \subseteq killed'
    BY <2>1 DEF Kills
  <2>4. pc' = pc
    BY <2>1 DEF calls
  <2> QED
    BY <2>1, <2>2, <2>3, <2>4 DEF Leaving
<1>11. CASE Left
  <2>1. /\ stage = "ending" /\ doomed = {} /\ stage' = "down" /\ UNCHANGED <<reg, host, calls, doomed>>
    BY <1>11, Zenon DEF Left
  <2>2. program' = program /\ pc' = pc /\ killed' = killed
    BY <2>1 DEF host, calls
  <2> QED
    BY <2>1, <2>2 DEF Leaving
<1> QED
  BY <1>3, <1>4, <1>5, <1>6, <1>7, <1>8, <1>9, <1>10, <1>11, NextSteps, Zenon DEF Stops

\* When PushOS has ended its terminals nothing it started runs on unasked
\* (TerminalSupervisor::shutdown), as long as none is opened while it looks and
\* a call that has started a program lives to list it.
THEOREM NoneIsLeftRunning ==
    ASSUME "dropped late" \notin Allowed, "opened late" \notin Allowed
    PROVE  Spec => []NoneLeftRunning
<1>1. NoneComesLate /\ NoneIsLost
  BY DEF NoneComesLate, NoneIsLost
<1>2. Leaving => NoneLeftRunning
  BY DEF Leaving, NoneLeftRunning
<1> QED
  BY <1>1, <1>2, ShapeInit, ShapeNext, HostInit, ListedNext, LeavingNext, PTL DEF Spec

=============================================================================
