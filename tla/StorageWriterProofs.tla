------------------------ MODULE StorageWriterProofs ------------------------
(***************************************************************************)
(* What was acknowledged is kept, a trim leaves no step without its run,   *)
(* the window of events holds, and an orderly stop leaves none behind.     *)
(***************************************************************************)
EXTENDS StorageWriter, FiniteSetTheorems, SequenceTheorems, TLAPS

-----------------------------------------------------------------------------
(* Sequences. *)

\* What a sequence becomes when an element joins it.
LEMMA AppendAt ==
    ASSUME NEW S, NEW s \in Seq(S), NEW e \in S
    PROVE  /\ Append(s, e) \in Seq(S) /\ Len(Append(s, e)) = Len(s) + 1
           /\ \A i \in 1..Len(s) : Append(s, e)[i] = s[i]
           /\ Append(s, e)[Len(s) + 1] = e
<1>1. ASSUME NEW i \in 1..Len(s) PROVE Append(s, e)[i] = s[i]
  BY AppendProperties
<1>2. /\ Append(s, e) \in Seq(S) /\ Len(Append(s, e)) = Len(s) + 1
      /\ Append(s, e)[Len(s) + 1] = e
  BY AppendProperties
<1> QED
  BY <1>1, <1>2

\* Short sequences, written out.
LEMMA TailOfThree ==
    ASSUME NEW a, NEW b, NEW c PROVE Tail(<<a, b, c>>) = <<b, c>>
OBVIOUS

\* The same of four.
LEMMA TailOfFour ==
    ASSUME NEW a, NEW b, NEW c, NEW d PROVE Tail(<<a, b, c, d>>) = <<b, c, d>>
OBVIOUS

\* The same of five.
LEMMA TailOfFive ==
    ASSUME NEW a, NEW b, NEW c, NEW d, NEW e
    PROVE  Tail(<<a, b, c, d, e>>) = <<b, c, d, e>>
OBVIOUS

\* The fifth joins four.
LEMMA AppendToFour ==
    ASSUME NEW a, NEW b, NEW c, NEW d, NEW e
    PROVE  Append(<<a, b, c, d>>, e) = <<a, b, c, d, e>>
<1> DEFINE S == {a, b, c, d, e}
           s == <<a, b, c, d>>
           t == <<a, b, c, d, e>>
<1>1. s \in Seq(S) /\ t \in Seq(S) /\ e \in S
  OBVIOUS
<1>2. Len(s) = 4 /\ Len(t) = 5
  OBVIOUS
<1>3. s[1] = a /\ s[2] = b /\ s[3] = c /\ s[4] = d
  OBVIOUS
<1>4. t[1] = a /\ t[2] = b /\ t[3] = c /\ t[4] = d /\ t[5] = e
  OBVIOUS
<1> HIDE DEF S, s, t
<1>5. /\ Append(s, e) \in Seq(S) /\ Len(Append(s, e)) = Len(s) + 1
      /\ \A i \in 1..Len(s) : Append(s, e)[i] = s[i]
      /\ Append(s, e)[Len(s) + 1] = e
  BY <1>1, AppendAt
<1>6. Len(Append(s, e)) = 5 /\ Append(s, e)[5] = e
  BY <1>2, <1>5
<1>7. /\ Append(s, e)[1] = a /\ Append(s, e)[2] = b
      /\ Append(s, e)[3] = c /\ Append(s, e)[4] = d
  BY <1>2, <1>3, <1>5
<1>8. \A i \in 1..5 : i = 1 \/ i = 2 \/ i = 3 \/ i = 4 \/ i = 5
  OBVIOUS
<1>9. \A i \in 1..5 : Append(s, e)[i] = t[i]
  BY <1>4, <1>6, <1>7, <1>8
<1>10. Append(s, e) = t
  BY <1>1, <1>2, <1>5, <1>6, <1>9, SeqEqual
<1> QED
  BY <1>10 DEF s, t

-----------------------------------------------------------------------------
(* The shape of the state. *)

\* What may be left of a request: its own statement, and before it what is
\* left of a trim.
Last   == <<"own">>
Last2  == <<"finished rows", "own">>
Last3  == <<"finished steps", "finished rows", "own">>
Last4  == <<"surplus events", "finished steps", "finished rows", "own">>
Last5  == <<"old events", "surplus events", "finished steps", "finished rows", "own">>
Lefts  == {<<>>, Last, Last2, Last3, Last4, Last5}

\* What drivers ask for, unlike an event or the stop.
Asked(q) == q.what \in {"save", "step"}

\* An event in hand or in the queue is one of those accepted.
Counted(q, n) == q.what = "event" => q.e \in 1..n

Shape ==
    /\ TypeOK
    /\ {since, sent, earlier, starts} \subseteq Nat
    /\ left \in Lefts
    /\ \A i \in 1..Len(queue) : Counted(queue[i], sent)
    /\ hand # None => Counted(hand, sent)
    /\ hand = None => left = <<>> /\ doomed = {} /\ ~failed
    /\ hand # None => thread = "serving" /\ hand.what # "shutdown"
    /\ hand # None /\ hand.what # "event" => doomed = {} /\ left \in {<<>>, Last}
    /\ failed => left = <<>>
    /\ thread # "serving" => queue = <<>>
    /\ thread = "lost" => dropping = "no"

\* A request, field by field.
LEMMA RequestFields ==
    ASSUME NEW q \in Request
    PROVE  /\ q.what \in {"save", "step", "event", "shutdown"}
           /\ q.what = "save" => q.run \in Runs /\ q.row \in Row
           /\ q.what = "step" => q.run \in Runs /\ q.n \in Nat
           /\ q.what = "event" => q.e \in Nat
BY DEF Request, Row

\* One follows from the other.
LEMMA LastStatements ==
    /\ Head(Last)  = "own"            /\ Tail(Last)  = <<>>
    /\ Head(Last2) = "finished rows"  /\ Tail(Last2) = Last
    /\ Head(Last3) = "finished steps" /\ Tail(Last3) = Last2
    /\ Head(Last4) = "surplus events" /\ Tail(Last4) = Last3
    /\ Head(Last5) = "old events"     /\ Tail(Last5) = Last4
    /\ {Last, Last2, Last3, Last4, Last5} \cap {<<>>} = {}
    /\ Last \notin {Last2, Last3, Last4, Last5}
    /\ Last2 \notin {Last3, Last4, Last5}
<1>1. Head(Last) = "own" /\ Tail(Last) = <<>> /\ Last # <<>>
  BY DEF Last
<1>2. Head(Last2) = "finished rows" /\ Tail(Last2) = Last /\ Last2 # <<>>
  BY DEF Last, Last2
<1>3. Tail(Last3) = Last2 /\ Tail(Last4) = Last3 /\ Tail(Last5) = Last4
  <2>1. Tail(Last3) = Last2
    BY TailOfThree, Zenon DEF Last2, Last3
  <2>2. Tail(Last4) = Last3
    BY TailOfFour, Zenon DEF Last3, Last4
  <2>3. Tail(Last5) = Last4
    <3>1. \A b, c, d, e : Tail(<<"old events", b, c, d, e>>) = <<b, c, d, e>>
      BY TailOfFive, Zenon
    <3>2. \A b : Tail(<<"old events", b, "finished steps", "finished rows", "own">>)
                 = <<b, "finished steps", "finished rows", "own">>
      BY <3>1, Zenon
    <3> QED
      BY <3>2, Zenon DEF Last4, Last5
  <2> QED
    BY <2>1, <2>2, <2>3
<1>4. Head(Last3) = "finished steps" /\ Last3 # <<>>
  BY DEF Last3
<1>5. Head(Last4) = "surplus events" /\ Last4 # <<>>
  BY DEF Last4
<1>6. Head(Last5) = "old events" /\ Last5 # <<>>
  BY DEF Last5
<1> QED
  BY <1>1, <1>2, <1>3, <1>4, <1>5, <1>6

\* The statements of a request, one after the other.
LEMMA LeftTail ==
    ASSUME left \in Lefts, left # <<>>
    PROVE  /\ Tail(left) \in Lefts
           /\ Head(left) \in {"own", "finished rows", "finished steps", "surplus events", "old events"}
           /\ Head(left) = "own" <=> left = Last
           /\ Tail(left) = <<>> <=> left = Last
           /\ Head(left) = "finished rows" <=> left = Last2
           /\ Tail(left) = Last2 => Head(left) = "finished steps"
           /\ Head(left) \in {"old events", "surplus events"} => Tail(left) \notin {Last, Last2}
BY LastStatements, ZenonT(60) DEF Lefts

\* A trim comes before the event it is made for.
LEMMA TrimmingThenOwn == Append(Trimming, "own") = Last5
BY AppendToFour, Zenon DEF Trimming, Last5

\* They are all statements the thread knows.
Statements == {"own", Trimming[1], Trimming[2], Trimming[3], Trimming[4]}

\* What is left of a request is a sequence of statements.
LEMMA LeftsType == Lefts \subseteq Seq(Statements)
<1>1. \A S : <<>> \in Seq(S)
  BY EmptySeq
<1> QED
  BY <1>1 DEF Lefts, Last, Last2, Last3, Last4, Last5, Trimming, Statements

\* What the numbers of the model are (StorageWriter::open and its constants).
LEMMA Numbers ==
    /\ Capacity \in Nat \ {0} /\ TrimEvery \in Nat \ {0} /\ EventsKept \in Nat \ {0}
    /\ MostStarts \in Nat /\ FinishedKept \in Nat /\ None \notin Runs /\ None \notin Request
BY ConstantsAssumption, NobodyAssumption

\* The storage is opened on an empty record, with nothing asked.
LEMMA ShapeInit == Init => Shape
<1> SUFFICES ASSUME Init PROVE Shape
  OBVIOUS
<1>1. <<>> \in Seq(Request) /\ Len(<<>>) = 0
  BY EmptySeq
<1>2. <<>> \in Lefts
  BY DEF Lefts
<1>3. NoRow \in Row
  BY DEF NoRow, Row
<1>4. rows \in [Runs -> Row] /\ steps \in [Runs -> Nat]
  BY <1>3 DEF Init
<1>5. told \in [Runs -> [row : Row, steps : Nat]]
  BY <1>3 DEF Init
<1>6. left \in Seq(Statements)
  BY <1>2, LeftsType DEF Init
<1>7. queue \in Seq(Request) /\ Len(queue) <= Capacity /\ since < TrimEvery
  BY <1>1, Numbers DEF Init
<1>8. events \subseteq 1..sent /\ earlier <= sent /\ hand \in Request \cup {None}
  BY DEF Init
<1>9. TypeOK
  BY <1>4, <1>5, <1>6, <1>7, <1>8 DEF Init, TypeOK, Statements
<1> QED
  BY <1>2, <1>9 DEF Init, Shape

\* What is put in the queue finds room in it.
LEMMA Queued ==
    ASSUME Shape, NEW q \in Request, Puts(q)
    PROVE  /\ queue' \in Seq(Request) /\ Len(queue') <= Capacity /\ thread = "serving"
           /\ Len(queue) \in Nat /\ Len(queue') = Len(queue) + 1
           /\ \A i \in 1..Len(queue) : queue'[i] = queue[i]
           /\ queue'[Len(queue')] = q
<1>1. queue \in Seq(Request) /\ Len(queue) \in Nat /\ Capacity \in Nat
  BY LenProperties, Numbers DEF Shape, TypeOK
<1>2. Len(queue) < Capacity /\ thread = "serving" /\ queue' = Append(queue, q)
  BY <1>1 DEF Puts, Refused
<1> QED
  BY <1>1, <1>2, AppendAt

\* Asking leaves the rest of the state as it is.
LEMMA ShapeAsks ==
    ASSUME Shape, NEW r \in Runs, NEW q \in Request, Asks(r, q), q.what # "event",
           UNCHANGED <<worker, disk, told, count, dropping>>
    PROVE  Shape'
<1> USE DEF worker, disk, count
<1>1. /\ queue' \in Seq(Request) /\ Len(queue') <= Capacity
      /\ thread # "serving" => queue' = <<>>
  <2>1. CASE Puts(q)
    BY <2>1, Queued
  <2>2. CASE UNCHANGED queue
    BY <2>2 DEF Shape, TypeOK
  <2> QED
    BY <2>1, <2>2 DEF Asks
<1>2. pc' \in [Runs -> {"new", "ready", "waiting", "over", "down"}]
  BY DEF Asks, Shape, TypeOK
<1>3. \A i \in 1..Len(queue') : Counted(queue'[i], sent')
  <2>1. CASE Puts(q)
    BY <2>1, Queued, SMTT(20) DEF Shape, Counted
  <2>2. CASE UNCHANGED queue
    BY <2>2 DEF Shape, Counted
  <2> QED
    BY <2>1, <2>2 DEF Asks
<1>4. TypeOK'
  BY <1>1, <1>2 DEF Shape, TypeOK
<1> QED
  BY <1>1, <1>3, <1>4 DEF Shape, Counted

\* Asking for a row to be written (StorageWriter::save_run).
LEMMA ShapeSave ==
    ASSUME Shape, NEW r \in Runs, Save(r)
    PROVE  Shape'
<1>1. PICK over \in BOOLEAN :
         Asks(r, [what |-> "save", run |-> r, row |-> [v |-> told[r].row.v + 1, over |-> over]])
  BY DEF Save
<1>2. told[r].row.v + 1 \in Nat
  BY DEF Shape, TypeOK, Row
<1>3. [what |-> "save", run |-> r, row |-> [v |-> told[r].row.v + 1, over |-> over]] \in Request
  BY <1>2 DEF Request, Row
<1> QED
  BY <1>1, <1>3, ShapeAsks DEF Save

\* Asking for a step to be recorded (StorageWriter::append_transition).
LEMMA ShapeStep ==
    ASSUME Shape, NEW r \in Runs, Step(r)
    PROVE  Shape'
<1>1. told[r].steps + 1 \in Nat
  BY DEF Shape, TypeOK
<1>2. [what |-> "step", run |-> r, n |-> told[r].steps + 1] \in Request
  BY <1>1 DEF Request
<1> QED
  BY <1>2, ShapeAsks DEF Step

\* Putting an event in the queue, or leaving it out (StorageWriter::record_event).
LEMMA ShapeRecordEvent ==
    ASSUME Shape, RecordEvent
    PROVE  Shape'
<1> USE DEF worker, disk, askers, count
<1>1. sent' = sent + 1 /\ sent \in Nat
  BY DEF RecordEvent, Shape
<1>2. [what |-> "event", e |-> sent + 1] \in Request
  BY <1>1 DEF Request
<1>3. queue' \in Seq(Request) /\ Len(queue') <= Capacity /\ thread = "serving"
  BY <1>2, Queued DEF RecordEvent
<1>4. events' \subseteq 1..sent'
  BY <1>1 DEF RecordEvent, Shape, TypeOK
<1>5. TypeOK'
  BY <1>1, <1>3, <1>4 DEF RecordEvent, Shape, TypeOK
<1>6. \A i \in 1..Len(queue') : Counted(queue'[i], sent')
  <2>0. Puts([what |-> "event", e |-> sent + 1])
    BY DEF RecordEvent
  <2>1. /\ Len(queue) \in Nat /\ Len(queue') = Len(queue) + 1
        /\ \A i \in 1..Len(queue) : queue'[i] = queue[i]
        /\ queue'[Len(queue')] = [what |-> "event", e |-> sent + 1]
    BY <1>2, <2>0, Queued
  <2>2. Counted(queue'[Len(queue')], sent')
    BY <1>1, <2>1 DEF Counted
  <2>3. ASSUME NEW i \in 1..Len(queue)
        PROVE  Counted(queue'[i], sent')
    BY <1>1, <2>1, <2>3 DEF Counted, Shape
  <2>4. \A i \in 1..Len(queue') : i \in 1..Len(queue) \/ i = Len(queue')
    BY <2>1
  <2> QED
    BY <2>2, <2>3, <2>4
<1> QED
  BY <1>1, <1>3, <1>5, <1>6 DEF RecordEvent, Shape, Counted

\* The thread takes the oldest request, and a trim comes first when one is due.
LEMMA ShapeTake ==
    ASSUME Shape, Take
    PROVE  Shape'
<1> USE DEF disk, count
<1> DEFINE r == Head(queue)
<1>1. /\ queue \in Seq(Request) /\ queue # <<>> /\ hand = None /\ thread = "serving"
      /\ left = <<>> /\ ~failed
  BY DEF Shape, TypeOK, Take
<1>2. r \in Request /\ Tail(queue) \in Seq(Request) /\ Len(Tail(queue)) = Len(queue) - 1
  BY <1>1, HeadTailProperties
<1>3. Len(queue) \in Nat /\ Len(queue) <= Capacity /\ Capacity \in Nat /\ TrimEvery \in Nat \ {0}
  BY <1>1, LenProperties, Numbers DEF Shape, TypeOK
<1>4. CASE r.what = "shutdown"
  <2>1. queue' = <<>> /\ queue' \in Seq(Request) /\ Len(queue') <= Capacity
    BY <1>3, <1>4, EmptySeq DEF Take
  <2>2. pc' \in [Runs -> {"new", "ready", "waiting", "over", "down"}]
    BY <1>4 DEF Take, Shape, TypeOK
  <2>3. TypeOK'
    BY <1>4, <2>1, <2>2 DEF Take, Shape, TypeOK
  <2> QED
    BY <1>1, <1>4, <2>1, <2>3 DEF Take, Shape
<1>5. CASE r.what # "shutdown"
  <2>1. hand' = r /\ queue' = Tail(queue) /\ UNCHANGED <<thread, pc, failed>>
    BY <1>5 DEF Take
  <2>2. /\ left' = IF Trims(r) THEN Append(Trimming, "own") ELSE <<"own">>
        /\ since' = IF r.what # "event" THEN since ELSE IF Trims(r) THEN 0 ELSE since + 1
        /\ doomed' \in IF Trims(r) THEN Stale ELSE {{}}
    BY <1>5 DEF Take
  <2>3. left' \in Lefts
    BY <2>2, TrimmingThenOwn DEF Lefts, Last
  <2>4. since' \in Nat /\ since' < TrimEvery
    BY <1>3, <2>2 DEF Trims, Shape, TypeOK
  <2>5. doomed' \subseteq Runs
    BY <2>2 DEF Stale, Finished
  <2>6. r.what # "event" => doomed' = {} /\ left' = Last
    BY <2>2 DEF Trims, Last
  <2>7. hand' # None
    BY <1>2, <2>1, Numbers
  <2>8. TypeOK'
    <3>1. left' \in Seq(Statements)
      BY <2>3, LeftsType
    <3> QED
      BY <1>2, <1>3, <2>1, <2>4, <2>5, <3>1 DEF Take, Shape, TypeOK, Statements
  <2> QED
    BY <1>1, <1>5, <2>1, <2>3, <2>4, <2>6, <2>7, <2>8 DEF Take, Shape
<1> QED
  BY <1>4, <1>5

\* What a request writes, one kind at a time.
LEMMA OwnWrites ==
    ASSUME NEW q \in Request, q.what # "shutdown", Own(q)
    PROVE  /\ q.what = "save" => rows' = [rows EXCEPT ![q.run] = q.row] /\ UNCHANGED <<steps, events>>
           /\ q.what = "step" => steps' = [steps EXCEPT ![q.run] = q.n] /\ UNCHANGED <<rows, events>>
           /\ q.what = "event" => events' = events \cup {q.e} /\ UNCHANGED <<rows, steps>>
BY Zenon DEF Own

\* What each statement of a trim removes.
LEMMA TrimWrites ==
    ASSUME NEW s, TrimStatement(s)
    PROVE  /\ s = "old events" =>
                 (\E cut \in 0..earlier : events' = {e \in events : e > cut}) /\ UNCHANGED <<rows, steps>>
           /\ s = "surplus events" => events' = events \ Surplus /\ UNCHANGED <<rows, steps>>
           /\ s = "finished steps" =>
                 /\ steps' = [r \in Runs |-> IF r \in doomed THEN 0 ELSE steps[r]]
                 /\ UNCHANGED <<rows, events>>
           /\ s = "finished rows" =>
                 /\ rows' = [r \in Runs |-> IF r \in doomed THEN NoRow ELSE rows[r]]
                 /\ UNCHANGED <<steps, events>>
           /\ s \in {"old events", "surplus events", "finished steps", "finished rows"}
BY DEF TrimStatement

\* A statement writes rows, steps and events of their types.
LEMMA StatementTypes ==
    ASSUME Shape, thread = "serving", left # <<>>, Statement(Head(left)), UNCHANGED <<sent, hand>>
    PROVE  /\ rows' \in [Runs -> Row] /\ steps' \in [Runs -> Nat] /\ events' \subseteq 1..sent
           /\ Head(left) = "own" => hand \in Request /\ hand # None /\ hand.what \in {"save", "step", "event"}
<1>1. hand \in Request /\ hand # None /\ hand.what # "shutdown"
  BY DEF Shape, TypeOK
<1>2. /\ hand.what = "save" => hand.run \in Runs /\ hand.row \in Row
      /\ hand.what = "step" => hand.run \in Runs /\ hand.n \in Nat
      /\ hand.what \in {"save", "step", "event"}
  BY <1>1, RequestFields
<1>3. rows \in [Runs -> Row] /\ steps \in [Runs -> Nat] /\ events \subseteq 1..sent
  BY DEF Shape, TypeOK
<1>4. CASE Head(left) = "own"
  <2>1. /\ hand.what = "save" => rows' = [rows EXCEPT ![hand.run] = hand.row] /\ UNCHANGED <<steps, events>>
        /\ hand.what = "step" => steps' = [steps EXCEPT ![hand.run] = hand.n] /\ UNCHANGED <<rows, events>>
        /\ hand.what = "event" => events' = events \cup {hand.e} /\ UNCHANGED <<rows, steps>>
    BY <1>1, <1>4, OwnWrites DEF Statement
  <2>2. rows' \in [Runs -> Row] /\ steps' \in [Runs -> Nat]
    BY <1>2, <1>3, <2>1
  <2>3. hand.what = "event" => hand.e \in 1..sent
    BY <1>1 DEF Shape, Counted
  <2>4. events' \subseteq 1..sent
    BY <1>2, <1>3, <2>1, <2>3
  <2> QED
    BY <1>1, <1>2, <2>2, <2>4
<1>5. CASE Head(left) # "own"
  <2>1. NoRow \in Row
    BY DEF NoRow, Row
  <2>2. TrimStatement(Head(left))
    BY <1>5 DEF Statement
  <2>3. CASE Head(left) \in {"old events", "surplus events"}
    BY <1>3, <2>2, <2>3, TrimWrites
  <2>4. CASE Head(left) = "finished steps"
    <3>1. /\ steps' = [r \in Runs |-> IF r \in doomed THEN 0 ELSE steps[r]]
          /\ UNCHANGED <<rows, events>>
      BY <2>2, <2>4, TrimWrites, Zenon
    <3>2. steps' \in [Runs -> Nat]
      BY <1>3, <3>1
    <3> QED
      BY <1>3, <1>5, <3>1, <3>2
  <2>5. CASE Head(left) = "finished rows"
    BY <1>3, <2>1, <2>2, <2>5, TrimWrites
  <2> QED
    BY <1>5, <2>2, <2>3, <2>4, <2>5, TrimWrites
<1> QED
  BY <1>4, <1>5

\* The thread executes a statement, fails, or answers.
LEMMA ShapeThread ==
    ASSUME Shape, Execute \/ Fails \/ Answer
    PROVE  Shape'
<1> USE DEF askers, count
<1>1. CASE Execute
  <2>1. left # <<>> /\ left' = Tail(left) /\ Statement(Head(left)) /\ thread = "serving"
        /\ UNCHANGED <<queue, thread, hand, failed, since, doomed, pc, told, sent, earlier, starts, dropping>>
    BY <1>1 DEF Execute
  <2>2. left' \in Lefts /\ hand # None
    BY <2>1, LeftTail DEF Shape
  <2>3. left \in {<<>>, Last} => left' = <<>>
    BY <2>1, LastStatements
  <2>4. rows' \in [Runs -> Row] /\ steps' \in [Runs -> Nat] /\ events' \subseteq 1..sent
    BY <2>1, StatementTypes
  <2>5. TypeOK'
    <3>1. left' \in Seq(Statements)
      BY <2>2, LeftsType
    <3> QED
      BY <2>1, <2>4, <3>1 DEF Shape, TypeOK, Statements
  <2>6. ~failed
    BY <2>1 DEF Shape
  <2> QED
    BY <2>1, <2>2, <2>3, <2>5, <2>6 DEF Shape
<1>2. CASE Fails
  <2>1. left' \in {<<>>, Last} /\ (Head(left) # "own" => left' = Last) /\ left # <<>>
        /\ failed' = (Head(left) = "own")
        /\ (Head(left) = "own" => left' = <<>>)
        /\ UNCHANGED <<queue, thread, hand, since, doomed, disk, pc, told, sent, earlier, starts, dropping>>
    BY <1>2 DEF Fails, Last
  <2>2. left' \in Lefts /\ left' \in Seq(Statements)
    BY <2>1, LeftsType DEF Lefts
  <2>3. TypeOK'
    BY <2>1, <2>2 DEF Shape, TypeOK, Statements, disk
  <2>4. hand # None
    BY <2>1 DEF Shape
  <2> QED
    BY <2>1, <2>2, <2>3, <2>4 DEF Shape, disk
<1>3. CASE Answer
  <2>1. /\ hand \in Request /\ hand # None /\ left = <<>> /\ hand' = None /\ failed' = FALSE /\ doomed' = {}
        /\ hand.what # "shutdown" /\ thread = "serving"
        /\ UNCHANGED <<queue, thread, left, since, disk, count, dropping>>
    BY <1>3 DEF Answer, Shape, TypeOK
  <2>2. /\ hand.what = "save" => hand.run \in Runs /\ hand.row \in Row
        /\ hand.what = "step" => hand.run \in Runs /\ hand.n \in Nat
        /\ hand.what \in {"save", "step", "event"}
    BY <2>1, RequestFields
  <2>3. pc' \in [Runs -> {"new", "ready", "waiting", "over", "down"}]
    BY <1>3 DEF Answer, Shape, TypeOK
  <2>4. told' \in [Runs -> [row : Row, steps : Nat]]
    <3>1. CASE hand.what = "event" \/ failed
      BY <1>3, <3>1 DEF Answer, Shape, TypeOK
    <3>2. CASE hand.what # "event" /\ ~failed
      <4>1. told' = [told EXCEPT ![hand.run] = Acknowledged(hand.run)]
        BY <1>3, <3>2 DEF Answer
      <4>2. Acknowledged(hand.run) \in [row : Row, steps : Nat]
        BY <2>2, <3>2 DEF Acknowledged, Shape, TypeOK
      <4> QED
        BY <4>1, <4>2 DEF Shape, TypeOK
    <3> QED
      BY <3>1, <3>2
  <2>5. TypeOK'
    BY <2>1, <2>3, <2>4 DEF Shape, TypeOK, disk
  <2> QED
    BY <2>1, <2>5 DEF Shape, disk
<1> QED
  BY <1>1, <1>2, <1>3

\* What a start reads back, run by run (StorageWriter::open).
LEMMA StartReads ==
    ASSUME Shape, Start
    PROVE  /\ \E gone \in Stale :
                 /\ steps' = [r \in Runs |-> IF r \in gone THEN 0 ELSE steps[r]]
                 /\ rows' = [r \in Runs |-> IF r \in gone THEN NoRow ELSE rows[r]]
           /\ rows' \in [Runs -> Row] /\ steps' \in [Runs -> Nat] /\ events' \subseteq 1..sent
           /\ told' = [r \in Runs |-> [row |-> rows'[r], steps |-> steps'[r]]]
           /\ told' \in [Runs -> [row : Row, steps : Nat]]
<1>1. PICK cut \in 0..sent, gone \in Stale :
         /\ events' = {e \in events : e > cut} \ Surplus
         /\ steps' = [r \in Runs |-> IF r \in gone THEN 0 ELSE steps[r]]
         /\ rows' = [r \in Runs |-> IF r \in gone THEN NoRow ELSE rows[r]]
  BY Zenon DEF Start
<1>2. NoRow \in Row
  BY DEF NoRow, Row
<1>3. rows' \in [Runs -> Row]
  BY <1>1, <1>2 DEF Shape, TypeOK
<1>4. steps' \in [Runs -> Nat]
  BY <1>1 DEF Shape, TypeOK
<1>5. events' \subseteq 1..sent
  BY <1>1 DEF Shape, TypeOK
<1>6. told' = [r \in Runs |-> [row |-> rows'[r], steps |-> steps'[r]]]
  BY DEF Start
<1>7. told' \in [Runs -> [row : Row, steps : Nat]]
  BY <1>3, <1>4, <1>6
<1> QED
  BY <1>1, <1>3, <1>4, <1>5, <1>6, <1>7

\* The process is lost, stopped or started.
LEMMA ShapeProcess ==
    ASSUME Shape, Drop \/ SendShutdown \/ Lost \/ Start
    PROVE  Shape'
<1> USE DEF worker, disk, askers, count
<1>1. CASE Drop
  <2>1. TypeOK'
    BY <1>1 DEF Drop, Shape, TypeOK
  <2> QED
    BY <1>1, <2>1 DEF Drop, Shape
<1>2. CASE SendShutdown
  <2>1. [what |-> "shutdown"] \in Request
    BY DEF Request
  <2>2. TypeOK'
    BY <1>2, <2>1, Queued DEF SendShutdown, Shape, TypeOK
  <2>3. \A i \in 1..Len(queue') : Counted(queue'[i], sent')
    BY <1>2, <2>1, Queued DEF SendShutdown, Shape, Counted
  <2> QED
    BY <1>2, <2>1, <2>2, <2>3, Queued DEF SendShutdown, Shape, Counted
<1>3. CASE Lost
  <2>1. queue' = <<>> /\ queue' \in Seq(Request) /\ Len(queue') = 0
    BY <1>3, EmptySeq DEF Lost
  <2>2. left' = <<>> /\ left' \in Lefts /\ left' \in Seq(Statements)
    BY <1>3, LeftsType DEF Lost, Lefts
  <2>3. pc' \in [Runs -> {"new", "ready", "waiting", "over", "down"}]
    BY <1>3 DEF Lost, Shape, TypeOK
  <2>4. since' \in Nat /\ since' < TrimEvery /\ Len(queue') <= Capacity
    BY <1>3, <2>1, Numbers DEF Lost
  <2>5. TypeOK'
    BY <1>3, <2>1, <2>2, <2>3, <2>4 DEF Lost, Shape, TypeOK, Statements
  <2> QED
    BY <1>3, <2>1, <2>2, <2>4, <2>5 DEF Lost, Shape
<1>4. CASE Start
  <2>1. pc' \in [Runs -> {"new", "ready", "waiting", "over", "down"}]
    BY <1>4 DEF Start
  <2>2. TypeOK'
    BY <1>4, <2>1, StartReads DEF Start, Shape, TypeOK
  <2> QED
    BY <1>4, <2>2 DEF Start, Shape
<1> QED
  BY <1>1, <1>2, <1>3, <1>4

\* Every step keeps the types and what is left of the request at hand.
LEMMA ShapeNext == Shape /\ [Next]_vars => Shape'
<1> SUFFICES ASSUME Shape, [Next]_vars
             PROVE  Shape'
  OBVIOUS
<1>1. CASE Next
  BY <1>1, ShapeSave, ShapeStep, ShapeRecordEvent, ShapeTake, ShapeThread, ShapeProcess
  DEF Next, Thread
<1>2. CASE UNCHANGED vars
  BY <1>2 DEF vars, worker, disk, askers, count, Shape, TypeOK
<1> QED
  BY <1>1, <1>2

\* The state of the storage is what its types say (the queue never holds more
\* than QUEUE_CAPACITY, the record is trimmed at least every TRIM_EVERY events).
THEOREM StorageTypes == Spec => []TypeOK
<1>1. Spec => []Shape
  BY ShapeInit, ShapeNext, PTL DEF Spec
<1>2. Shape => TypeOK
  BY DEF Shape
<1> QED
  BY <1>1, <1>2, PTL

-----------------------------------------------------------------------------
(* What was acknowledged. *)

\* What a driver asked for follows what it was told, and it waits.
Fits(q, at, knows) ==
    /\ Asked(q) => at[q.run] = "waiting"
    /\ q.what = "save" => q.row.v = knows[q.run].row.v + 1
    /\ q.what = "step" => q.n = knows[q.run].steps + 1

\* It asks for one thing at a time.
Requests ==
    /\ \A i \in 1..Len(queue) : Fits(queue[i], pc, told)
    /\ hand # None => Fits(hand, pc, told)
    /\ \A i, j \in 1..Len(queue) :
          i # j /\ Asked(queue[i]) /\ Asked(queue[j]) => queue[i].run # queue[j].run
    /\ hand # None /\ Asked(hand) =>
          \A i \in 1..Len(queue) : Asked(queue[i]) => queue[i].run # hand.run

\* The last row of a run is on disk and its driver is yet to hear so.
Closing(r) ==
    /\ hand # None /\ hand.what = "save" /\ hand.run = r /\ hand.row.over
    /\ left = <<>> /\ ~failed

\* What is on disk of a run, and what its driver knows of it: only a run whose
\* driver knows it is over is ever trimmed.
Recorded(r) ==
    /\ pc[r] = "new" => /\ rows[r] = NoRow /\ steps[r] = 0
                        /\ told[r].row = NoRow /\ told[r].steps = 0
    /\ told[r].row.over => pc[r] \in {"over", "down"}
    /\ rows[r].over => thread = "lost" \/ Closing(r) \/ (told[r].row.over /\ pc[r] = "over")
    /\ ~told[r].row.over => rows[r].v >= told[r].row.v /\ steps[r] >= told[r].steps
    /\ r \in doomed => told[r].row.over /\ pc[r] = "over"

\* What a request wrote before it is answered.
Written ==
    hand # None /\ left = <<>> /\ ~failed =>
        /\ hand.what = "save" => rows[hand.run] = hand.row
        /\ hand.what = "step" => steps[hand.run] = hand.n

Kept == Shape /\ Requests /\ (\A r \in Runs : Recorded(r)) /\ Written

\* The elements of the queue are requests.
LEMMA QueueFields ==
    ASSUME Shape, NEW i \in 1..Len(queue)
    PROVE  /\ queue[i] \in Request
           /\ Asked(queue[i]) => queue[i].run \in Runs
           /\ queue[i].what = "save" => queue[i].row \in Row
           /\ queue[i].what = "step" => queue[i].n \in Nat
           /\ queue[i].what \in {"save", "step", "event", "shutdown"}
<1>1. queue[i] \in Request
  BY ElementOfSeq DEF Shape, TypeOK
<1> QED
  BY <1>1, RequestFields DEF Asked

\* So is what is at hand.
LEMMA HandFields ==
    ASSUME Shape, hand # None
    PROVE  /\ hand \in Request /\ thread = "serving"
           /\ Asked(hand) => hand.run \in Runs
           /\ hand.what = "save" => hand.row \in Row
           /\ hand.what = "step" => hand.n \in Nat
           /\ hand.what \in {"save", "step", "event"}
<1>1. hand \in Request /\ thread = "serving" /\ hand.what # "shutdown"
  BY DEF Shape, TypeOK
<1> QED
  BY <1>1, RequestFields DEF Asked

\* What a driver was told, and what is on disk of its run.
LEMMA ToldFields ==
    ASSUME Shape, NEW r \in Runs
    PROVE  /\ told[r].row \in Row /\ told[r].steps \in Nat /\ told[r].row.v \in Nat
           /\ told[r].row.over \in BOOLEAN
           /\ told[r].row.v + 1 \in Nat /\ told[r].steps + 1 \in Nat
           /\ rows[r] \in Row /\ rows[r].v \in Nat /\ rows[r].over \in BOOLEAN /\ steps[r] \in Nat
BY DEF Shape, TypeOK, Row

\* A driver that is not waiting has asked for nothing, so it may ask.
LEMMA RequestsAsks ==
    ASSUME Shape, Requests, NEW r \in Runs, NEW q \in Request, Asks(r, q), Asked(q), q.run = r,
           pc[r] # "waiting",
           q.what = "save" => q.row.v = told[r].row.v + 1,
           q.what = "step" => q.n = told[r].steps + 1,
           UNCHANGED <<worker, told>>
    PROVE  Requests'
<1> USE DEF worker
<1>1. pc \in [Runs -> {"new", "ready", "waiting", "over", "down"}]
  BY DEF Shape, TypeOK
<1>2. \A x \in Runs : x # r => pc'[x] = pc[x]
  BY <1>1 DEF Asks
<1>3. \A i \in 1..Len(queue) : Asked(queue[i]) => queue[i].run \in Runs /\ queue[i].run # r
  BY QueueFields DEF Requests, Fits
<1>4. hand # None /\ Asked(hand) => hand.run \in Runs /\ hand.run # r
  BY HandFields DEF Requests, Fits
<1>5. \A i \in 1..Len(queue) : Fits(queue[i], pc', told')
  BY <1>2, <1>3 DEF Requests, Fits
<1>6. hand' # None => Fits(hand', pc', told')
  BY <1>2, <1>4 DEF Requests, Fits
<1>7. CASE UNCHANGED queue
  BY <1>5, <1>6, <1>7 DEF Requests
<1>8. CASE Puts(q) /\ pc' = [pc EXCEPT ![r] = "waiting"]
  <2>1. /\ Len(queue) \in Nat /\ Len(queue') = Len(queue) + 1
        /\ \A i \in 1..Len(queue) : queue'[i] = queue[i]
        /\ queue'[Len(queue')] = q
    BY <1>8, Queued
  <2>2. \A i \in 1..Len(queue') : i = Len(queue') \/ i \in 1..Len(queue)
    BY <2>1
  <2>3. pc'[r] = "waiting"
    BY <1>1, <1>8
  <2>4. Fits(q, pc', told')
    BY <2>3 DEF Fits
  <2>5. \A i \in 1..Len(queue') : Fits(queue'[i], pc', told')
    BY <1>5, <2>1, <2>2, <2>4 DEF Fits
  <2>6. \A i, j \in 1..Len(queue') :
           i # j /\ Asked(queue'[i]) /\ Asked(queue'[j]) => queue'[i].run # queue'[j].run
    BY <1>3, <2>1, <2>2 DEF Requests
  <2>7. hand' # None /\ Asked(hand') =>
           \A i \in 1..Len(queue') : Asked(queue'[i]) => queue'[i].run # hand'.run
    BY <1>4, <2>1, <2>2 DEF Requests
  <2> QED
    BY <1>6, <2>5, <2>6, <2>7 DEF Requests
<1> QED
  BY <1>7, <1>8 DEF Asks

\* Every step keeps one request at most of every driver on its way.
LEMMA RequestsStep ==
    ASSUME Shape, Requests, Shape', [Next]_vars
    PROVE  Requests'
<1>1. CASE UNCHANGED vars
  BY <1>1 DEF vars, worker, askers, Requests, Fits
<1>2. ASSUME NEW r \in Runs, Save(r) PROVE Requests'
  <2>1. PICK over \in BOOLEAN :
           Asks(r, [what |-> "save", run |-> r, row |-> [v |-> told[r].row.v + 1, over |-> over]])
    BY <1>2 DEF Save
  <2> DEFINE q == [what |-> "save", run |-> r, row |-> [v |-> told[r].row.v + 1, over |-> over]]
  <2>2. told[r].row.v + 1 \in Nat
    BY ToldFields
  <2>3. q \in Request /\ q.what = "save" /\ q.run = r /\ q.row.v = told[r].row.v + 1
    BY <2>2 DEF Request, Row
  <2>4. pc[r] # "waiting" /\ UNCHANGED <<worker, told>>
    BY <1>2 DEF Save
  <2> HIDE DEF q
  <2> QED
    BY <2>1, <2>3, <2>4, RequestsAsks DEF Asked, q
<1>3. ASSUME NEW r \in Runs, Step(r) PROVE Requests'
  <2> DEFINE q == [what |-> "step", run |-> r, n |-> told[r].steps + 1]
  <2>1. told[r].steps + 1 \in Nat
    BY ToldFields
  <2>2. q \in Request /\ q.what = "step" /\ q.run = r /\ q.n = told[r].steps + 1
    BY <2>1 DEF Request
  <2>3. pc[r] # "waiting" /\ UNCHANGED <<worker, told>> /\ Asks(r, q)
    BY <1>3 DEF Step
  <2> HIDE DEF q
  <2> QED
    BY <2>2, <2>3, RequestsAsks DEF Asked
<1>4. ASSUME NEW q \in Request, ~Asked(q), Puts(q), UNCHANGED <<hand, pc, told>> PROVE Requests'
  <2>1. /\ Len(queue) \in Nat /\ Len(queue') = Len(queue) + 1
        /\ \A i \in 1..Len(queue) : queue'[i] = queue[i]
        /\ queue'[Len(queue')] = q
    BY <1>4, Queued
  <2>2. \A i \in 1..Len(queue') : i = Len(queue') \/ i \in 1..Len(queue)
    BY <2>1
  <2>3. \A i \in 1..Len(queue') : Fits(queue'[i], pc', told')
    BY <1>4, <2>1, <2>2 DEF Requests, Fits, Asked
  <2>4. \A i, j \in 1..Len(queue') :
           i # j /\ Asked(queue'[i]) /\ Asked(queue'[j]) => queue'[i].run # queue'[j].run
    BY <1>4, <2>1, <2>2 DEF Requests
  <2>5. hand' # None /\ Asked(hand') =>
           \A i \in 1..Len(queue') : Asked(queue'[i]) => queue'[i].run # hand'.run
    BY <1>4, <2>1, <2>2 DEF Requests
  <2>6. hand' # None => Fits(hand', pc', told')
    BY <1>4 DEF Requests, Fits
  <2> QED
    BY <2>3, <2>4, <2>5, <2>6 DEF Requests
<1>5. CASE RecordEvent
  <2>1. [what |-> "event", e |-> sent + 1] \in Request /\ ~Asked([what |-> "event", e |-> sent + 1])
    BY DEF Request, Shape, Asked
  <2> QED
    BY <1>4, <1>5, <2>1 DEF RecordEvent, worker, askers
<1>6. CASE SendShutdown
  <2>1. [what |-> "shutdown"] \in Request /\ ~Asked([what |-> "shutdown"])
    BY DEF Request, Asked
  <2> QED
    BY <1>4, <1>6, <2>1 DEF SendShutdown, worker, askers
<1>7. ASSUME queue' = <<>>, hand' = None PROVE Requests'
  <2>1. Len(queue') = 0
    BY <1>7
  <2>2. 1..Len(queue') = {}
    BY <2>1
  <2> QED
    BY <1>7, <2>2 DEF Requests
<1>8. CASE Lost \/ Start
  BY <1>7, <1>8 DEF Lost, Start, Shape
<1>9. CASE Take
  <2> DEFINE r == Head(queue)
  <2>1. CASE r.what = "shutdown"
    BY <1>7, <1>9, <2>1 DEF Take
  <2>2. CASE r.what # "shutdown"
    <3>1. hand' = r /\ queue' = Tail(queue) /\ UNCHANGED <<pc, told>> /\ queue # <<>>
      BY <1>9, <2>2 DEF Take
    <3>2. queue \in Seq(Request)
      BY DEF Shape, TypeOK
    <3>3. /\ Len(queue) \in Nat /\ Len(queue') = Len(queue) - 1 /\ Len(queue) >= 1
          /\ \A i \in 1..Len(queue') : queue'[i] = queue[i + 1]
      BY <3>1, <3>2, HeadTailProperties, LenProperties, EmptySeq
    <3>4. r = queue[1]
      BY <3>1, <3>2
    <3>5. \A i \in 1..Len(queue') : i + 1 \in 1..Len(queue) /\ i + 1 # 1
      BY <3>3
    <3>6. 1 \in 1..Len(queue)
      BY <3>3
    <3>7. (\A i \in 1..Len(queue') : Fits(queue'[i], pc', told')) /\ Fits(hand', pc', told')
      BY <3>1, <3>3, <3>4, <3>5, <3>6 DEF Requests, Fits
    <3>8. \A i, j \in 1..Len(queue') :
             i # j /\ Asked(queue'[i]) /\ Asked(queue'[j]) => queue'[i].run # queue'[j].run
      BY <3>3, <3>5, SMTT(20) DEF Requests
    <3>9. Asked(hand') => \A i \in 1..Len(queue') : Asked(queue'[i]) => queue'[i].run # hand'.run
      BY <3>1, <3>3, <3>4, <3>5, <3>6 DEF Requests
    <3> QED
      BY <3>7, <3>8, <3>9 DEF Requests
  <2> QED
    BY <2>1, <2>2
<1>10. CASE Execute \/ Fails \/ Drop
  BY <1>10 DEF Execute, Fails, Drop, worker, askers, Requests, Fits
<1>11. CASE Answer
  <2>1. hand' = None /\ queue' = queue /\ hand # None
    BY <1>11 DEF Answer
  <2>2. \A i \in 1..Len(queue) : Asked(queue[i]) => pc'[queue[i].run] = pc[queue[i].run]
                                                     /\ told'[queue[i].run] = told[queue[i].run]
    <3>1. CASE hand.what = "event"
      BY <1>11, <3>1 DEF Answer, askers
    <3>2. CASE hand.what # "event"
      <4>1. Asked(hand)
        BY <2>1, <3>2, HandFields DEF Asked
      <4>2. \A x \in Runs : x # hand.run => pc'[x] = pc[x] /\ told'[x] = told[x]
        BY <1>11, <3>2 DEF Answer, Shape, TypeOK
      <4>3. \A i \in 1..Len(queue) : Asked(queue[i]) => queue[i].run \in Runs /\ queue[i].run # hand.run
        BY <2>1, <4>1, QueueFields DEF Requests
      <4> QED
        BY <4>2, <4>3
    <3> QED
      BY <3>1, <3>2
  <2>3. \A i \in 1..Len(queue) : Fits(queue[i], pc', told')
    BY <2>2 DEF Requests, Fits, Asked
  <2> QED
    BY <2>1, <2>3 DEF Requests
<1> QED
  BY <1>1, <1>2, <1>3, <1>5, <1>6, <1>8, <1>9, <1>10, <1>11 DEF Next, Thread

\* A driver that may ask has a run that is not over, on disk or as it knows.
LEMMA Unfinished ==
    ASSUME Kept, NEW r \in Runs, pc[r] \in {"new", "ready"}, thread # "lost"
    PROVE  ~told[r].row.over /\ ~rows[r].over /\ r \notin doomed
<1>1. Recorded(r)
  BY DEF Kept
<1>2. ~Closing(r)
  BY DEF Kept, Requests, Fits, Closing, Asked
<1> QED
  BY <1>1, <1>2 DEF Recorded

\* A driver that waits as well, unless the answer is on its way.
LEMMA Waiting ==
    ASSUME Kept, NEW r \in Runs, pc[r] = "waiting", thread # "lost", ~Closing(r)
    PROVE  ~told[r].row.over /\ ~rows[r].over /\ r \notin doomed
BY DEF Kept, Recorded

\* A driver asks for something: nothing of the record changes.
LEMMA RecordedAsks ==
    ASSUME Kept, NEW r \in Runs, NEW q, Asks(r, q), pc[r] \in {"new", "ready"},
           UNCHANGED <<worker, disk, told>>
    PROVE  (\A x \in Runs : Recorded(x)') /\ Written'
<1> USE DEF worker, disk
<1>1. thread # "lost"
  BY DEF Asks, MayAsk
<1>2. pc \in [Runs -> {"new", "ready", "waiting", "over", "down"}]
  BY DEF Kept, Shape, TypeOK
<1>3. Written'
  BY DEF Kept, Written
<1>4. ASSUME NEW x \in Runs PROVE Recorded(x)'
  <2>1. Recorded(x)
    BY DEF Kept
  <2>2. CASE x = r
    <3>1. pc'[x] \in {"ready", "waiting", "over"}
      BY <1>2, <2>2 DEF Asks
    <3> QED
      BY <1>1, <2>1, <2>2, <3>1, Unfinished DEF Recorded
  <2>3. CASE x # r
    <3>1. pc'[x] = pc[x]
      BY <1>2, <2>3 DEF Asks
    <3> QED
      BY <2>1, <3>1 DEF Recorded, Closing
  <2> QED
    BY <2>2, <2>3
<1> QED
  BY <1>3, <1>4

\* What the thread takes stays the one request of its driver.
LEMMA RecordedTake ==
    ASSUME Kept, Take
    PROVE  (\A x \in Runs : Recorded(x)') /\ Written'
<1> USE DEF disk
<1>1. hand = None /\ thread = "serving" /\ UNCHANGED <<rows, steps, told, failed>>
  BY DEF Take
<1>2. doomed = {} /\ \A x \in Runs : ~Closing(x)
  BY <1>1 DEF Kept, Shape, Closing
<1>3. CASE Head(queue).what = "shutdown"
  <2>1. /\ hand' = None /\ doomed' = {}
        /\ pc' = [q \in Runs |-> IF q \in Unanswered THEN "ready" ELSE pc[q]]
    BY <1>1, <1>2, <1>3 DEF Take
  <2>2. ASSUME NEW x \in Runs PROVE Recorded(x)'
    <3>1. Recorded(x)
      BY DEF Kept
    <3>2. CASE pc[x] = "waiting"
      <4>1. pc'[x] = "ready"
        BY <2>1, <3>2 DEF Unanswered
      <4> QED
        BY <1>1, <1>2, <2>1, <3>1, <3>2, <4>1, Waiting DEF Recorded
    <3>3. CASE pc[x] # "waiting"
      <4>1. pc'[x] = pc[x]
        BY <2>1, <3>3 DEF Unanswered
      <4> QED
        BY <1>1, <1>2, <2>1, <3>1, <4>1 DEF Recorded
    <3> QED
      BY <3>2, <3>3
  <2> QED
    BY <2>1, <2>2 DEF Written
<1>4. CASE Head(queue).what # "shutdown"
  <2>1. /\ left' = IF Trims(Head(queue)) THEN Append(Trimming, "own") ELSE <<"own">>
        /\ doomed' \in IF Trims(Head(queue)) THEN Stale ELSE {{}}
        /\ UNCHANGED pc
    BY <1>4 DEF Take
  <2>2. left' # <<>>
    BY <2>1, TrimmingThenOwn, LastStatements DEF Last
  <2>3. \A x \in doomed' : x \in Runs /\ rows[x].over
    BY <2>1 DEF Stale, Finished
  <2>4. ASSUME NEW x \in Runs PROVE Recorded(x)'
    <3>1. Recorded(x)
      BY DEF Kept
    <3> QED
      BY <1>1, <1>2, <2>1, <2>3, <3>1 DEF Recorded
  <2> QED
    BY <2>2, <2>4 DEF Written
<1> QED
  BY <1>3, <1>4

\* A statement removes only runs whose driver knows they are over.
LEMMA RecordedExecute ==
    ASSUME Kept, Execute
    PROVE  (\A x \in Runs : Recorded(x)') /\ Written'
<1> USE DEF askers
<1>1. /\ left # <<>> /\ left' = Tail(left) /\ Statement(Head(left)) /\ thread = "serving"
      /\ UNCHANGED <<thread, hand, failed, doomed, pc, told>> /\ left \in Lefts
  BY DEF Execute, Kept, Shape
<1>2. \A x \in Runs : ~Closing(x)
  BY <1>1 DEF Closing
<1>3. hand # None /\ ~failed
  BY <1>1 DEF Kept, Shape
<1>4. CASE Head(left) = "own"
  <2>1. /\ hand.what = "save" => rows' = [rows EXCEPT ![hand.run] = hand.row] /\ UNCHANGED <<steps, events>>
        /\ hand.what = "step" => steps' = [steps EXCEPT ![hand.run] = hand.n] /\ UNCHANGED <<rows, events>>
        /\ hand.what = "event" => events' = events \cup {hand.e} /\ UNCHANGED <<rows, steps>>
    BY <1>1, <1>3, <1>4, OwnWrites, HandFields DEF Statement, Kept, Shape
  <2>2. left' = <<>>
    BY <1>1, <1>4, LastStatements, LeftTail
  <2>3. rows \in [Runs -> Row] /\ steps \in [Runs -> Nat]
    BY DEF Kept, Shape, TypeOK
  <2>4. CASE hand.what = "event"
    BY <1>1, <1>2, <2>1, <2>4 DEF Kept, Recorded, Written
  <2>5. CASE hand.what # "event"
    <3>1. Asked(hand) /\ hand.run \in Runs /\ pc[hand.run] = "waiting" /\ doomed = {}
      BY <1>3, <2>5, HandFields DEF Asked, Kept, Requests, Fits, Shape
    <3>2. ~told[hand.run].row.over /\ ~rows[hand.run].over
      BY <1>1, <1>2, <3>1, Waiting
    <3>3. Recorded(hand.run)
      BY <3>1 DEF Kept
    <3>4. Fits(hand, pc, told)
      BY <1>3 DEF Kept, Requests
    <3>5. /\ told[hand.run].row.v \in Nat /\ told[hand.run].steps \in Nat
          /\ rows[hand.run].v \in Nat /\ steps[hand.run] \in Nat
      BY <3>1, ToldFields DEF Kept
    <3>6. ASSUME NEW x \in Runs, x = hand.run PROVE Recorded(x)'
      <4>1. CASE hand.what = "save"
        <5>1. rows'[x] = hand.row /\ steps' = steps /\ hand.row.v = told[x].row.v + 1
          BY <2>1, <2>3, <3>1, <3>4, <3>6, <4>1 DEF Fits
        <5>2. hand.row.over => Closing(x)'
          BY <1>1, <1>3, <2>2, <3>6, <4>1 DEF Closing
        <5> QED
          BY <1>1, <3>1, <3>2, <3>3, <3>5, <3>6, <5>1, <5>2 DEF Recorded
      <4>2. CASE hand.what = "step"
        <5>1. steps'[x] = hand.n /\ rows' = rows /\ hand.n = told[x].steps + 1
          BY <2>1, <2>3, <3>1, <3>4, <3>6, <4>2 DEF Fits
        <5> QED
          BY <1>1, <3>1, <3>2, <3>3, <3>5, <3>6, <5>1 DEF Recorded
      <4> QED
        BY <3>1, <4>1, <4>2 DEF Asked
    <3>7. ASSUME NEW x \in Runs, x # hand.run PROVE Recorded(x)'
      <4>1. rows'[x] = rows[x] /\ steps'[x] = steps[x]
        BY <2>1, <2>3, <3>1, <3>7 DEF Asked
      <4>2. Recorded(x)
        BY DEF Kept
      <4> QED
        BY <1>1, <1>2, <4>1, <4>2 DEF Recorded
    <3>8. Written'
      BY <1>1, <2>1, <2>3, <3>1 DEF Written
    <3> QED
      BY <3>6, <3>7, <3>8
  <2> QED
    BY <2>4, <2>5
<1>5. CASE Head(left) # "own"
  <2>1. left' # <<>>
    BY <1>1, <1>5, LeftTail
  <2>2. TrimStatement(Head(left))
    BY <1>1, <1>5 DEF Statement
  <2>3. ASSUME NEW x \in Runs PROVE Recorded(x)'
    <3>1. Recorded(x)
      BY DEF Kept
    <3>2. x \notin doomed => rows'[x] = rows[x] /\ steps'[x] = steps[x]
      BY <2>2, TrimWrites
    <3>3. rows'[x] \in {rows[x], NoRow}
      BY <2>2, TrimWrites
    <3>4. CASE x \in doomed
      BY <1>1, <3>1, <3>4 DEF Recorded
    <3>5. CASE x \notin doomed
      BY <1>1, <1>2, <3>1, <3>2, <3>5 DEF Recorded
    <3> QED
      BY <3>4, <3>5
  <2> QED
    BY <2>1, <2>3 DEF Written
<1> QED
  BY <1>4, <1>5

\* The answer tells the driver what the disk holds.
LEMMA RecordedAnswer ==
    ASSUME Kept, Answer
    PROVE  (\A x \in Runs : Recorded(x)') /\ Written'
<1> USE DEF disk, askers
<1>1. /\ hand # None /\ left = <<>> /\ thread = "serving" /\ hand' = None /\ doomed' = {}
      /\ UNCHANGED <<thread, rows, steps>>
  BY DEF Answer
<1>2. Written'
  BY <1>1 DEF Written
<1>3. CASE hand.what = "event"
  <2>1. UNCHANGED <<pc, told>>
    BY <1>3 DEF Answer
  <2> QED
    BY <1>1, <1>2, <1>3, <2>1 DEF Kept, Recorded, Closing
<1>4. CASE hand.what # "event"
  <2>1. /\ told' = IF failed THEN told ELSE [told EXCEPT ![hand.run] = Acknowledged(hand.run)]
        /\ pc' = [pc EXCEPT ![hand.run] = IF hand.what = "save" /\ hand.row.over
                                          THEN "over" ELSE "ready"]
    BY <1>4 DEF Answer
  <2>2. Asked(hand) /\ hand.run \in Runs /\ pc[hand.run] = "waiting"
    BY <1>1, <1>4, HandFields DEF Asked, Kept, Requests, Fits
  <2>3. /\ pc \in [Runs -> {"new", "ready", "waiting", "over", "down"}]
        /\ told \in [Runs -> [row : Row, steps : Nat]]
    BY DEF Kept, Shape, TypeOK
  <2>4. ASSUME NEW x \in Runs, x # hand.run PROVE Recorded(x)'
    <3>1. pc'[x] = pc[x] /\ told'[x] = told[x]
      BY <2>1, <2>3, <2>4
    <3>2. Recorded(x) /\ ~Closing(x)
      BY <2>4 DEF Kept, Closing
    <3> QED
      BY <1>1, <3>1, <3>2 DEF Recorded
  <2>5. ASSUME NEW x \in Runs, x = hand.run PROVE Recorded(x)'
    <3>1. Recorded(x) /\ pc[x] = "waiting"
      BY <2>2, <2>5 DEF Kept
    <3>2. ~told[x].row.over /\ rows[x].v >= told[x].row.v /\ steps[x] >= told[x].steps
      BY <3>1 DEF Recorded
    <3>3. pc'[x] = IF hand.what = "save" /\ hand.row.over THEN "over" ELSE "ready"
      BY <2>1, <2>3, <2>5
    <3>4. CASE failed
      <4>1. told'[x] = told[x]
        BY <2>1, <3>4
      <4>2. ~rows[x].over
        BY <1>1, <3>1, <3>2, <3>4 DEF Recorded, Closing
      <4> QED
        BY <1>1, <3>2, <3>3, <4>1, <4>2 DEF Recorded
    <3>5. CASE ~failed
      <4>1. told'[x] = Acknowledged(x)
        BY <2>1, <2>3, <2>5, <3>5
      <4>2. rows[x].over => Closing(x)
        BY <1>1, <3>1, <3>2 DEF Recorded
      <4>3. CASE hand.what = "save"
        <5>1. told'[x].row = hand.row /\ told'[x].steps = told[x].steps
          BY <2>3, <4>1, <4>3 DEF Acknowledged
        <5>2. rows[x] = hand.row /\ hand.row.v \in Nat
          BY <1>1, <2>5, <3>5, <4>3, HandFields DEF Kept, Written, Row
        <5> QED
          BY <1>1, <3>2, <3>3, <4>3, <5>1, <5>2 DEF Recorded
      <4>4. CASE hand.what = "step"
        <5>1. told'[x].row = told[x].row /\ told'[x].steps = hand.n
          BY <2>3, <4>1, <4>4 DEF Acknowledged
        <5>2. steps[x] = hand.n /\ hand.n \in Nat
          BY <1>1, <2>5, <3>5, <4>4, HandFields DEF Kept, Written
        <5>3. ~rows[x].over
          BY <4>2, <4>4 DEF Closing
        <5> QED
          BY <1>1, <3>2, <3>3, <4>4, <5>1, <5>2, <5>3 DEF Recorded
      <4> QED
        BY <2>2, <4>3, <4>4 DEF Asked
    <3> QED
      BY <3>4, <3>5
  <2> QED
    BY <1>2, <2>4, <2>5
<1> QED
  BY <1>3, <1>4

\* A start reads the rows of the disk, a loss leaves them.
LEMMA RecordedProcess ==
    ASSUME Kept, Lost \/ Start
    PROVE  (\A x \in Runs : Recorded(x)') /\ Written'
<1> USE DEF disk
<1>1. CASE Lost
  <2>1. /\ thread' = "lost" /\ hand' = None /\ doomed' = {} /\ UNCHANGED <<rows, steps, told>>
        /\ pc' = [r \in Runs |-> IF pc[r] = "new" THEN "new" ELSE "down"]
    BY <1>1 DEF Lost
  <2>2. ASSUME NEW x \in Runs PROVE Recorded(x)'
    <3>1. Recorded(x)
      BY DEF Kept
    <3>2. pc'[x] = IF pc[x] = "new" THEN "new" ELSE "down"
      BY <2>1
    <3> QED
      BY <2>1, <3>1, <3>2 DEF Recorded
  <2> QED
    BY <2>1, <2>2 DEF Written
<1>2. CASE Start
  <2>1. /\ thread = "lost" /\ UNCHANGED <<hand, left, failed, doomed>>
        /\ pc' = [r \in Runs |-> IF pc[r] = "new" THEN "new"
                                 ELSE IF rows[r].v > 0 /\ ~rows[r].over THEN "ready" ELSE "over"]
    BY <1>2 DEF Start
  <2>2. hand = None /\ doomed = {}
    BY <2>1 DEF Kept, Shape
  <2>3. PICK gone \in Stale :
           /\ steps' = [r \in Runs |-> IF r \in gone THEN 0 ELSE steps[r]]
           /\ rows' = [r \in Runs |-> IF r \in gone THEN NoRow ELSE rows[r]]
    BY <1>2, StartReads DEF Kept
  <2>4. told' = [r \in Runs |-> [row |-> rows'[r], steps |-> steps'[r]]]
    BY <1>2 DEF Start
  <2>5. ASSUME NEW x \in Runs PROVE Recorded(x)'
    <3>1. Recorded(x)
      BY DEF Kept
    <3>2. x \in gone => rows[x].over
      BY <2>3 DEF Stale, Finished
    <3>3. /\ rows'[x] = IF x \in gone THEN NoRow ELSE rows[x]
          /\ steps'[x] = IF x \in gone THEN 0 ELSE steps[x]
      BY <2>3
    <3>4. told'[x].row = rows'[x] /\ told'[x].steps = steps'[x]
      BY <2>4
    <3>5. /\ pc[x] = "new" => pc'[x] = "new"
          /\ pc[x] # "new" /\ rows[x].over => pc'[x] = "over"
          /\ pc[x] # "new" => pc'[x] # "new"
      BY <2>1
    <3>6. NoRow.over = FALSE
      BY DEF NoRow
    <3>7. /\ rows'[x].v \in Nat /\ steps'[x] \in Nat
      BY <1>2, StartReads DEF Kept, Row
    <3>8. CASE pc[x] = "new"
      <4>1. rows[x] = NoRow /\ steps[x] = 0 /\ x \notin gone
        BY <3>1, <3>2, <3>6, <3>8 DEF Recorded
      <4>2. rows'[x] = NoRow /\ steps'[x] = 0
        BY <3>3, <4>1
      <4> QED
        BY <2>1, <2>2, <3>4, <3>5, <3>6, <3>7, <3>8, <4>2 DEF Recorded
    <3>9. CASE pc[x] # "new"
      <4>1. rows'[x].over => rows[x].over
        BY <3>3, <3>6
      <4> QED
        BY <2>1, <2>2, <3>4, <3>5, <3>7, <3>9, <4>1 DEF Recorded
    <3> QED
      BY <3>8, <3>9
  <2> QED
    BY <2>1, <2>2, <2>5 DEF Written
<1> QED
  BY <1>1, <1>2

\* Nothing was acknowledged yet.
LEMMA KeptInit == Init => Kept
<1> SUFFICES ASSUME Init PROVE Kept
  OBVIOUS
<1>1. Shape
  BY ShapeInit
<1>2. queue = <<>> /\ hand = None /\ 1..Len(queue) = {}
  BY DEF Init
<1>3. Requests /\ Written
  BY <1>2 DEF Requests, Written
<1>4. ASSUME NEW r \in Runs PROVE Recorded(r)
  <2>1. /\ pc[r] = "new" /\ rows[r] = NoRow /\ steps[r] = 0 /\ told[r].row = NoRow
        /\ told[r].steps = 0 /\ doomed = {}
    BY DEF Init
  <2>2. NoRow.over = FALSE /\ NoRow.v = 0
    BY DEF NoRow
  <2> QED
    BY <2>1, <2>2 DEF Recorded
<1> QED
  BY <1>1, <1>3, <1>4 DEF Kept

\* Every step keeps what the disk holds of every run.
LEMMA KeptNext == Kept /\ [Next]_vars => Kept'
<1> SUFFICES ASSUME Kept, [Next]_vars
             PROVE  Kept'
  OBVIOUS
<1>1. Shape'
  BY ShapeNext DEF Kept
<1>2. Requests'
  BY <1>1, RequestsStep DEF Kept
<1>3. (\A x \in Runs : Recorded(x)') /\ Written'
  <2>1. ASSUME UNCHANGED <<thread, hand, left, failed, doomed, rows, steps, pc, told>>
        PROVE  (\A x \in Runs : Recorded(x)') /\ Written'
    BY <2>1 DEF Kept, Recorded, Closing, Written
  <2>2. CASE UNCHANGED vars \/ RecordEvent \/ Drop \/ SendShutdown
    BY <2>1, <2>2 DEF vars, worker, disk, askers, RecordEvent, Drop, SendShutdown
  <2>3. ASSUME NEW r \in Runs, Save(r) \/ Step(r)
        PROVE  (\A x \in Runs : Recorded(x)') /\ Written'
    <3>1. pc[r] \in {"new", "ready"} /\ UNCHANGED <<worker, disk, told>>
      BY <2>3 DEF Save, Step
    <3>2. \E q : Asks(r, q)
      BY <2>3, Zenon DEF Save, Step
    <3> QED
      BY <3>1, <3>2, RecordedAsks
  <2>4. CASE Fails
    <3>1. /\ left # <<>> /\ UNCHANGED <<thread, hand, doomed, rows, steps, pc, told>>
          /\ (left' # <<>> \/ failed')
      BY <2>4, LastStatements DEF Fails, disk, askers, Last
    <3> QED
      BY <3>1 DEF Kept, Recorded, Closing, Written
  <2> QED
    BY <2>2, <2>3, <2>4, RecordedTake, RecordedExecute, RecordedAnswer, RecordedProcess
    DEF Next, Thread
<1> QED
  BY <1>1, <1>2, <1>3 DEF Kept

\* Whatever fails, and wherever the process is lost, a run that is not over
\* keeps on disk at least what its driver was told is there
\* (StorageWriter::save_run, append_transition and the trims of the record).
THEOREM AcknowledgedStays == Spec => []AcknowledgedIsOnDisk
<1>1. Spec => []Kept
  BY KeptInit, KeptNext, PTL DEF Spec
<1>2. Kept => AcknowledgedIsOnDisk
  BY DEF Kept, Recorded, AcknowledgedIsOnDisk
<1> QED
  BY <1>1, <1>2, PTL

-----------------------------------------------------------------------------
(* Steps and their runs. *)

\* A step is asked for, or its driver may ask for one.
StepWanted(r) ==
    \/ pc[r] = "ready" /\ thread = "serving"
    \/ hand # None /\ hand.what = "step" /\ hand.run = r
    \/ \E i \in 1..Len(queue) : queue[i].what = "step" /\ queue[i].run = r

\* No step is written before the run it is a step of, and none outlives it.
Traced ==
    /\ \A r \in Runs : StepWanted(r) => rows[r].v > 0
    /\ StepsHaveTheirRun
    /\ left = Last2 => \A r \in doomed : steps[r] = 0
    /\ failed /\ hand.what = "save" => hand.row.v # 1

\* The first row of a run finds room and is not refused.
RunsAreWritten == "unwritten run" \notin Allowed

\* There are no steps yet.
LEMMA TracedInit == Init => Traced
<1> SUFFICES ASSUME Init PROVE Traced
  OBVIOUS
<1>1. queue = <<>> /\ hand = None /\ 1..Len(queue) = {} /\ left = <<>> /\ ~failed
  BY DEF Init
<1>2. \A r \in Runs : ~StepWanted(r)
  BY <1>1 DEF StepWanted, Init
<1>3. StepsHaveTheirRun
  BY DEF StepsHaveTheirRun, Init
<1> QED
  BY <1>1, <1>2, <1>3, LastStatements DEF Traced

\* A driver asks for a step only of a run it was told is written.
LEMMA TracedAsks ==
    ASSUME Kept, Traced, RunsAreWritten, NEW r \in Runs, NEW q \in Request,
           Asks(r, q), pc[r] \in {"new", "ready"}, q.what = "step" => pc[r] = "ready" /\ q.run = r,
           q.what \in {"save", "step"}, UNCHANGED <<worker, disk, told>>
    PROVE  Traced'
<1> USE DEF worker, disk
<1>1. pc \in [Runs -> {"new", "ready", "waiting", "over", "down"}]
  BY DEF Kept, Shape, TypeOK
<1>2. \A x \in Runs : x # r => pc'[x] = pc[x]
  BY <1>1 DEF Asks
<1>3. ASSUME NEW x \in Runs, StepWanted(x)' PROVE rows'[x].v > 0
  <2>1. StepWanted(x) => rows[x].v > 0
    BY DEF Traced
  <2>2. CASE Puts(q) /\ pc' = [pc EXCEPT ![r] = "waiting"]
    <3>1. /\ thread = "serving"
          /\ \A i \in 1..Len(queue) : queue'[i] = queue[i]
          /\ queue'[Len(queue')] = q
      BY <2>2, Queued DEF Kept
    <3>2. \A i \in 1..Len(queue') : i = Len(queue') \/ i \in 1..Len(queue)
      <4>1. Len(queue) \in Nat /\ Len(queue') = Len(queue) + 1
        BY <2>2, Queued DEF Kept
      <4> QED
        BY <4>1
    <3>3. pc'[x] = "ready" => pc[x] = "ready"
      BY <1>1, <2>2
    <3>4. StepWanted(x) \/ (q.what = "step" /\ x = r)
      BY <1>3, <3>1, <3>2, <3>3 DEF StepWanted
    <3> QED
      BY <2>1, <3>1, <3>4 DEF StepWanted
  <2>3. CASE Refused /\ UNCHANGED queue
    <3>1. pc[r] = "ready"
      BY <2>3 DEF Asks, Puts, RunsAreWritten
    <3> QED
      BY <1>2, <1>3, <2>1, <2>3, <3>1 DEF StepWanted
  <2> QED
    BY <2>2, <2>3 DEF Asks
<1> QED
  BY <1>3 DEF Traced, StepsHaveTheirRun

\* Taking a request writes nothing.
LEMMA TracedTake ==
    ASSUME Kept, Traced, RunsAreWritten, Take
    PROVE  Traced'
<1> USE DEF disk
<1> DEFINE r == Head(queue)
<1>1. hand = None /\ thread = "serving" /\ UNCHANGED <<rows, steps, told, failed>> /\ ~failed
      /\ queue # <<>> /\ queue \in Seq(Request) /\ left = <<>>
  BY DEF Take, Kept, Shape, TypeOK
<1>2. CASE r.what = "shutdown"
  <2>1. queue' = <<>> /\ hand' = None /\ thread' = "ended" /\ UNCHANGED left
    BY <1>1, <1>2 DEF Take
  <2>2. 1..Len(queue') = {}
    BY <2>1
  <2>3. \A x \in Runs : ~StepWanted(x)'
    BY <2>1, <2>2 DEF StepWanted
  <2> QED
    BY <1>1, <2>1, <2>3, LastStatements DEF Traced, StepsHaveTheirRun
<1>3. CASE r.what # "shutdown"
  <2>1. hand' = r /\ queue' = Tail(queue) /\ UNCHANGED <<thread, pc>>
        /\ left' = IF Trims(r) THEN Append(Trimming, "own") ELSE <<"own">>
    BY <1>3 DEF Take
  <2>2. left' # Last2
    BY <2>1, TrimmingThenOwn, LastStatements DEF Last
  <2>3. /\ Len(queue) \in Nat /\ Len(queue') = Len(queue) - 1 /\ Len(queue) >= 1
        /\ \A i \in 1..Len(queue') : queue'[i] = queue[i + 1]
    BY <1>1, <2>1, HeadTailProperties, LenProperties, EmptySeq
  <2>4. r = queue[1]
    BY <1>1
  <2>5. (\A i \in 1..Len(queue') : i + 1 \in 1..Len(queue)) /\ 1 \in 1..Len(queue)
    BY <2>3
  <2>6. \A x \in Runs : StepWanted(x)' => StepWanted(x)
    BY <2>1, <2>3, <2>4, <2>5 DEF StepWanted
  <2> QED
    BY <1>1, <2>2, <2>6 DEF Traced, StepsHaveTheirRun
<1> QED
  BY <1>2, <1>3

\* The trim removes the steps before the row they belong to.
LEMMA TracedExecute ==
    ASSUME Kept, Traced, RunsAreWritten, Execute
    PROVE  Traced'
<1> USE DEF askers
<1>1. /\ left # <<>> /\ left' = Tail(left) /\ Statement(Head(left)) /\ thread = "serving"
      /\ UNCHANGED <<queue, thread, hand, failed, doomed, pc, told>> /\ left \in Lefts
  BY DEF Execute, Kept, Shape
<1>2. hand # None /\ ~failed
  BY <1>1 DEF Kept, Shape
<1>3. rows \in [Runs -> Row] /\ steps \in [Runs -> Nat]
  BY DEF Kept, Shape, TypeOK
<1>4. \A x \in Runs : StepWanted(x)' <=> StepWanted(x)
  BY <1>1 DEF StepWanted
<1>5. CASE Head(left) = "own"
  <2>1. /\ hand.what = "save" => rows' = [rows EXCEPT ![hand.run] = hand.row] /\ UNCHANGED <<steps, events>>
        /\ hand.what = "step" => steps' = [steps EXCEPT ![hand.run] = hand.n] /\ UNCHANGED <<rows, events>>
        /\ hand.what = "event" => events' = events \cup {hand.e} /\ UNCHANGED <<rows, steps>>
    BY <1>1, <1>2, <1>5, OwnWrites, HandFields DEF Statement, Kept, Shape
  <2>2. left' = <<>> /\ left' # Last2
    BY <1>1, <1>5, LastStatements, LeftTail
  <2>3. CASE hand.what = "event"
    BY <1>1, <1>2, <1>4, <2>1, <2>2, <2>3 DEF Traced, StepsHaveTheirRun
  <2>4. CASE hand.what = "save"
    <3>1. /\ hand.run \in Runs /\ told[hand.run].row.v \in Nat
          /\ hand.row.v = told[hand.run].row.v + 1
      BY <1>2, <2>4, HandFields, ToldFields DEF Asked, Kept, Requests, Fits
    <3>2. \A x \in Runs : rows[x].v > 0 => rows'[x].v > 0
      BY <1>3, <2>1, <2>4, <3>1
    <3> QED
      BY <1>1, <1>2, <1>4, <2>1, <2>2, <2>4, <3>2 DEF Traced, StepsHaveTheirRun
  <2>5. CASE hand.what = "step"
    <3>1. hand.run \in Runs /\ rows[hand.run].v > 0
      BY <1>2, <2>5, HandFields DEF Asked, Kept, Traced, StepWanted
    <3>2. \A x \in Runs : x # hand.run => steps'[x] = steps[x]
      BY <1>3, <2>1, <2>5
    <3> QED
      BY <1>1, <1>2, <1>4, <2>1, <2>2, <2>5, <3>1, <3>2 DEF Traced, StepsHaveTheirRun
  <2> QED
    BY <1>2, <2>3, <2>4, <2>5, HandFields DEF Kept
<1>6. CASE Head(left) # "own"
  <2>1. left \notin {<<>>, Last}
    BY <1>1, <1>6, LastStatements
  <2>2. hand.what = "event"
    BY <1>2, <2>1 DEF Kept, Shape
  <2>3. TrimStatement(Head(left)) /\ left' # <<>>
    BY <1>1, <1>6, LeftTail DEF Statement
  <2>4. ASSUME NEW x \in Runs, x \in doomed PROVE ~StepWanted(x)
    <3>1. pc[x] = "over"
      BY <2>4 DEF Kept, Recorded
    <3>2. ~(hand # None /\ hand.what = "step" /\ hand.run = x)
      BY <2>2
    <3>3. \A i \in 1..Len(queue) : ~(queue[i].what = "step" /\ queue[i].run = x)
      BY <3>1 DEF Kept, Requests, Fits, Asked
    <3> QED
      BY <3>1, <3>2, <3>3 DEF StepWanted
  <2>5. \A x \in Runs : x \notin doomed => rows'[x] = rows[x] /\ steps'[x] = steps[x]
    BY <2>3, TrimWrites
  <2>6. \A x \in Runs : StepWanted(x)' => rows'[x].v > 0
    BY <1>4, <2>4, <2>5 DEF Traced
  <2>7. \A x \in doomed : x \in Runs
    BY DEF Kept, Shape, TypeOK
  <2>8. \A x \in doomed : steps'[x] > 0 => rows'[x].v > 0
    <3>1. CASE Head(left) \in {"old events", "surplus events"}
      BY <2>3, <2>7, <3>1, TrimWrites DEF Traced, StepsHaveTheirRun
    <3>2. CASE Head(left) = "finished steps"
      <4>1. steps' = [r \in Runs |-> IF r \in doomed THEN 0 ELSE steps[r]]
        BY <2>3, <3>2, TrimWrites, Zenon
      <4> QED
        BY <2>7, <4>1
    <3>3. CASE Head(left) = "finished rows"
      <4>1. left = Last2 /\ UNCHANGED steps
        BY <1>1, <2>3, <3>3, LeftTail, TrimWrites
      <4> QED
        BY <4>1 DEF Traced
    <3> QED
      BY <2>3, <3>1, <3>2, <3>3, TrimWrites
  <2>9. left' = Last2 => \A x \in doomed' : steps'[x] = 0
    <3>1. left' = Last2 => Head(left) = "finished steps"
      BY <1>1, LeftTail
    <3>2. left' = Last2 => steps' = [r \in Runs |-> IF r \in doomed THEN 0 ELSE steps[r]]
      BY <2>3, <3>1, TrimWrites, Zenon
    <3> QED
      BY <1>1, <2>7, <3>2
  <2> QED
    BY <1>1, <1>2, <2>5, <2>6, <2>8, <2>9 DEF Traced, StepsHaveTheirRun
<1> QED
  BY <1>5, <1>6

\* A statement that fails writes nothing, the rest of the trim is left.
LEMMA TracedFails ==
    ASSUME Kept, Traced, RunsAreWritten, Fails
    PROVE  Traced'
<1> USE DEF askers, disk
<1>1. /\ UNCHANGED <<queue, thread, hand, doomed, rows, steps, pc, told>>
      /\ left' \in {<<>>, Last} /\ failed' = (Head(left) = "own")
      /\ Failure(Head(left)) \in Allowed
  BY DEF Fails, Last
<1>2. failed' /\ hand'.what = "save" => hand'.row.v # 1
  BY <1>1 DEF Failure, RunsAreWritten
<1>3. \A x \in Runs : StepWanted(x)' <=> StepWanted(x)
  BY <1>1 DEF StepWanted
<1> QED
  BY <1>1, <1>2, <1>3, LastStatements DEF Traced, StepsHaveTheirRun

\* An answer writes nothing.
LEMMA TracedAnswer ==
    ASSUME Kept, Traced, RunsAreWritten, Answer
    PROVE  Traced'
<1> USE DEF askers, disk
<1>1. /\ hand # None /\ left = <<>> /\ hand' = None /\ failed' = FALSE /\ thread = "serving"
      /\ UNCHANGED <<queue, thread, left, rows, steps>>
  BY DEF Answer
<1>2. ASSUME NEW x \in Runs, StepWanted(x)' PROVE rows[x].v > 0
  <2>1. StepWanted(x) => rows[x].v > 0
    BY DEF Traced
  <2>2. CASE pc'[x] # "ready" \/ pc[x] = "ready"
    BY <1>1, <1>2, <2>1, <2>2 DEF StepWanted
  <2>3. CASE pc'[x] = "ready" /\ pc[x] # "ready"
    <3>1. Asked(hand) /\ hand.run = x
      BY <1>1, <2>3, HandFields DEF Answer, Asked, Kept, Shape, TypeOK
    <3>2. CASE hand.what = "step"
      BY <1>1, <2>1, <3>1, <3>2 DEF StepWanted
    <3>3. CASE hand.what = "save"
      <4>1. hand.row.v = told[x].row.v + 1 /\ told[x].row.v \in Nat /\ pc[x] = "waiting"
        BY <1>1, <3>1, <3>3, ToldFields DEF Kept, Requests, Fits
      <4>2. ~told[x].row.over => rows[x].v >= told[x].row.v
        BY DEF Kept, Recorded
      <4>3. ~told[x].row.over
        BY <4>1 DEF Kept, Recorded
      <4>4. CASE failed
        <5>1. hand.row.v # 1
          BY <3>3, <4>4 DEF Traced
        <5> QED
          BY <4>1, <4>2, <4>3, <5>1, ToldFields DEF Kept
      <4>5. CASE ~failed
        BY <1>1, <3>1, <3>3, <4>1, <4>5 DEF Kept, Written
      <4> QED
        BY <4>4, <4>5
    <3> QED
      BY <3>1, <3>2, <3>3 DEF Asked
  <2> QED
    BY <2>2, <2>3
<1> QED
  BY <1>1, <1>2, LastStatements DEF Traced, StepsHaveTheirRun

\* A transaction cut short leaves the record as it was before.
LEMMA TracedProcess ==
    ASSUME Kept, Traced, Lost \/ Start
    PROVE  Traced'
<1> USE DEF disk
<1>1. CASE Lost
  <2>1. /\ thread' = "lost" /\ hand' = None /\ queue' = <<>> /\ left' = <<>> /\ failed' = FALSE
        /\ UNCHANGED <<rows, steps>>
    BY <1>1 DEF Lost
  <2>2. 1..Len(queue') = {}
    BY <2>1
  <2>3. \A x \in Runs : ~StepWanted(x)'
    BY <2>1, <2>2 DEF StepWanted
  <2> QED
    BY <2>1, <2>3, LastStatements DEF Traced, StepsHaveTheirRun
<1>2. CASE Start
  <2>1. /\ thread = "lost" /\ UNCHANGED <<hand, queue, left, failed, doomed>>
        /\ pc' = [r \in Runs |-> IF pc[r] = "new" THEN "new"
                                 ELSE IF rows[r].v > 0 /\ ~rows[r].over THEN "ready" ELSE "over"]
    BY <1>2 DEF Start
  <2>2. hand = None /\ doomed = {} /\ queue = <<>> /\ ~failed
    BY <2>1 DEF Kept, Shape
  <2>3. 1..Len(queue') = {}
    BY <2>1, <2>2
  <2>4. PICK gone \in Stale :
           /\ steps' = [r \in Runs |-> IF r \in gone THEN 0 ELSE steps[r]]
           /\ rows' = [r \in Runs |-> IF r \in gone THEN NoRow ELSE rows[r]]
    BY <1>2, StartReads DEF Kept
  <2>5. ASSUME NEW x \in Runs
        PROVE  (StepWanted(x)' => rows'[x].v > 0) /\ (steps'[x] > 0 => rows'[x].v > 0)
    <3>1. x \in gone => rows[x].over
      BY <2>4 DEF Stale, Finished
    <3>2. /\ rows'[x] = IF x \in gone THEN NoRow ELSE rows[x]
          /\ steps'[x] = IF x \in gone THEN 0 ELSE steps[x]
      BY <2>4
    <3>3. pc'[x] = "ready" => rows[x].v > 0 /\ ~rows[x].over
      BY <2>1
    <3>4. StepWanted(x)' => pc'[x] = "ready"
      BY <2>1, <2>2, <2>3 DEF StepWanted
    <3> QED
      BY <3>1, <3>2, <3>3, <3>4 DEF Traced, StepsHaveTheirRun
  <2> QED
    BY <2>1, <2>2, <2>5 DEF Traced, StepsHaveTheirRun
<1> QED
  BY <1>1, <1>2

\* What touches neither the record nor the request at hand.
LEMMA TracedQuietly ==
    ASSUME Kept, Traced, RecordEvent \/ Drop \/ SendShutdown
    PROVE  Traced'
<1> USE DEF worker, disk, askers
<1>1. UNCHANGED <<thread, hand, left, failed, doomed, rows, steps, pc>>
  BY DEF RecordEvent, Drop, SendShutdown
<1>2. CASE Drop
  BY <1>1, <1>2 DEF Drop, Traced, StepsHaveTheirRun, StepWanted
<1>3. ASSUME NEW q \in Request, q.what # "step", Puts(q) PROVE Traced'
  <2>1. /\ \A i \in 1..Len(queue) : queue'[i] = queue[i]
        /\ queue'[Len(queue')] = q
    BY <1>3, Queued DEF Kept
  <2>2. \A i \in 1..Len(queue') : i = Len(queue') \/ i \in 1..Len(queue)
    <3>1. Len(queue) \in Nat /\ Len(queue') = Len(queue) + 1
      BY <1>3, Queued DEF Kept
    <3> QED
      BY <3>1
  <2>3. \A x \in Runs : StepWanted(x)' => StepWanted(x)
    BY <1>1, <1>3, <2>1, <2>2 DEF StepWanted
  <2> QED
    BY <1>1, <2>3 DEF Traced, StepsHaveTheirRun
<1>4. CASE RecordEvent
  <2>1. [what |-> "event", e |-> sent + 1] \in Request
    BY DEF Request, Kept, Shape
  <2> QED
    BY <1>3, <1>4, <2>1 DEF RecordEvent
<1>5. CASE SendShutdown
  <2>1. [what |-> "shutdown"] \in Request
    BY DEF Request
  <2> QED
    BY <1>3, <1>5, <2>1 DEF SendShutdown
<1> QED
  BY <1>2, <1>4, <1>5

\* Every step keeps the steps with their run.
LEMMA TracedNext ==
    ASSUME Kept, Traced, RunsAreWritten, [Next]_vars
    PROVE  Traced'
<1>1. CASE UNCHANGED vars
  BY <1>1 DEF vars, worker, disk, askers, Traced, StepsHaveTheirRun, StepWanted
<1>2. ASSUME NEW r \in Runs, Save(r) PROVE Traced'
  <2>1. PICK over \in BOOLEAN :
           Asks(r, [what |-> "save", run |-> r, row |-> [v |-> told[r].row.v + 1, over |-> over]])
    BY <1>2 DEF Save
  <2> DEFINE q == [what |-> "save", run |-> r, row |-> [v |-> told[r].row.v + 1, over |-> over]]
  <2>2. told[r].row.v + 1 \in Nat
    BY ToldFields DEF Kept
  <2>3. q \in Request /\ q.what = "save" /\ q.run = r
    BY <2>2 DEF Request, Row
  <2>4. pc[r] \in {"new", "ready"} /\ UNCHANGED <<worker, disk, told>>
    BY <1>2 DEF Save
  <2> HIDE DEF q
  <2> QED
    BY <2>1, <2>3, <2>4, TracedAsks DEF q
<1>3. ASSUME NEW r \in Runs, Step(r) PROVE Traced'
  <2> DEFINE q == [what |-> "step", run |-> r, n |-> told[r].steps + 1]
  <2>1. told[r].steps + 1 \in Nat
    BY ToldFields DEF Kept
  <2>2. q \in Request /\ q.what = "step" /\ q.run = r
    BY <2>1 DEF Request
  <2>3. pc[r] = "ready" /\ UNCHANGED <<worker, disk, told>> /\ Asks(r, q)
    BY <1>3 DEF Step
  <2> HIDE DEF q
  <2> QED
    BY <2>2, <2>3, TracedAsks
<1> QED
  BY <1>1, <1>2, <1>3, TracedTake, TracedExecute, TracedFails, TracedAnswer, TracedProcess, TracedQuietly
  DEF Next, Thread

\* No step is on disk without the run it is a step of, if the first row of a
\* run is never refused: a driver writes the row before a step of it, a trim
\* takes the steps before the row, and nothing comes between the two
\* (save_run before append_transition, the order of the trim's statements).
THEOREM NoStepIsOrphaned ==
    ASSUME "unwritten run" \notin Allowed
    PROVE  Spec => []StepsHaveTheirRun
<1>1. RunsAreWritten
  BY DEF RunsAreWritten
<1>2. Kept /\ Traced /\ [Next]_vars => Kept' /\ Traced'
  BY <1>1, KeptNext, TracedNext
<1>3. Init => Kept /\ Traced
  BY KeptInit, TracedInit
<1>4. Kept /\ Traced => StepsHaveTheirRun
  BY DEF Traced
<1> QED
  BY <1>2, <1>3, <1>4, PTL DEF Spec

-----------------------------------------------------------------------------
(* The window of events. *)

\* The youngest K of S.
Above(S, e)    == {f \in S : f >= e}
Youngest(S, K) == {e \in S : Cardinality(Above(S, e)) <= K}

\* How many are at least as young as one: between one and all of them.
LEMMA RankRange ==
    ASSUME NEW S \in SUBSET Nat, IsFiniteSet(S), NEW e \in S
    PROVE  IsFiniteSet(Above(S, e)) /\ Cardinality(Above(S, e)) \in 1..Cardinality(S)
<1>1. Above(S, e) \in SUBSET S /\ e \in Above(S, e)
  BY DEF Above
<1>2. /\ IsFiniteSet(Above(S, e)) /\ Cardinality(Above(S, e)) <= Cardinality(S)
  BY <1>1, FS_Subset
<1>3. Cardinality(Above(S, e)) \in Nat /\ Cardinality(S) \in Nat
  BY <1>2, FS_CardinalityType
<1>4. Cardinality(Above(S, e)) # 0
  BY <1>1, <1>2, FS_EmptySet
<1> QED
  BY <1>2, <1>3, <1>4

\* The younger has the lower rank.
LEMMA RankFalls ==
    ASSUME NEW S \in SUBSET Nat, IsFiniteSet(S), NEW e \in S, NEW g \in S, e < g
    PROVE  Cardinality(Above(S, g)) < Cardinality(Above(S, e))
<1>1. Above(S, g) \in SUBSET Above(S, e) /\ e \notin Above(S, g) /\ e \in Above(S, e)
  <2>1. \A x \in S : x \in Int
    OBVIOUS
  <2>2. \A f \in S : f >= g => f >= e
    BY <2>1
  <2>3. e >= e /\ ~(e >= g)
    BY <2>1
  <2> QED
    BY <2>2, <2>3 DEF Above
<1>2. IsFiniteSet(Above(S, e)) /\ IsFiniteSet(Above(S, g))
  BY RankRange
<1>3. /\ Cardinality(Above(S, g)) <= Cardinality(Above(S, e))
      /\ Cardinality(Above(S, e)) = Cardinality(Above(S, g)) => Above(S, e) = Above(S, g)
  BY <1>1, <1>2, FS_Subset
<1>4. Cardinality(Above(S, e)) \in Nat /\ Cardinality(Above(S, g)) \in Nat
  BY <1>2, FS_CardinalityType
<1> QED
  BY <1>1, <1>3, <1>4

\* There are n numbers up to n.
LEMMA CountTo ==
    ASSUME NEW n \in Nat
    PROVE  IsFiniteSet(1..n) /\ Cardinality(1..n) = n
<1>1. IsFiniteSet(1..n) /\ Cardinality(1..n) = IF 1 > n THEN 0 ELSE n - 1 + 1
  BY FS_Interval
<1> QED
  BY <1>1

\* The youngest K are no more than K, and as many if there are that many.
LEMMA YoungestAreFew ==
    ASSUME NEW S \in SUBSET Nat, IsFiniteSet(S), NEW K \in Nat
    PROVE  /\ IsFiniteSet(Youngest(S, K)) /\ Cardinality(Youngest(S, K)) \in Nat
           /\ Cardinality(Youngest(S, K)) <= K
           /\ Cardinality(S) >= K => Cardinality(Youngest(S, K)) >= K
<1> DEFINE Y == Youngest(S, K)
           all == [e \in S |-> Cardinality(Above(S, e))]
           few == [e \in Y |-> Cardinality(Above(S, e))]
           n == Cardinality(S)
<1>1. Y \in SUBSET S
  BY DEF Youngest
<1>2. IsFiniteSet(Y) /\ Cardinality(Y) \in Nat /\ n \in Nat
  BY <1>1, FS_Subset, FS_CardinalityType
<1>3. \A e, g \in S : Cardinality(Above(S, e)) = Cardinality(Above(S, g)) => e = g
  <2>1. ASSUME NEW e \in S, NEW g \in S, e # g
        PROVE  Cardinality(Above(S, e)) # Cardinality(Above(S, g))
    <3>1. e \in Nat /\ g \in Nat
      OBVIOUS
    <3>2. Cardinality(Above(S, e)) \in Nat /\ Cardinality(Above(S, g)) \in Nat
      BY RankRange, FS_CardinalityType
    <3>3. CASE e < g
      BY <3>2, <3>3, RankFalls
    <3>4. CASE g < e
      BY <3>2, <3>4, RankFalls
    <3> QED
      BY <2>1, <3>1, <3>3, <3>4
  <2> QED
    BY <2>1
<1>4. \A e \in S : Cardinality(Above(S, e)) \in 1..n
  BY RankRange
<1>5. \A e \in Y : Cardinality(Above(S, e)) \in 1..K
  BY <1>2, <1>4 DEF Youngest
<1>6. IsFiniteSet(1..K) /\ Cardinality(1..K) = K /\ IsFiniteSet(1..n) /\ Cardinality(1..n) = n
  BY <1>2, CountTo
<1>7. few \in Injection(Y, 1..K)
  BY <1>1, <1>3, <1>5 DEF Injection, IsInjective
<1>8. Cardinality(Y) <= K
  BY <1>6, <1>7, FS_Injection
<1>9. all \in Injection(S, 1..n)
  BY <1>3, <1>4 DEF Injection, IsInjective
<1>10. all \in Surjection(S, 1..n)
  BY <1>6, <1>9, FS_Injection
<1>11. ASSUME n >= K PROVE Cardinality(Y) >= K
  <2>1. \A k \in 1..K : \E e \in Y : few[e] = k
    <3> SUFFICES ASSUME NEW k \in 1..K
                 PROVE  \E e \in Y : few[e] = k
      OBVIOUS
    <3>1. k \in 1..n
      BY <1>2, <1>11
    <3>2. PICK e \in S : all[e] = k
      BY <1>10, <3>1 DEF Surjection
    <3>3. e \in Y
      BY <3>2 DEF Youngest
    <3> QED
      BY <3>2, <3>3
  <2>2. few \in Surjection(Y, 1..K)
    BY <1>5, <2>1 DEF Surjection
  <2> QED
    BY <1>2, <1>6, <2>2, FS_Surjection
<1> QED
  BY <1>2, <1>8, <1>11

\* The events on disk are finitely many, and a trim leaves the youngest.
LEMMA EventsFinite ==
    ASSUME Shape
    PROVE  /\ events \in SUBSET Nat /\ IsFiniteSet(events) /\ Cardinality(events) \in Nat
           /\ events \ Surplus = Youngest(events, EventsKept)
<1>1. events \subseteq 1..sent /\ sent \in Nat
  BY DEF Shape, TypeOK
<1>2. events \in SUBSET Nat
  BY <1>1
<1>3. IsFiniteSet(events) /\ Cardinality(events) \in Nat
  BY <1>1, CountTo, FS_Subset, FS_CardinalityType
<1>4. ASSUME NEW e \in events
      PROVE  Cardinality(Above(events, e)) <= EventsKept
                <=> ~(Cardinality({f \in events : f >= e}) > EventsKept)
  <2>1. Cardinality(Above(events, e)) \in Nat
    BY <1>2, <1>3, RankRange, FS_CardinalityType
  <2>2. EventsKept \in Nat
    BY Numbers
  <2> QED
    BY <2>1, <2>2 DEF Above
<1>5. events \ Surplus = Youngest(events, EventsKept)
  BY <1>4 DEF Surplus, Youngest
<1> QED
  BY <1>2, <1>3, <1>5

\* How many events there may be, by how far the request at hand has got: since
\* counts it before its event is written.
Window ==
    /\ left \in {Last4, Last5} => since = 0 /\ Cardinality(events) <= EventsKept + TrimEvery
    /\ left \in {Last3, Last2} \/ (left = Last /\ hand.what = "event") =>
          Cardinality(events) <= EventsKept + since
    /\ left = <<>> \/ (left = Last /\ hand.what # "event") =>
          Cardinality(events) <= EventsKept + since + 1

Windowed ==
    /\ Cardinality(events) <= EventsKept + TrimEvery
    /\ thread # "lost" => Window

\* A trim is never refused a statement.
TrimsSucceed == "failed trim" \notin Allowed

\* The record is empty.
LEMMA WindowInit == Init => Windowed
<1> SUFFICES ASSUME Init PROVE Windowed
  OBVIOUS
<1>1. Cardinality(events) = 0 /\ left = <<>> /\ since = 0
  BY FS_EmptySet DEF Init
<1>2. EventsKept \in Nat /\ TrimEvery \in Nat
  BY Numbers
<1>3. Cardinality(events) <= EventsKept + TrimEvery /\ Cardinality(events) <= EventsKept + since + 1
  BY <1>1, <1>2
<1>4. <<>> \notin {Last, Last2, Last3, Last4, Last5}
  BY LastStatements
<1> QED
  BY <1>1, <1>3, <1>4 DEF Windowed, Window

\* A trim is due at the latest after TRIM_EVERY events.
LEMMA WindowTake ==
    ASSUME Shape, Windowed, Take
    PROVE  Windowed'
<1> USE DEF disk
<1> DEFINE r == Head(queue)
<1>1. /\ hand = None /\ left = <<>> /\ thread = "serving" /\ UNCHANGED events /\ since \in Nat
      /\ since < TrimEvery
  BY DEF Take, Shape, TypeOK
<1>2. Cardinality(events) \in Nat /\ EventsKept \in Nat /\ TrimEvery \in Nat \ {0}
  BY EventsFinite, Numbers
<1>3. Cardinality(events) <= EventsKept + since + 1
  BY <1>1 DEF Windowed, Window
<1>4. CASE r.what = "shutdown"
  <2>1. UNCHANGED <<left, since>>
    BY <1>4 DEF Take
  <2> QED
    BY <1>1, <1>2, <1>3, <2>1, LastStatements DEF Windowed, Window
<1>5. CASE r.what # "shutdown"
  <2>1. /\ hand' = r
        /\ left' = IF Trims(r) THEN Append(Trimming, "own") ELSE <<"own">>
        /\ since' = IF r.what # "event" THEN since ELSE IF Trims(r) THEN 0 ELSE since + 1
    BY <1>5 DEF Take
  <2>2. left' = IF Trims(r) THEN Last5 ELSE Last
    BY <2>1, TrimmingThenOwn DEF Last
  <2>3. Cardinality(events) <= EventsKept + TrimEvery
    BY DEF Windowed
  <2>4. CASE Trims(r)
    <3>1. left' = Last5 /\ since' = 0
      BY <2>1, <2>2, <2>4 DEF Trims
    <3> QED
      BY <1>1, <2>3, <3>1, LastStatements DEF Windowed, Window
  <2>5. CASE ~Trims(r)
    <3>1. left' = Last /\ since' = IF hand'.what # "event" THEN since ELSE since + 1
      BY <2>1, <2>2, <2>5
    <3>2. CASE hand'.what = "event"
      <4>1. Cardinality(events') <= EventsKept + since'
        BY <1>1, <1>2, <1>3, <3>1, <3>2
      <4> QED
        BY <1>1, <2>3, <3>1, <3>2, <4>1, LastStatements DEF Windowed, Window
    <3>3. CASE hand'.what # "event"
      <4>1. Cardinality(events') <= EventsKept + since' + 1
        BY <1>1, <1>2, <1>3, <3>1, <3>3
      <4> QED
        BY <1>1, <2>3, <3>1, <3>3, <4>1, LastStatements DEF Windowed, Window
    <3> QED
      BY <3>2, <3>3
  <2> QED
    BY <2>4, <2>5
<1> QED
  BY <1>4, <1>5

\* An event adds one, a trim leaves EVENTS_KEPT.
LEMMA WindowExecute ==
    ASSUME Shape, Shape', Windowed, Execute
    PROVE  Windowed'
<1>1. /\ left # <<>> /\ left \in Lefts /\ left' = Tail(left) /\ Statement(Head(left))
      /\ thread = "serving" /\ UNCHANGED <<hand, since, thread, earlier>>
  BY DEF Execute, Shape, count
<1>2. /\ Cardinality(events) \in Nat /\ IsFiniteSet(events) /\ events \in SUBSET Nat
      /\ Cardinality(events') \in Nat
  <2>1. events' \subseteq 1..sent' /\ sent' \in Nat
    BY DEF Shape, TypeOK
  <2>2. Cardinality(events') \in Nat
    BY <2>1, CountTo, FS_Subset, FS_CardinalityType
  <2> QED
    BY <2>2, EventsFinite
<1>3. EventsKept \in Nat /\ TrimEvery \in Nat \ {0} /\ since \in Nat /\ since < TrimEvery
  BY Numbers DEF Shape, TypeOK
<1>4. Windowed /\ Window
  BY <1>1 DEF Windowed
<1>5. hand # None
  BY <1>1 DEF Shape
<1>6. CASE Head(left) = "own"
  <2>1. left = Last /\ left' = <<>>
    BY <1>1, <1>6, LastStatements, LeftTail
  <2>2. /\ hand.what = "event" => events' = events \cup {hand.e}
        /\ hand.what # "event" => events' = events
    BY <1>1, <1>5, <1>6, OwnWrites, HandFields DEF Statement
  <2>3. Cardinality(events') <= EventsKept + since + 1
    <3>1. CASE hand.what = "event"
      <4>1. Cardinality(events) <= EventsKept + since
        BY <1>4, <2>1, <3>1 DEF Window
      <4>2. Cardinality(events') <= Cardinality(events) + 1
        <5>1. Cardinality(events \cup {hand.e})
                 = IF hand.e \in events THEN Cardinality(events) ELSE Cardinality(events) + 1
          BY <1>2, FS_AddElement
        <5> QED
          BY <1>2, <2>2, <3>1, <5>1
      <4> QED
        BY <1>2, <1>3, <4>1, <4>2
    <3>2. CASE hand.what # "event"
      BY <1>4, <2>1, <2>2, <3>2 DEF Window
    <3> QED
      BY <3>1, <3>2
  <2>4. Cardinality(events') <= EventsKept + TrimEvery
    BY <1>2, <1>3, <2>3
  <2>5. <<>> \notin {Last, Last2, Last3, Last4, Last5}
    BY LastStatements
  <2> QED
    BY <1>1, <2>1, <2>3, <2>4, <2>5 DEF Windowed, Window
<1>7. CASE Head(left) # "own"
  <2>1. TrimStatement(Head(left)) /\ left \in {Last2, Last3, Last4, Last5} /\ hand.what = "event"
    BY <1>1, <1>5, <1>7, LastStatements DEF Statement, Lefts, Shape
  <2>2. events' \subseteq events
    BY <2>1, TrimWrites
  <2>3. Cardinality(events') <= Cardinality(events)
    BY <1>2, <2>2, FS_Subset
  <2>4. CASE left = Last5
    <3>1. left' = Last4 /\ since' = 0 /\ Cardinality(events) <= EventsKept + TrimEvery
      BY <1>1, <1>4, <2>4, LastStatements DEF Window
    <3>2. Last4 \notin {<<>>, Last, Last2, Last3}
      BY LastStatements
    <3>3. Cardinality(events') <= EventsKept + TrimEvery
      BY <1>2, <1>3, <2>3, <3>1
    <3> QED
      BY <3>1, <3>2, <3>3 DEF Windowed, Window
  <2>5. CASE left = Last4
    <3>1. left' = Last3 /\ Head(left) = "surplus events" /\ since = 0
      BY <1>1, <1>4, <2>5, LastStatements DEF Window
    <3>2. events' = Youngest(events, EventsKept)
      BY <2>1, <3>1, TrimWrites, EventsFinite
    <3>3. Cardinality(events') <= EventsKept
      BY <1>2, <1>3, <3>2, YoungestAreFew
    <3>4. Cardinality(events') <= EventsKept + since /\ Cardinality(events') <= EventsKept + since + 1
          /\ Cardinality(events') <= EventsKept + TrimEvery
      BY <1>2, <1>3, <3>3
    <3> QED
      BY <1>1, <1>3, <3>1, <3>4 DEF Windowed, Window
  <2>6. CASE left \in {Last2, Last3}
    <3>1. left' \in {Last, Last2} /\ Cardinality(events) <= EventsKept + since
      BY <1>1, <1>4, <2>6, LastStatements DEF Window
    <3>2. Last \notin {<<>>, Last4, Last5} /\ Last2 \notin {<<>>, Last, Last4, Last5}
      BY LastStatements
    <3>3. Cardinality(events') <= EventsKept + since /\ Cardinality(events') <= EventsKept + TrimEvery
      BY <1>2, <1>3, <2>3, <3>1
    <3> QED
      BY <1>1, <2>1, <3>1, <3>2, <3>3 DEF Windowed, Window
  <2> QED
    BY <2>1, <2>4, <2>5, <2>6
<1> QED
  BY <1>6, <1>7

\* Every step keeps the record within its window.
LEMMA WindowNext ==
    ASSUME Shape, Shape', Windowed, TrimsSucceed, [Next]_vars
    PROVE  Windowed'
<1>1. Cardinality(events) \in Nat /\ EventsKept \in Nat /\ TrimEvery \in Nat \ {0}
  BY EventsFinite, Numbers
<1>2. <<>> \notin {Last, Last2, Last3, Last4, Last5}
  BY LastStatements
<1>3. ASSUME UNCHANGED <<thread, hand, left, since, events>> PROVE Windowed'
  BY <1>3 DEF Windowed, Window
<1>4. CASE UNCHANGED vars \/ RecordEvent \/ Drop \/ SendShutdown
  BY <1>3, <1>4 DEF vars, worker, disk, RecordEvent, Drop, SendShutdown
<1>5. ASSUME NEW r \in Runs, Save(r) \/ Step(r) PROVE Windowed'
  BY <1>3, <1>5 DEF Save, Step, worker, disk
<1>6. CASE Fails
  <2>1. /\ left # <<>> /\ UNCHANGED <<thread, hand, since, events>> /\ thread = "serving"
        /\ left \in Lefts /\ since \in Nat
    BY <1>6 DEF Fails, disk, Shape
  <2>2. Head(left) = "own"
    BY <1>6 DEF Fails, Failure, TrimsSucceed
  <2>3. left = Last /\ left' = <<>>
    BY <1>6, <2>1, <2>2, LeftTail DEF Fails
  <2>4. Cardinality(events) <= EventsKept + since \/ Cardinality(events) <= EventsKept + since + 1
    BY <2>1, <2>3 DEF Windowed, Window
  <2>5. Cardinality(events) <= EventsKept + since + 1
    BY <1>1, <2>1, <2>4
  <2> QED
    BY <1>2, <2>1, <2>3, <2>5 DEF Windowed, Window
<1>7. CASE Answer
  <2>1. left = <<>> /\ UNCHANGED <<thread, left, since, events>>
    BY <1>7 DEF Answer, disk
  <2> QED
    BY <1>2, <2>1 DEF Windowed, Window
<1>8. CASE Lost
  BY <1>8 DEF Lost, disk, Windowed
<1>9. CASE Start
  <2>1. PICK cut \in 0..sent : events' = {e \in events : e > cut} \ Surplus
    BY <1>9, Zenon DEF Start
  <2>2. events' \subseteq Youngest(events, EventsKept)
    BY <2>1, EventsFinite
  <2>3. IsFiniteSet(Youngest(events, EventsKept))
        /\ Cardinality(Youngest(events, EventsKept)) <= EventsKept
        /\ Cardinality(Youngest(events, EventsKept)) \in Nat
    BY <1>1, EventsFinite, YoungestAreFew
  <2>4. Cardinality(events') <= Cardinality(Youngest(events, EventsKept)) /\ IsFiniteSet(events')
    BY <2>2, <2>3, FS_Subset
  <2>5. Cardinality(events') \in Nat
    BY <2>4, FS_CardinalityType
  <2>6. left' = <<>> /\ since' \in Nat
    BY <1>9 DEF Start, Shape
  <2>7. Cardinality(events') <= EventsKept + TrimEvery /\ Cardinality(events') <= EventsKept + since' + 1
    BY <1>1, <2>3, <2>4, <2>5, <2>6
  <2> QED
    BY <1>2, <2>6, <2>7 DEF Windowed, Window
<1> QED
  BY <1>4, <1>5, <1>6, <1>7, <1>8, <1>9, WindowTake, WindowExecute DEF Next, Thread

\* While no statement of a trim is refused, the record holds at most
\* EVENTS_KEPT events and those of one interval between trims, however the
\* process is lost and started again ("never overruns by more than").
THEOREM WindowNeverOverruns ==
    ASSUME "failed trim" \notin Allowed
    PROVE  Spec => []WindowHolds
<1>1. TrimsSucceed
  BY DEF TrimsSucceed
<1>2. Shape /\ Windowed /\ [Next]_vars => Shape' /\ Windowed'
  BY <1>1, ShapeNext, WindowNext
<1>3. Init => Shape /\ Windowed
  BY ShapeInit, WindowInit
<1>4. Windowed => WindowHolds
  BY DEF Windowed, WindowHolds
<1> QED
  BY <1>2, <1>3, <1>4, PTL DEF Spec

-----------------------------------------------------------------------------
(* What was accepted. *)

\* An event is there, or as many as are kept are younger.
Younger(S, e)    == {f \in S : f > e}
CoveredIn(S, e) == e \in S \/ Cardinality(Younger(S, e)) >= EventsKept

\* More events cover as much.
LEMMA CoveredGrows ==
    ASSUME NEW S, NEW T, IsFiniteSet(T), S \subseteq T, NEW e, CoveredIn(S, e)
    PROVE  CoveredIn(T, e)
<1>1. CASE e \in S
  BY <1>1 DEF CoveredIn
<1>2. CASE Cardinality(Younger(S, e)) >= EventsKept
  <2>1. Younger(S, e) \in SUBSET Younger(T, e) /\ Younger(T, e) \in SUBSET T
    BY DEF Younger
  <2>2. IsFiniteSet(Younger(T, e))
    BY <2>1, FS_Subset
  <2>3. Cardinality(Younger(S, e)) <= Cardinality(Younger(T, e)) /\ IsFiniteSet(Younger(S, e))
    BY <2>1, <2>2, FS_Subset
  <2>4. Cardinality(Younger(S, e)) \in Nat /\ Cardinality(Younger(T, e)) \in Nat /\ EventsKept \in Nat
    BY <2>2, <2>3, FS_CardinalityType, Numbers
  <2> QED
    BY <1>2, <2>3, <2>4 DEF CoveredIn
<1> QED
  BY <1>1, <1>2 DEF CoveredIn

\* Trimming what is older than an event leaves it covered.
LEMMA CoveredCut ==
    ASSUME NEW S \in SUBSET Nat, NEW cut \in Nat, NEW e \in Nat, cut < e, CoveredIn(S, e)
    PROVE  CoveredIn({f \in S : f > cut}, e)
<1>1. \A f \in S : f > e => f > cut
  OBVIOUS
<1>2. Younger({f \in S : f > cut}, e) = Younger(S, e)
  BY <1>1 DEF Younger
<1>3. e > cut
  OBVIOUS
<1> QED
  BY <1>2, <1>3 DEF CoveredIn

\* So does trimming the surplus.
LEMMA CoveredTrim ==
    ASSUME NEW S \in SUBSET Nat, IsFiniteSet(S), NEW e \in Nat, CoveredIn(S, e)
    PROVE  CoveredIn(Youngest(S, EventsKept), e)
<1> DEFINE Y == Youngest(S, EventsKept)
           N == Younger(S, e)
<1>1. EventsKept \in Nat /\ Cardinality(S) \in Nat
  BY Numbers, FS_CardinalityType
<1>2. N \in SUBSET S /\ IsFiniteSet(N) /\ Cardinality(N) \in Nat /\ Cardinality(N) <= Cardinality(S)
  <2>1. N \in SUBSET S
    BY DEF Younger
  <2> QED
    BY <2>1, FS_Subset, FS_CardinalityType
<1>3. CASE e \in Y
  BY <1>3 DEF CoveredIn
<1>4. CASE e \notin Y
  <2>1. Cardinality(N) >= EventsKept
    <3>1. CASE e \notin S
      BY <3>1 DEF CoveredIn
    <3>2. CASE e \in S
      <4>1. Above(S, e) = N \cup {e} /\ e \notin N
        <5>1. \A f \in S : f >= e <=> f > e \/ f = e
          OBVIOUS
        <5>2. ~(e > e)
          OBVIOUS
        <5> QED
          BY <3>2, <5>1, <5>2 DEF Above, Younger
      <4>2. Cardinality(N \cup {e}) = Cardinality(N) + 1
        BY <1>2, <4>1, FS_AddElement
      <4>3. ~(Cardinality(Above(S, e)) <= EventsKept)
        BY <1>4, <3>2 DEF Youngest
      <4> QED
        BY <1>1, <1>2, <4>1, <4>2, <4>3
    <3> QED
      BY <3>1, <3>2
  <2>2. IsFiniteSet(Y) /\ Cardinality(Y) \in Nat /\ Cardinality(Y) >= EventsKept
    <3>1. Cardinality(S) >= EventsKept
      BY <1>1, <1>2, <2>1
    <3> QED
      BY <1>1, <3>1, YoungestAreFew
  <2>3. ASSUME NEW g \in Y PROVE g > e
    <3>1. g \in S /\ g \in Nat /\ Cardinality(Above(S, g)) <= EventsKept
      BY <2>3 DEF Youngest
    <3>2. SUFFICES ASSUME g <= e PROVE FALSE
      BY <3>1
    <3>3. N \cup {g} \in SUBSET Above(S, g) /\ g \notin N
      <4>1. \A f \in S : f > e => f >= g
        BY <3>1, <3>2
      <4>2. ~(g > e) /\ g >= g
        BY <3>1, <3>2
      <4> QED
        BY <3>1, <4>1, <4>2 DEF Above, Younger
    <3>4. Cardinality(N \cup {g}) = Cardinality(N) + 1
      BY <1>2, <3>3, FS_AddElement
    <3>5. IsFiniteSet(Above(S, g)) /\ Cardinality(Above(S, g)) \in Nat
      BY <3>1, RankRange, FS_CardinalityType
    <3>6. Cardinality(N \cup {g}) <= Cardinality(Above(S, g))
      BY <3>3, <3>5, FS_Subset
    <3> QED
      BY <1>1, <1>2, <2>1, <3>1, <3>4, <3>5, <3>6
  <2>4. Younger(Y, e) = Y
    BY <2>3 DEF Younger
  <2> QED
    BY <2>2, <2>4 DEF CoveredIn
<1> QED
  BY <1>3, <1>4

\* Nothing is asked after the stop, and no event is refused by the database.
OrderlyStop == {"late handle", "failed event"} \cap Allowed = {}

\* An event that was accepted is on disk or superseded, or on its way; the stop
\* is the last of what was asked.
OnItsWay(e) ==
    \/ hand # None /\ hand.what = "event" /\ hand.e = e /\ left # <<>>
    \/ \E i \in 1..Len(queue) : queue[i].what = "event" /\ queue[i].e = e

Accounted ==
    /\ thread # "lost" => \A e \in earlier + 1 .. sent : CoveredIn(events, e) \/ OnItsWay(e)
    /\ \A i \in 1..Len(queue) : queue[i].what = "shutdown" => i = Len(queue) /\ dropping = "joining"

\* Nothing was accepted yet.
LEMMA AccountedInit == Init => Accounted
<1> SUFFICES ASSUME Init PROVE Accounted
  OBVIOUS
<1>1. queue = <<>> /\ 1..Len(queue) = {} /\ sent = 0 /\ earlier = 0
  BY DEF Init
<1>2. earlier + 1 .. sent = {}
  BY <1>1
<1> QED
  BY <1>1, <1>2 DEF Accounted

\* What is put in the queue joins what is on its way.
LEMMA AccountedPuts ==
    ASSUME Shape, Accounted, NEW q \in Request, Puts(q),
           UNCHANGED <<thread, hand, left, events, earlier>>,
           sent' = sent \/ (sent' = sent + 1 /\ q.what = "event" /\ q.e = sent + 1),
           dropping # "joining", q.what = "shutdown" => dropping' = "joining"
    PROVE  Accounted'
<1>1. /\ \A i \in 1..Len(queue) : queue'[i] = queue[i]
      /\ queue'[Len(queue')] = q /\ thread = "serving"
  BY Queued
<1>2. /\ \A i \in 1..Len(queue') : i = Len(queue') \/ i \in 1..Len(queue)
      /\ 1..Len(queue) \subseteq 1..Len(queue') /\ Len(queue') \in 1..Len(queue')
  <2>1. Len(queue) \in Nat /\ Len(queue') = Len(queue) + 1
    BY Queued
  <2> QED
    BY <2>1
<1>3. sent \in Nat /\ earlier \in Nat
  BY DEF Shape
<1>4. ASSUME NEW e \in earlier + 1 .. sent PROVE CoveredIn(events, e) \/ OnItsWay(e)'
  <2>1. CoveredIn(events, e) \/ OnItsWay(e)
    BY <1>1, <1>4 DEF Accounted
  <2> QED
    BY <1>1, <1>2, <2>1 DEF OnItsWay
<1>5. ASSUME NEW e \in earlier + 1 .. sent', e \notin earlier + 1 .. sent PROVE OnItsWay(e)'
  <2>1. e = sent + 1 /\ sent' = sent + 1
    BY <1>3, <1>5
  <2>2. q.what = "event" /\ q.e = e
    BY <1>3, <2>1
  <2> QED
    BY <1>1, <1>2, <2>2 DEF OnItsWay
<1>6. \A i \in 1..Len(queue') : queue'[i].what = "shutdown" => i = Len(queue') /\ dropping' = "joining"
  BY <1>1, <1>2 DEF Accounted
<1> QED
  BY <1>4, <1>5, <1>6 DEF Accounted

\* What is accepted goes from the queue to the hand, and is doomed if it fails.
LEMMA AccountedTake ==
    ASSUME Shape, Accounted, Take
    PROVE  Accounted'
<1> USE DEF disk, count
<1> DEFINE r == Head(queue)
<1>1. /\ hand = None /\ left = <<>> /\ thread = "serving" /\ UNCHANGED <<events, earlier, sent, dropping>>
      /\ queue # <<>> /\ queue \in Seq(Request)
  BY DEF Take, Shape, TypeOK
<1>2. r = queue[1]
  BY <1>1
<1>3. Len(queue) \in Nat /\ Len(queue) >= 1
  BY <1>1, LenProperties, EmptySeq
<1>4. CASE r.what = "shutdown"
  <2>1. queue' = <<>> /\ 1..Len(queue') = {}
    BY <1>4 DEF Take
  <2>2. Len(queue) = 1
    <3>1. 1 \in 1..Len(queue)
      BY <1>3
    <3> QED
      BY <1>2, <1>4, <3>1 DEF Accounted
  <2>3. \A e : ~OnItsWay(e)
    <3>1. \A i \in 1..Len(queue) : i = 1
      BY <2>2
    <3> QED
      BY <1>1, <1>2, <1>4, <3>1 DEF OnItsWay
  <2> QED
    BY <1>1, <2>1, <2>3 DEF Accounted
<1>5. CASE r.what # "shutdown"
  <2>1. hand' = r /\ queue' = Tail(queue)
        /\ left' = IF Trims(r) THEN Append(Trimming, "own") ELSE <<"own">>
    BY <1>5 DEF Take
  <2>2. left' # <<>> /\ hand' # None
    <3>1. left' # <<>>
      BY <2>1, TrimmingThenOwn, LastStatements DEF Last
    <3>2. r \in Request
      BY <1>1, HeadTailProperties
    <3> QED
      BY <2>1, <3>1, <3>2, Numbers
  <2>3. /\ Len(queue') = Len(queue) - 1
        /\ \A i \in 1..Len(queue') : queue'[i] = queue[i + 1]
    BY <1>1, <2>1, HeadTailProperties
  <2>4. \A i \in 1..Len(queue) : i = 1 \/ (i - 1 \in 1..Len(queue') /\ queue'[i - 1] = queue[i])
    <3>1. \A i \in 1..Len(queue) : i = 1 \/ (i - 1 \in 1..Len(queue') /\ (i - 1) + 1 = i)
      BY <1>3, <2>3
    <3> QED
      BY <2>3, <3>1
  <2>5. \A i \in 1..Len(queue') : i + 1 \in 1..Len(queue) /\ (i + 1 = Len(queue) => i = Len(queue'))
    BY <1>3, <2>3
  <2>6. \A e : OnItsWay(e) => OnItsWay(e)'
    BY <1>1, <1>2, <2>1, <2>2, <2>4 DEF OnItsWay
  <2>7. \A i \in 1..Len(queue') : queue'[i].what = "shutdown" => i = Len(queue') /\ dropping' = "joining"
    BY <1>1, <2>3, <2>5 DEF Accounted
  <2> QED
    BY <1>1, <2>6, <2>7 DEF Accounted
<1> QED
  BY <1>4, <1>5

\* An event is written; a trim removes only what is surplus.
LEMMA AccountedExecute ==
    ASSUME Shape, Shape', Accounted, Execute
    PROVE  Accounted'
<1> USE DEF count
<1>1. /\ left # <<>> /\ left \in Lefts /\ left' = Tail(left) /\ Statement(Head(left))
      /\ thread = "serving" /\ UNCHANGED <<queue, hand, thread, earlier, sent, dropping>>
  BY DEF Execute, Shape
<1>2. IsFiniteSet(events) /\ events \in SUBSET Nat
  BY EventsFinite
<1>3. hand # None /\ earlier \in Nat /\ sent \in Nat
  BY <1>1 DEF Shape
<1>4. \A e \in earlier + 1 .. sent : e \in Nat /\ \A cut \in 0..earlier : cut < e
  BY <1>3
<1>5. \A i \in 1..Len(queue') : queue'[i].what = "shutdown" => i = Len(queue') /\ dropping' = "joining"
  BY <1>1 DEF Accounted
<1>6. CASE Head(left) = "own"
  <2>1. left' = <<>>
    BY <1>1, <1>6, LeftTail
  <2>2. /\ hand.what = "event" => events' = events \cup {hand.e}
        /\ hand.what # "event" => events' = events
    BY <1>1, <1>3, <1>6, OwnWrites, HandFields DEF Statement
  <2>3. events \subseteq events' /\ IsFiniteSet(events')
    BY <1>2, <2>2, FS_AddElement
  <2>4. ASSUME NEW e \in earlier + 1 .. sent PROVE CoveredIn(events', e) \/ OnItsWay(e)'
    <3>1. CASE CoveredIn(events, e)
      BY <2>3, <3>1, CoveredGrows
    <3>2. CASE hand.what = "event" /\ hand.e = e
      BY <2>2, <3>2 DEF CoveredIn
    <3>3. CASE \E i \in 1..Len(queue) : queue[i].what = "event" /\ queue[i].e = e
      BY <1>1, <3>3 DEF OnItsWay
    <3> QED
      BY <1>1, <3>1, <3>2, <3>3 DEF Accounted, OnItsWay
  <2> QED
    BY <1>1, <1>5, <2>4 DEF Accounted
<1>7. CASE Head(left) # "own"
  <2>1. TrimStatement(Head(left)) /\ left' # <<>>
    BY <1>1, <1>7, LeftTail DEF Statement
  <2>2. \A e : OnItsWay(e) => OnItsWay(e)'
    BY <1>1, <2>1 DEF OnItsWay
  <2>3. ASSUME NEW e \in earlier + 1 .. sent, CoveredIn(events, e) PROVE CoveredIn(events', e)
    <3>1. CASE Head(left) = "old events"
      <4>1. PICK cut \in 0..earlier : events' = {f \in events : f > cut}
        BY <2>1, <3>1, TrimWrites, Zenon
      <4>2. cut \in Nat /\ cut < e /\ e \in Nat
        BY <1>3, <1>4
      <4> QED
        BY <1>2, <2>3, <4>1, <4>2, CoveredCut
    <3>2. CASE Head(left) = "surplus events"
      <4>1. events' = Youngest(events, EventsKept)
        BY <2>1, <3>2, TrimWrites, EventsFinite
      <4> QED
        BY <1>2, <1>4, <2>3, <4>1, CoveredTrim
    <3>3. CASE Head(left) \in {"finished steps", "finished rows"}
      BY <2>1, <2>3, <3>3, TrimWrites
    <3> QED
      BY <2>1, <3>1, <3>2, <3>3, TrimWrites
  <2> QED
    BY <1>1, <1>5, <2>2, <2>3 DEF Accounted
<1> QED
  BY <1>6, <1>7

\* Every step keeps an account of every event accepted.
LEMMA AccountedNext ==
    ASSUME Shape, Shape', Accounted, OrderlyStop, [Next]_vars
    PROVE  Accounted'
<1> USE DEF count
<1>1. ASSUME UNCHANGED <<thread, queue, hand, left, events, earlier, sent, dropping>> PROVE Accounted'
  BY <1>1 DEF Accounted, OnItsWay
<1>2. CASE UNCHANGED vars
  BY <1>1, <1>2 DEF vars, worker, disk
<1>3. ASSUME MayAsk PROVE dropping = "no"
  BY <1>3 DEF MayAsk, OrderlyStop
<1>4. ASSUME NEW r \in Runs, NEW q \in Request, q.what \in {"save", "step"}, Asks(r, q),
             UNCHANGED <<worker, disk, count, dropping>>
      PROVE  Accounted'
  <2>1. dropping # "joining"
    BY <1>3, <1>4 DEF Asks
  <2>2. CASE UNCHANGED queue
    BY <1>1, <1>4, <2>2 DEF worker, disk
  <2>3. CASE Puts(q)
    BY <1>4, <2>1, <2>3, AccountedPuts DEF worker, disk
  <2> QED
    BY <1>4, <2>2, <2>3 DEF Asks
<1>5. ASSUME NEW r \in Runs, Save(r) PROVE Accounted'
  <2>1. PICK over \in BOOLEAN :
           Asks(r, [what |-> "save", run |-> r, row |-> [v |-> told[r].row.v + 1, over |-> over]])
    BY <1>5 DEF Save
  <2> DEFINE q == [what |-> "save", run |-> r, row |-> [v |-> told[r].row.v + 1, over |-> over]]
  <2>2. told[r].row.v + 1 \in Nat
    BY ToldFields
  <2>3. q \in Request /\ q.what = "save"
    BY <2>2 DEF Request, Row
  <2>4. UNCHANGED <<worker, disk, count, dropping>>
    BY <1>5 DEF Save
  <2> HIDE DEF q
  <2> QED
    BY <1>4, <2>1, <2>3, <2>4 DEF q
<1>6. ASSUME NEW r \in Runs, Step(r) PROVE Accounted'
  <2> DEFINE q == [what |-> "step", run |-> r, n |-> told[r].steps + 1]
  <2>1. told[r].steps + 1 \in Nat
    BY ToldFields
  <2>2. q \in Request /\ q.what = "step"
    BY <2>1 DEF Request
  <2>3. UNCHANGED <<worker, disk, count, dropping>> /\ Asks(r, q)
    BY <1>6 DEF Step
  <2> HIDE DEF q
  <2> QED
    BY <1>4, <2>2, <2>3
<1>7. CASE RecordEvent
  <2> DEFINE q == [what |-> "event", e |-> sent + 1]
  <2>1. q \in Request /\ q.what = "event" /\ q.e = sent + 1
    BY DEF Request, Shape
  <2>2. dropping # "joining"
    BY <1>3, <1>7 DEF RecordEvent
  <2>3. Puts(q) /\ sent' = sent + 1 /\ UNCHANGED <<thread, hand, left, events, earlier>>
    BY <1>7 DEF RecordEvent, worker, disk
  <2> HIDE DEF q
  <2> QED
    BY <2>1, <2>2, <2>3, AccountedPuts
<1>8. CASE SendShutdown
  <2> DEFINE q == [what |-> "shutdown"]
  <2>1. q \in Request /\ q.what = "shutdown"
    BY DEF Request
  <2>2. dropping = "sending" /\ dropping' = "joining"
        /\ Puts(q) /\ sent' = sent /\ UNCHANGED <<thread, hand, left, events, earlier>>
    BY <1>8 DEF SendShutdown, worker, disk
  <2> HIDE DEF q
  <2> QED
    BY <2>1, <2>2, AccountedPuts
<1>9. CASE Drop
  <2>1. dropping = "no" /\ UNCHANGED <<thread, queue, hand, left, events, earlier, sent>>
    BY <1>9 DEF Drop, worker, disk
  <2> QED
    BY <2>1 DEF Accounted, OnItsWay
<1>10. CASE Fails
  <2>1. /\ left # <<>> /\ UNCHANGED <<thread, queue, hand, events, earlier, sent, dropping>>
        /\ Failure(Head(left)) \in Allowed
        /\ left' = IF Head(left) = "own" THEN <<>> ELSE <<"own">>
    BY <1>10 DEF Fails, disk
  <2>2. left' # <<>> \/ hand.what # "event"
    BY <2>1, LastStatements DEF Failure, OrderlyStop, Last
  <2> QED
    BY <2>1, <2>2 DEF Accounted, OnItsWay
<1>11. CASE Answer
  <2>1. left = <<>> /\ UNCHANGED <<thread, queue, events, earlier, sent, dropping>>
    BY <1>11 DEF Answer, disk
  <2> QED
    BY <2>1 DEF Accounted, OnItsWay
<1>12. CASE Lost
  <2>1. thread' = "lost" /\ queue' = <<>> /\ 1..Len(queue') = {}
    BY <1>12 DEF Lost
  <2> QED
    BY <2>1 DEF Accounted
<1>13. CASE Start
  <2>1. earlier' = sent /\ sent' = sent /\ sent \in Nat /\ queue' = <<>> /\ 1..Len(queue') = {}
    BY <1>13 DEF Start, Shape
  <2>2. earlier' + 1 .. sent' = {}
    BY <2>1
  <2> QED
    BY <2>1, <2>2 DEF Accounted
<1> QED
  BY <1>2, <1>5, <1>6, <1>7, <1>8, <1>9, <1>10, <1>11, <1>12, <1>13, AccountedTake, AccountedExecute
  DEF Next, Thread

\* Nothing is on its way once the thread has stopped.
LEMMA StoppedIsCommitted == Shape /\ Accounted => AcceptedIsCommitted
<1> SUFFICES ASSUME Shape, Accounted, thread = "ended", NEW e \in earlier + 1 .. sent
             PROVE  e \in events \/ Cardinality({f \in events : f > e}) >= EventsKept
  BY DEF AcceptedIsCommitted
<1>1. hand = None /\ queue = <<>>
  BY DEF Shape
<1>2. 1..Len(queue) = {}
  BY <1>1
<1>3. CoveredIn(events, e)
  BY <1>1, <1>2 DEF Accounted, OnItsWay
<1> QED
  BY <1>3 DEF CoveredIn, Younger

\* Once the thread has stopped as it was asked to, each event this process
\* accepted is on disk, or as many as are kept are younger: the stop is served
\* in its turn, so an event is lost only with the process, by a database that
\* refuses it, or by a handle used after the stop (serve, StorageWriter's Drop).
THEOREM NothingAcceptedIsLost ==
    ASSUME "late handle" \notin Allowed, "failed event" \notin Allowed
    PROVE  Spec => []AcceptedIsCommitted
<1>1. OrderlyStop
  BY DEF OrderlyStop
<1>2. Shape /\ Accounted /\ [Next]_vars => Shape' /\ Accounted'
  BY <1>1, ShapeNext, AccountedNext
<1>3. Init => Shape /\ Accounted
  BY ShapeInit, AccountedInit
<1>4. Shape /\ Accounted => AcceptedIsCommitted
  BY StoppedIsCommitted
<1> QED
  BY <1>2, <1>3, <1>4, PTL DEF Spec
=============================================================================
