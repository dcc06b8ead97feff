--------------------------- MODULE GesturesProofs ---------------------------
(***************************************************************************)
(* What holds of the recogniser and the rest clock, for any controls,      *)
(* timings, configurations and weather.                                    *)
(*                                                                         *)
(* A press is counted from the finger to what it is taken to mean: on its  *)
(* way in the channel, reported, lost or displaced.  A release is owed to  *)
(* the press before it, in the channel or already read; a release with no  *)
(* press of its own before it in the channel is a stray, and there are no  *)
(* more strays than presses that explain them.                             *)
(***************************************************************************)
EXTENDS Gestures, FiniteSetTheorems, SequenceTheorems, TLAPS

-----------------------------------------------------------------------------
(* The invariants. *)

One(P) == IF P THEN 1 ELSE 0

\* What the state of a control may still be taken to mean, in presses.
Owed(s) == IF s.at = "tapped" THEN 1
           ELSE IF s.at = "held" /\ ~s.reported THEN (IF s.second THEN 2 ELSE 1)
           ELSE 0

\* Every press means at most one thing, now or later.
Meant(c) ==
    said[c].tap + said[c].hold + 2 * said[c].double + Owed(state[c]) <= said[c].press

\* Whether an event is a press or a release of a control.
Strikes(e, c) == e.control = c /\ e.phase # "turn"
Presses(e, c) == e.control = c /\ e.phase = "down"
Lets(e, c)    == e.control = c /\ e.phase = "up"

\* The presses of a control that wait to be read.
Waiting(q, c) == {i \in 1..Len(q) : Presses(q[i], c)}

\* Nothing of a control waits before a place in the channel.
First(q, c, i) == \A k \in 1..Len(q) : k < i => ~Strikes(q[k], c)

\* The last of a control before a place in the channel is a press.
Opened(q, c, i) ==
    \E j \in 1..Len(q) : /\ j < i /\ Presses(q[j], c)
                         /\ \A k \in 1..Len(q) : j < k /\ k < i => ~Strikes(q[k], c)

\* The releases that wait with no press of theirs before them.
Strays(q, c) == {i \in 1..Len(q) : Lets(q[i], c) /\ ~Opened(q, c, i)}

\* The finger that will let go without a press of its own before it.
HandStrays(q, c, f) == f = "down" /\ ~Opened(q, c, Len(q) + 1)

\* The next there is of a control is a release, in the channel or to come.
LetsGoNext(q, c, f) ==
    \/ \E i \in 1..Len(q) : Lets(q[i], c) /\ First(q, c, i)
    \/ f = "down" /\ First(q, c, Len(q) + 1)

\* Every release, reported or to come without a press before it, is explained:
\* by a press reported, lost or displaced, or by the one that woke the surface.
Explained(c) ==
    said[c].release + Cardinality(Strays(queue, c)) + One(HandStrays(queue, c, finger[c]))
      <= said[c].press + lost[c] + displaced[c]
           + One(waking = c /\ LetsGoNext(queue, c, finger[c]))

\* No press is counted twice, and no finger goes down more often than it may.
Tallied(c) ==
    said[c].press + lost[c] + displaced[c] + One(waking = c) + Cardinality(Waiting(queue, c))
      <= turns["touch"] + turns["other"]

Event == [control : Controls, phase : {"down", "up", "turn"}, age : 0..MostLate]
Said  == [press : Nat, release : Nat, tap : Nat, hold : Nat, double : Nat]

Typed ==
    /\ finger \in [Controls -> {"up", "down"}]
    /\ queue \in Seq(Event) /\ Len(queue) <= InputCapacity
    /\ state \in [Controls -> States]
    /\ \A c \in Controls : ~Waits(state[c]) => state[c].left = 0
    /\ interest \in Interests
    /\ rest \in {"awake", "dimmed", "asleep", "off"}
    /\ idle \in 0..SleepAfter
    /\ waking \in Controls \cup {NoControl}
    /\ power \in [is : {"running", "sleeping"}, changed : BOOLEAN, told : BOOLEAN]
    /\ said \in [Controls -> Said]
    /\ lost \in [Controls -> Nat] /\ displaced \in [Controls -> Nat]
    /\ turns \in [{"touch", "other"} -> Nat]
    /\ turns["touch"] <= MostTouches /\ turns["other"] <= MostTurns

Counts == \A c \in Controls : Meant(c) /\ Explained(c) /\ Tallied(c)

\* The computer sleeps and the loop knows: nothing waits and the surface is off.
Dark ==
    /\ power.is = "sleeping" => power.told
    /\ power.is = "sleeping" /\ ~power.changed => queue = <<>> /\ rest = "off"

-----------------------------------------------------------------------------
(* Places in a channel. *)

\* The same places, one sooner: the first of them is gone.
LEMMA OneSooner ==
    ASSUME NEW n \in Nat, NEW S \in SUBSET (1..n+1), NEW T \in SUBSET (1..n),
           \A i \in 1..n : i \in T <=> i + 1 \in S
    PROVE  /\ IsFiniteSet(S) /\ IsFiniteSet(T)
           /\ Cardinality(S) \in Nat /\ Cardinality(T) \in Nat
           /\ Cardinality(S) = Cardinality(T) + One(1 \in S)
<1> DEFINE R == S \ {1}
           f == [i \in T |-> i + 1]
<1>1. IsFiniteSet(S) /\ IsFiniteSet(T)
  <2>1. IsFiniteSet(1..n) /\ IsFiniteSet(1..n+1)
    BY FS_Interval
  <2> QED
    BY <2>1, FS_Subset
<1>2. f \in Bijection(T, R)
  <2>1. \A i \in T : i \in 1..n /\ i + 1 \in R
    OBVIOUS
  <2>2. \A i, j \in T : f[i] = f[j] => i = j
    OBVIOUS
  <2>3. \A k \in R : k - 1 \in T /\ f[k - 1] = k
    <3> SUFFICES ASSUME NEW k \in R PROVE k - 1 \in T /\ f[k - 1] = k
      OBVIOUS
    <3>1. k \in 2..n+1 /\ k - 1 \in 1..n /\ (k - 1) + 1 = k
      OBVIOUS
    <3>2. k - 1 \in T
      BY <3>1
    <3> QED
      BY <3>1, <3>2
  <2>4. f \in [T -> R]
    BY <2>1
  <2>5. f \in Surjection(T, R)
    BY <2>3, <2>4, Zenon DEF Surjection
  <2>6. f \in Injection(T, R)
    BY <2>2, <2>4, Zenon DEF Injection, IsInjective
  <2> QED
    BY <2>5, <2>6, Zenon DEF Bijection
<1>3. Cardinality(R) = Cardinality(T)
  BY <1>1, <1>2, FS_Bijection DEF ExistsBijection
<1>4. Cardinality(R) = IF 1 \in S THEN Cardinality(S) - 1 ELSE Cardinality(S)
  BY <1>1, FS_RemoveElement
<1>5. Cardinality(S) \in Nat /\ Cardinality(T) \in Nat
  BY <1>1, FS_CardinalityType
<1> QED
  BY <1>1, <1>3, <1>4, <1>5 DEF One

\* The same places, and perhaps one more at the end.
LEMMA OneMore ==
    ASSUME NEW n \in Nat, NEW S \in SUBSET (1..n), NEW T \in SUBSET (1..n+1),
           \A i \in 1..n : i \in T <=> i \in S
    PROVE  /\ IsFiniteSet(S) /\ IsFiniteSet(T)
           /\ Cardinality(S) \in Nat /\ Cardinality(T) \in Nat
           /\ Cardinality(T) = Cardinality(S) + One(n + 1 \in T)
<1>1. IsFiniteSet(S) /\ IsFiniteSet(T)
  <2>1. IsFiniteSet(1..n) /\ IsFiniteSet(1..n+1)
    BY FS_Interval
  <2> QED
    BY <2>1, FS_Subset
<1>2. Cardinality(S) \in Nat /\ Cardinality(T) \in Nat
  BY <1>1, FS_CardinalityType
<1>3. CASE n + 1 \in T
  <2>1. \A i \in 1..n+1 : i \in 1..n \/ i = n + 1
    OBVIOUS
  <2>2. n + 1 \notin S
    OBVIOUS
  <2>3. T = S \cup {n + 1}
    BY <1>3, <2>1
  <2> QED
    BY <1>1, <1>2, <1>3, <2>2, <2>3, FS_AddElement DEF One
<1>4. CASE n + 1 \notin T
  <2>1. \A i \in 1..n+1 : i \in 1..n \/ i = n + 1
    OBVIOUS
  <2>2. T = S
    BY <1>4, <2>1
  <2> QED
    BY <1>1, <1>2, <1>4, <2>2 DEF One
<1> QED
  BY <1>3, <1>4

\* One channel is another without its first event, or with one more.
Without(q, t) == /\ Len(t) \in Nat /\ Len(q) = Len(t) + 1
                 /\ \A i \in 1..Len(t) : t[i] = q[i + 1]
With(q, t, e) == /\ Len(q) \in Nat /\ Len(t) = Len(q) + 1
                 /\ \A i \in 1..Len(q) : t[i] = q[i]
                 /\ t[Len(t)] = e

\* A release that waits first, and one a press comes before, are not the same.
LEMMA FirstIsNotOpened ==
    ASSUME NEW q, Len(q) \in Nat, NEW c, NEW i \in Nat, First(q, c, i)
    PROVE  ~Opened(q, c, i)
BY DEF First, Opened, Strikes, Presses

\* What is before a place, when the first event is gone.
LEMMA OpenedSooner ==
    ASSUME NEW q, NEW t, Without(q, t), NEW c, NEW i \in 1..Len(t) + 1
    PROVE  Opened(q, c, i + 1) <=> Opened(t, c, i) \/ (Presses(q[1], c) /\ First(t, c, i))
<1>1. /\ Len(t) \in Nat /\ Len(q) = Len(t) + 1
      /\ \A k \in 1..Len(t) : t[k] = q[k + 1] /\ k + 1 \in 1..Len(q)
      /\ \A k \in 1..Len(q) : k = 1 \/ (k - 1 \in 1..Len(t) /\ t[k - 1] = q[k])
  <2>1. Len(t) \in Nat /\ Len(q) = Len(t) + 1
    BY DEF Without
  <2>2. \A k \in 1..Len(t) : t[k] = q[k + 1] /\ k + 1 \in 1..Len(q)
    BY <2>1 DEF Without
  <2>3. ASSUME NEW k \in 1..Len(q), k # 1 PROVE k - 1 \in 1..Len(t) /\ t[k - 1] = q[k]
    <3>1. k - 1 \in 1..Len(t) /\ (k - 1) + 1 = k
      BY <2>1, <2>3
    <3> QED
      BY <2>2, <3>1
  <2> QED
    BY <2>1, <2>2, <2>3
<1>2. ASSUME Opened(t, c, i) PROVE Opened(q, c, i + 1)
  <2>1. PICK j \in 1..Len(t) : /\ j < i /\ Presses(t[j], c)
                               /\ \A k \in 1..Len(t) : j < k /\ k < i => ~Strikes(t[k], c)
    BY <1>2 DEF Opened
  <2>2. j + 1 \in 1..Len(q) /\ j + 1 < i + 1 /\ Presses(q[j + 1], c)
    BY <1>1, <2>1
  <2>3. ASSUME NEW k \in 1..Len(q), j + 1 < k, k < i + 1 PROVE ~Strikes(q[k], c)
    <3>1. k - 1 \in 1..Len(t) /\ t[k - 1] = q[k] /\ j < k - 1 /\ k - 1 < i
      BY <1>1, <2>3
    <3> QED
      BY <2>1, <3>1
  <2> QED
    BY <2>2, <2>3 DEF Opened
<1>3. ASSUME Presses(q[1], c), First(t, c, i) PROVE Opened(q, c, i + 1)
  <2>1. 1 \in 1..Len(q) /\ 1 < i + 1
    BY <1>1
  <2>2. ASSUME NEW k \in 1..Len(q), 1 < k, k < i + 1 PROVE ~Strikes(q[k], c)
    <3>1. k - 1 \in 1..Len(t) /\ t[k - 1] = q[k] /\ k - 1 < i
      BY <1>1, <2>2
    <3> QED
      BY <1>3, <3>1 DEF First
  <2> QED
    BY <1>3, <2>1, <2>2 DEF Opened
<1>4. ASSUME Opened(q, c, i + 1) PROVE Opened(t, c, i) \/ (Presses(q[1], c) /\ First(t, c, i))
  <2>1. PICK j \in 1..Len(q) : /\ j < i + 1 /\ Presses(q[j], c)
                               /\ \A k \in 1..Len(q) : j < k /\ k < i + 1 => ~Strikes(q[k], c)
    BY <1>4 DEF Opened
  <2>2. ASSUME NEW k \in 1..Len(t), j < k + 1, k < i PROVE ~Strikes(t[k], c)
    <3>1. k + 1 \in 1..Len(q) /\ t[k] = q[k + 1] /\ k + 1 < i + 1
      BY <1>1, <2>2
    <3> QED
      BY <2>1, <2>2, <3>1
  <2>3. CASE j = 1
    <3>1. \A k \in 1..Len(t) : k < i => ~Strikes(t[k], c)
      BY <2>2, <2>3
    <3> QED
      BY <2>1, <2>3, <3>1 DEF First
  <2>4. CASE j # 1
    <3>1. j - 1 \in 1..Len(t) /\ t[j - 1] = q[j] /\ j - 1 < i
      BY <1>1, <2>1, <2>4
    <3>2. \A k \in 1..Len(t) : j - 1 < k /\ k < i => ~Strikes(t[k], c)
      BY <2>2
    <3> QED
      BY <2>1, <3>1, <3>2 DEF Opened
  <2> QED
    BY <2>3, <2>4
<1> QED
  BY <1>2, <1>3, <1>4

\* Whether nothing waits before a place, when the first event is gone.
LEMMA FirstSooner ==
    ASSUME NEW q, NEW t, Without(q, t), NEW c, NEW i \in 1..Len(t) + 1
    PROVE  First(q, c, i + 1) <=> First(t, c, i) /\ ~Strikes(q[1], c)
<1>1. Len(t) \in Nat /\ Len(q) = Len(t) + 1 /\ \A k \in 1..Len(t) : t[k] = q[k + 1]
  BY DEF Without
<1>2. ASSUME First(t, c, i), ~Strikes(q[1], c), NEW k \in 1..Len(q), k < i + 1
      PROVE  ~Strikes(q[k], c)
  <2>1. CASE k = 1
    BY <1>2, <2>1
  <2>2. CASE k # 1
    <3>1. k - 1 \in 1..Len(t) /\ k - 1 < i /\ (k - 1) + 1 = k
      BY <1>1, <1>2, <2>2
    <3>2. t[k - 1] = q[k]
      BY <1>1, <3>1
    <3> QED
      BY <1>2, <3>1, <3>2 DEF First
  <2> QED
    BY <2>1, <2>2
<1>3. ASSUME First(q, c, i + 1), NEW k \in 1..Len(t), k < i PROVE ~Strikes(t[k], c)
  <2>1. k + 1 \in 1..Len(q) /\ k + 1 < i + 1 /\ t[k] = q[k + 1]
    BY <1>1, <1>3
  <2> QED
    BY <1>3, <2>1 DEF First
<1>4. First(q, c, i + 1) => ~Strikes(q[1], c)
  <2>1. 1 \in 1..Len(q) /\ 1 < i + 1
    BY <1>1
  <2> QED
    BY <2>1 DEF First
<1> QED
  BY <1>2, <1>3, <1>4 DEF First

\* What waits of a control is counted over places of the channel.
LEMMA PlacesFinite ==
    ASSUME NEW q, Len(q) \in Nat, NEW c
    PROVE  /\ Strays(q, c) \in SUBSET (1..Len(q)) /\ Waiting(q, c) \in SUBSET (1..Len(q))
           /\ IsFiniteSet(Strays(q, c)) /\ Cardinality(Strays(q, c)) \in Nat
           /\ IsFiniteSet(Waiting(q, c)) /\ Cardinality(Waiting(q, c)) \in Nat
<1>1. Strays(q, c) \in SUBSET (1..Len(q)) /\ Waiting(q, c) \in SUBSET (1..Len(q))
  BY DEF Strays, Waiting
<1>2. IsFiniteSet(1..Len(q))
  BY FS_Interval
<1> QED
  BY <1>1, <1>2, FS_Subset, FS_CardinalityType

\* A channel, place by place, when the first event is gone.
LEMMA PlacesSooner ==
    ASSUME NEW q, NEW t, Without(q, t), NEW c
    PROVE  /\ \A i \in 1..Len(t) : /\ i \in Waiting(t, c) <=> i + 1 \in Waiting(q, c)
                                   /\ i + 1 \in Strays(q, c) <=>
                                        i \in Strays(t, c) /\ ~(Presses(q[1], c) /\ First(t, c, i))
           /\ 1 \in Waiting(q, c) <=> Presses(q[1], c)
           /\ 1 \in Strays(q, c) <=> Lets(q[1], c)
<1>1. /\ Len(t) \in Nat /\ Len(q) = Len(t) + 1
      /\ \A i \in 1..Len(t) : t[i] = q[i + 1] /\ i + 1 \in 1..Len(q)
      /\ 1 \in 1..Len(q)
  <2>1. Len(t) \in Nat /\ Len(q) = Len(t) + 1 /\ \A i \in 1..Len(t) : t[i] = q[i + 1]
    BY DEF Without
  <2> QED
    BY <2>1
<1>2. ASSUME NEW i \in 1..Len(t)
      PROVE  /\ i \in Waiting(t, c) <=> i + 1 \in Waiting(q, c)
             /\ i + 1 \in Strays(q, c) <=>
                   i \in Strays(t, c) /\ ~(Presses(q[1], c) /\ First(t, c, i))
  <2>1. i \in 1..Len(t) + 1
    BY <1>1
  <2>2. Opened(q, c, i + 1) <=> Opened(t, c, i) \/ (Presses(q[1], c) /\ First(t, c, i))
    BY <2>1, OpenedSooner
  <2>3. t[i] = q[i + 1] /\ i + 1 \in 1..Len(q)
    BY <1>1
  <2>4. i \in Waiting(t, c) <=> i + 1 \in Waiting(q, c)
    BY <2>3 DEF Waiting
  <2>5. i + 1 \in Strays(q, c) <=> Lets(q[i + 1], c) /\ ~Opened(q, c, i + 1)
    BY <2>3 DEF Strays
  <2>6. i \in Strays(t, c) <=> Lets(t[i], c) /\ ~Opened(t, c, i)
    BY DEF Strays
  <2> QED
    BY <2>2, <2>3, <2>4, <2>5, <2>6
<1>3. ~Opened(q, c, 1)
  BY <1>1 DEF Opened
<1> QED
  BY <1>1, <1>2, <1>3 DEF Waiting, Strays

\* The next of a control, when the first event is gone.
LEMMA NextSooner ==
    ASSUME NEW q, NEW t, Without(q, t), NEW c, NEW f
    PROVE  /\ ~Strikes(q[1], c) => (LetsGoNext(q, c, f) <=> LetsGoNext(t, c, f))
           /\ Lets(q[1], c) => LetsGoNext(q, c, f)
           /\ Presses(q[1], c) => ~LetsGoNext(q, c, f)
<1>1. /\ Len(t) \in Nat /\ Len(q) = Len(t) + 1
      /\ \A i \in 1..Len(t) : t[i] = q[i + 1] /\ i + 1 \in 1..Len(q)
      /\ \A k \in 1..Len(q) : k = 1 \/ (k - 1 \in 1..Len(t) /\ t[k - 1] = q[k])
      /\ 1 \in 1..Len(q)
  <2>1. Len(t) \in Nat /\ Len(q) = Len(t) + 1 /\ \A i \in 1..Len(t) : t[i] = q[i + 1]
    BY DEF Without
  <2>2. ASSUME NEW k \in 1..Len(q), k # 1 PROVE k - 1 \in 1..Len(t) /\ t[k - 1] = q[k]
    <3>1. k - 1 \in 1..Len(t) /\ (k - 1) + 1 = k
      BY <2>1, <2>2
    <3> QED
      BY <2>1, <3>1
  <2> QED
    BY <2>1, <2>2
<1>2. \A i \in 1..Len(t) + 1 : First(q, c, i + 1) <=> First(t, c, i) /\ ~Strikes(q[1], c)
  BY FirstSooner
<1>3. Len(t) + 1 \in 1..Len(t) + 1 /\ \A i \in 1..Len(t) : i \in 1..Len(t) + 1
  BY <1>1
<1>4. First(q, c, 1)
  BY <1>1 DEF First
<1>5. ASSUME ~Strikes(q[1], c) PROVE LetsGoNext(q, c, f) <=> LetsGoNext(t, c, f)
  <2>1. ~Lets(q[1], c)
    BY <1>5 DEF Strikes, Lets
  <2>2. (\E i \in 1..Len(q) : Lets(q[i], c) /\ First(q, c, i))
          <=> (\E i \in 1..Len(t) : Lets(t[i], c) /\ First(t, c, i))
    <3>1. ASSUME NEW i \in 1..Len(q), Lets(q[i], c), First(q, c, i)
          PROVE  \E j \in 1..Len(t) : Lets(t[j], c) /\ First(t, c, j)
      <4>1. i - 1 \in 1..Len(t) /\ t[i - 1] = q[i] /\ (i - 1) + 1 = i
        BY <1>1, <2>1, <3>1
      <4> QED
        BY <1>2, <1>3, <3>1, <4>1
    <3>2. ASSUME NEW i \in 1..Len(t), Lets(t[i], c), First(t, c, i)
          PROVE  \E j \in 1..Len(q) : Lets(q[j], c) /\ First(q, c, j)
      BY <1>1, <1>2, <1>3, <1>5, <3>2
    <3> QED
      BY <3>1, <3>2
  <2>3. First(q, c, Len(q) + 1) <=> First(t, c, Len(t) + 1)
    BY <1>1, <1>2, <1>3, <1>5
  <2> QED
    BY <2>2, <2>3 DEF LetsGoNext
<1>6. ASSUME Lets(q[1], c) PROVE LetsGoNext(q, c, f)
  BY <1>1, <1>4, <1>6 DEF LetsGoNext
<1>7. ASSUME Presses(q[1], c) PROVE ~LetsGoNext(q, c, f)
  <2>1. ~Lets(q[1], c) /\ Strikes(q[1], c)
    BY <1>7 DEF Presses, Lets, Strikes
  <2>2. \A i \in 1..Len(q) : i # 1 => ~First(q, c, i)
    BY <1>1, <2>1 DEF First
  <2>3. ~First(q, c, Len(q) + 1)
    BY <1>1, <2>1 DEF First
  <2> QED
    BY <2>1, <2>2, <2>3 DEF LetsGoNext
<1> QED
  BY <1>5, <1>6, <1>7

\* The first event is gone, and is neither a press nor a release of a control.
LEMMA ReadOther ==
    ASSUME NEW q, NEW t, Without(q, t), NEW c, NEW f, ~Strikes(q[1], c)
    PROVE  /\ Cardinality(Waiting(t, c)) = Cardinality(Waiting(q, c))
           /\ Cardinality(Strays(t, c)) = Cardinality(Strays(q, c))
           /\ HandStrays(t, c, f) <=> HandStrays(q, c, f)
           /\ LetsGoNext(t, c, f) <=> LetsGoNext(q, c, f)
<1>1. Len(t) \in Nat /\ Len(q) = Len(t) + 1 /\ Len(q) \in Nat /\ Len(t) + 1 \in 1..Len(t) + 1
  BY DEF Without
<1>2. ~Lets(q[1], c) /\ ~Presses(q[1], c)
  BY DEF Strikes, Lets, Presses
<1>3. /\ \A i \in 1..Len(t) : /\ i \in Waiting(t, c) <=> i + 1 \in Waiting(q, c)
                              /\ i \in Strays(t, c) <=> i + 1 \in Strays(q, c)
      /\ 1 \notin Waiting(q, c) /\ 1 \notin Strays(q, c)
  BY <1>2, PlacesSooner
<1>4. /\ Strays(q, c) \in SUBSET (1..Len(t)+1) /\ Waiting(q, c) \in SUBSET (1..Len(t)+1)
      /\ Strays(t, c) \in SUBSET (1..Len(t)) /\ Waiting(t, c) \in SUBSET (1..Len(t))
  BY <1>1, PlacesFinite
<1>5. /\ Cardinality(Strays(q, c)) = Cardinality(Strays(t, c)) + One(1 \in Strays(q, c))
      /\ Cardinality(Strays(t, c)) \in Nat
  BY <1>1, <1>3, <1>4, OneSooner
<1>6. /\ Cardinality(Waiting(q, c)) = Cardinality(Waiting(t, c)) + One(1 \in Waiting(q, c))
      /\ Cardinality(Waiting(t, c)) \in Nat
  BY <1>1, <1>3, <1>4, OneSooner
<1>7. Opened(q, c, Len(q) + 1) <=> Opened(t, c, Len(t) + 1)
  BY <1>1, <1>2, OpenedSooner
<1> QED
  BY <1>3, <1>5, <1>6, <1>7, NextSooner DEF One, HandStrays

\* The first event is gone, and is a release.
LEMMA ReadRelease ==
    ASSUME NEW q, NEW t, Without(q, t), NEW c, NEW f, Lets(q[1], c)
    PROVE  /\ Cardinality(Waiting(t, c)) = Cardinality(Waiting(q, c))
           /\ Cardinality(Strays(t, c)) + 1 = Cardinality(Strays(q, c))
           /\ HandStrays(t, c, f) <=> HandStrays(q, c, f)
           /\ LetsGoNext(q, c, f)
<1>1. Len(t) \in Nat /\ Len(q) = Len(t) + 1 /\ Len(q) \in Nat /\ Len(t) + 1 \in 1..Len(t) + 1
  BY DEF Without
<1>2. ~Presses(q[1], c)
  BY DEF Lets, Presses
<1>3. /\ \A i \in 1..Len(t) : /\ i \in Waiting(t, c) <=> i + 1 \in Waiting(q, c)
                              /\ i \in Strays(t, c) <=> i + 1 \in Strays(q, c)
      /\ 1 \notin Waiting(q, c) /\ 1 \in Strays(q, c)
  BY <1>2, PlacesSooner
<1>4. /\ Strays(q, c) \in SUBSET (1..Len(t)+1) /\ Waiting(q, c) \in SUBSET (1..Len(t)+1)
      /\ Strays(t, c) \in SUBSET (1..Len(t)) /\ Waiting(t, c) \in SUBSET (1..Len(t))
  BY <1>1, PlacesFinite
<1>5. /\ Cardinality(Strays(q, c)) = Cardinality(Strays(t, c)) + One(1 \in Strays(q, c))
      /\ Cardinality(Strays(t, c)) \in Nat
  BY <1>1, <1>3, <1>4, OneSooner, ZenonT(60)
<1>6. /\ Cardinality(Waiting(q, c)) = Cardinality(Waiting(t, c)) + One(1 \in Waiting(q, c))
      /\ Cardinality(Waiting(t, c)) \in Nat
  BY <1>1, <1>3, <1>4, OneSooner
<1>7. Opened(q, c, Len(q) + 1) <=> Opened(t, c, Len(t) + 1)
  BY <1>1, <1>2, OpenedSooner
<1> QED
  BY <1>3, <1>5, <1>6, <1>7, NextSooner DEF One, HandStrays

\* The first event is gone, and is a press: the release it was of is a stray.
LEMMA ReadPress ==
    ASSUME NEW q, NEW t, Without(q, t), NEW c, NEW f, Presses(q[1], c)
    PROVE  /\ Cardinality(Waiting(t, c)) + 1 = Cardinality(Waiting(q, c))
           /\ Cardinality(Strays(t, c)) + One(HandStrays(t, c, f))
                = Cardinality(Strays(q, c)) + One(HandStrays(q, c, f)) + One(LetsGoNext(t, c, f))
           /\ ~LetsGoNext(q, c, f)
<1> DEFINE T == {i \in Strays(t, c) : ~First(t, c, i)}
<1>1. Len(t) \in Nat /\ Len(q) = Len(t) + 1 /\ Len(q) \in Nat /\ Len(t) + 1 \in 1..Len(t) + 1
  BY DEF Without
<1>2. ~Lets(q[1], c)
  BY DEF Lets, Presses
<1>3. /\ \A i \in 1..Len(t) : /\ i \in Waiting(t, c) <=> i + 1 \in Waiting(q, c)
                              /\ i \in T <=> i + 1 \in Strays(q, c)
      /\ 1 \in Waiting(q, c) /\ 1 \notin Strays(q, c)
  BY <1>2, PlacesSooner
<1>4. /\ Strays(q, c) \in SUBSET (1..Len(t)+1) /\ Waiting(q, c) \in SUBSET (1..Len(t)+1)
      /\ T \in SUBSET (1..Len(t)) /\ Waiting(t, c) \in SUBSET (1..Len(t))
      /\ Strays(t, c) \in SUBSET (1..Len(t))
      /\ Cardinality(Strays(t, c)) \in Nat /\ Cardinality(Strays(q, c)) \in Nat
  BY <1>1, PlacesFinite
<1>5. /\ Cardinality(Strays(q, c)) = Cardinality(T) + One(1 \in Strays(q, c))
      /\ Cardinality(T) \in Nat /\ IsFiniteSet(T)
  <2> HIDE DEF T
  <2> QED
    BY <1>1, <1>3, <1>4, OneSooner
<1>6. /\ Cardinality(Waiting(q, c)) = Cardinality(Waiting(t, c)) + One(1 \in Waiting(q, c))
      /\ Cardinality(Waiting(t, c)) \in Nat
  <2> HIDE DEF T
  <2> QED
    BY <1>1, <1>3, <1>4, OneSooner, ZenonT(60)
<1>7. Opened(q, c, Len(q) + 1) <=> Opened(t, c, Len(t) + 1) \/ First(t, c, Len(t) + 1)
  BY <1>1, OpenedSooner
<1>8. \A i \in 1..Len(t) + 1 : First(t, c, i) => ~Opened(t, c, i)
  BY <1>1, FirstIsNotOpened
<1>9. ASSUME NEW i \in 1..Len(t), Lets(t[i], c), First(t, c, i)
      PROVE  /\ Strays(t, c) = T \cup {i} /\ i \notin T
             /\ ~First(t, c, Len(t) + 1) /\ LetsGoNext(t, c, f)
  <2>1. i \in Strays(t, c)
    BY <1>1, <1>8, <1>9 DEF Strays
  <2>2. \A j \in 1..Len(t) + 1 : First(t, c, j) => ~(i < j)
    BY <1>9 DEF First, Lets, Strikes
  <2>3. \A j \in Strays(t, c) : First(t, c, j) => j = i
    <3>1. ASSUME NEW j \in Strays(t, c), First(t, c, j) PROVE j = i
      <4>1. j \in 1..Len(t) /\ Lets(t[j], c)
        BY DEF Strays
      <4>2. ~(i < j)
        BY <1>1, <2>2, <3>1, <4>1
      <4>3. ~(j < i)
        BY <1>9, <4>1 DEF First, Lets, Strikes
      <4> QED
        BY <4>1, <4>2, <4>3
    <3> QED
      BY <3>1
  <2>4. ~First(t, c, Len(t) + 1)
    BY <1>1, <2>2
  <2>5. LetsGoNext(t, c, f)
    BY <1>9 DEF LetsGoNext
  <2> QED
    BY <1>9, <2>1, <2>3, <2>4, <2>5
<1>10. CASE \E i \in 1..Len(t) : Lets(t[i], c) /\ First(t, c, i)
  <2>1. PICK i \in 1..Len(t) : Lets(t[i], c) /\ First(t, c, i)
    BY <1>10
  <2>2. /\ Strays(t, c) = T \cup {i} /\ i \notin T
        /\ ~First(t, c, Len(t) + 1) /\ LetsGoNext(t, c, f)
    BY <1>9, <2>1
  <2>3. Cardinality(Strays(t, c)) = Cardinality(T) + 1
    <3> HIDE DEF T
    <3> QED
      BY <1>5, <2>2, FS_AddElement
  <2>4. HandStrays(t, c, f) <=> HandStrays(q, c, f)
    BY <1>7, <2>2 DEF HandStrays
  <2>5. One(HandStrays(t, c, f)) = One(HandStrays(q, c, f)) /\ One(HandStrays(q, c, f)) \in Nat
    BY <2>4 DEF One
  <2> HIDE DEF T
  <2> QED
    BY <1>3, <1>4, <1>5, <1>6, <2>2, <2>3, <2>5, NextSooner DEF One
<1>11. CASE ~\E i \in 1..Len(t) : Lets(t[i], c) /\ First(t, c, i)
  <2>1. T = Strays(t, c)
    BY <1>11 DEF Strays
  <2>2. LetsGoNext(t, c, f) <=> f = "down" /\ First(t, c, Len(t) + 1)
    BY <1>11 DEF LetsGoNext
  <2>3. One(HandStrays(t, c, f)) = One(HandStrays(q, c, f)) + One(LetsGoNext(t, c, f))
    BY <1>1, <1>7, <1>8, <2>2 DEF HandStrays, One
  <2>4. One(HandStrays(q, c, f)) \in Nat /\ One(LetsGoNext(t, c, f)) \in Nat
    BY DEF One
  <2> HIDE DEF T
  <2> QED
    BY <1>3, <1>4, <1>5, <1>6, <2>1, <2>3, <2>4, NextSooner DEF One
<1> QED
  BY <1>10, <1>11

\* A channel, place by place, with one more event.
LEMMA PlacesMore ==
    ASSUME NEW q, NEW t, NEW e, With(q, t, e), NEW c
    PROVE  /\ \A i \in 1..Len(q) + 1 : /\ Opened(t, c, i) <=> Opened(q, c, i)
                                       /\ First(t, c, i) <=> First(q, c, i)
           /\ \A i \in 1..Len(q) : /\ i \in Waiting(t, c) <=> i \in Waiting(q, c)
                                   /\ i \in Strays(t, c) <=> i \in Strays(q, c)
           /\ Len(q) + 1 \in Waiting(t, c) <=> Presses(e, c)
           /\ Len(q) + 1 \in Strays(t, c) <=> Lets(e, c) /\ ~Opened(q, c, Len(q) + 1)
           /\ First(t, c, Len(t) + 1) <=> First(q, c, Len(q) + 1) /\ ~Strikes(e, c)
           /\ ~Strikes(e, c) => (Opened(t, c, Len(t) + 1) <=> Opened(q, c, Len(q) + 1))
           /\ Presses(e, c) => Opened(t, c, Len(t) + 1)
<1>1. /\ Len(q) \in Nat /\ Len(t) = Len(q) + 1 /\ t[Len(q) + 1] = e
      /\ \A i \in 1..Len(q) : t[i] = q[i] /\ i \in 1..Len(t)
      /\ Len(q) + 1 \in 1..Len(t)
      /\ \A i \in 1..Len(t) : i = Len(q) + 1 \/ i \in 1..Len(q)
  <2>1. Len(q) \in Nat /\ Len(t) = Len(q) + 1 /\ t[Len(q) + 1] = e
    BY DEF With
  <2>2. \A i \in 1..Len(q) : t[i] = q[i]
    BY DEF With
  <2>3. /\ \A i \in 1..Len(q) : i \in 1..Len(t)
        /\ Len(q) + 1 \in 1..Len(t)
        /\ \A i \in 1..Len(t) : i = Len(q) + 1 \/ i \in 1..Len(q)
    BY <2>1
  <2> QED
    BY <2>1, <2>2, <2>3
<1>2. ASSUME NEW i \in 1..Len(q) + 1
      PROVE  (Opened(t, c, i) <=> Opened(q, c, i)) /\ (First(t, c, i) <=> First(q, c, i))
  <2>1. \A k \in 1..Len(t) : k < i => k \in 1..Len(q) /\ t[k] = q[k]
    BY <1>1
  <2>2. \A k \in 1..Len(q) : k < i => k \in 1..Len(t) /\ t[k] = q[k]
    BY <1>1
  <2>3. First(t, c, i) <=> First(q, c, i)
    BY <2>1, <2>2 DEF First
  <2>4. Opened(t, c, i) => Opened(q, c, i)
    BY <2>1, <2>2 DEF Opened
  <2>5. Opened(q, c, i) => Opened(t, c, i)
    BY <2>1, <2>2 DEF Opened
  <2> QED
    BY <2>3, <2>4, <2>5
<1>3. /\ \A i \in 1..Len(q) : i \in 1..Len(q) + 1 /\ i < Len(t) + 1
      /\ Len(q) + 1 \in 1..Len(q) + 1 /\ Len(q) + 1 < Len(t) + 1
  BY <1>1
<1>4. \A i \in 1..Len(q) : /\ i \in Waiting(t, c) <=> i \in Waiting(q, c)
                           /\ i \in Strays(t, c) <=> i \in Strays(q, c)
  BY <1>1, <1>2, <1>3 DEF Waiting, Strays
<1>5. Len(q) + 1 \in Waiting(t, c) <=> Presses(e, c)
  BY <1>1 DEF Waiting
<1>6. Len(q) + 1 \in Strays(t, c) <=> Lets(e, c) /\ ~Opened(q, c, Len(q) + 1)
  BY <1>1, <1>2, <1>3 DEF Strays
<1>7. \A k \in 1..Len(q) : k < Len(q) + 1
  BY <1>1
<1>8. First(t, c, Len(t) + 1) <=> First(q, c, Len(q) + 1) /\ ~Strikes(e, c)
  BY <1>1, <1>3, <1>7 DEF First
<1>9. ASSUME ~Strikes(e, c), Opened(t, c, Len(t) + 1) PROVE Opened(q, c, Len(q) + 1)
  <2>1. PICK j \in 1..Len(t) : /\ Presses(t[j], c)
                               /\ \A k \in 1..Len(t) : j < k /\ k < Len(t) + 1 => ~Strikes(t[k], c)
    BY <1>9 DEF Opened
  <2>2. j \in 1..Len(q)
    BY <1>1, <1>9, <2>1 DEF Presses, Strikes
  <2> QED
    BY <1>1, <1>3, <1>7, <2>1, <2>2 DEF Opened
<1>10. ASSUME ~Strikes(e, c), Opened(q, c, Len(q) + 1) PROVE Opened(t, c, Len(t) + 1)
  <2>1. PICK j \in 1..Len(q) : /\ Presses(q[j], c)
                               /\ \A k \in 1..Len(q) : j < k /\ k < Len(q) + 1 => ~Strikes(q[k], c)
    BY <1>10 DEF Opened
  <2>2. \A k \in 1..Len(t) : j < k => ~Strikes(t[k], c)
    BY <1>1, <1>7, <1>10, <2>1
  <2> QED
    BY <1>1, <1>3, <2>1, <2>2 DEF Opened
<1>11. ASSUME Presses(e, c) PROVE Opened(t, c, Len(t) + 1)
  <2>1. \A k \in 1..Len(t) : Len(q) + 1 < k => FALSE
    BY <1>1
  <2> QED
    BY <1>1, <1>3, <1>11, <2>1 DEF Opened
<1> QED
  BY <1>2, <1>4, <1>5, <1>6, <1>8, <1>9, <1>10, <1>11

\* One more event, that is no press nor release of a control.
LEMMA HeardOther ==
    ASSUME NEW q, NEW t, NEW e, With(q, t, e), NEW c, NEW f, ~Strikes(e, c)
    PROVE  /\ Cardinality(Waiting(t, c)) = Cardinality(Waiting(q, c))
           /\ Cardinality(Strays(t, c)) = Cardinality(Strays(q, c))
           /\ HandStrays(t, c, f) <=> HandStrays(q, c, f)
           /\ LetsGoNext(t, c, f) <=> LetsGoNext(q, c, f)
<1>1. Len(q) \in Nat /\ Len(t) = Len(q) + 1 /\ Len(t) \in Nat /\ t[Len(t)] = e
      /\ \A i \in 1..Len(q) : t[i] = q[i]
  BY DEF With
<1>2. ~Lets(e, c) /\ ~Presses(e, c)
  BY DEF Strikes, Lets, Presses
<1>3. /\ Waiting(q, c) \in SUBSET (1..Len(q)) /\ Waiting(t, c) \in SUBSET (1..Len(q)+1)
      /\ Strays(q, c) \in SUBSET (1..Len(q)) /\ Strays(t, c) \in SUBSET (1..Len(q)+1)
  BY <1>1, PlacesFinite
<1>4. /\ \A i \in 1..Len(q) : /\ i \in Waiting(t, c) <=> i \in Waiting(q, c)
                              /\ i \in Strays(t, c) <=> i \in Strays(q, c)
      /\ Len(q) + 1 \notin Waiting(t, c) /\ Len(q) + 1 \notin Strays(t, c)
  BY <1>2, PlacesMore
<1>5. Waiting(t, c) = Waiting(q, c) /\ Strays(t, c) = Strays(q, c)
  <2>1. \A i \in 1..Len(q)+1 : i = Len(q) + 1 \/ i \in 1..Len(q)
    BY <1>1
  <2> QED
    BY <1>3, <1>4, <2>1
<1>6. Opened(t, c, Len(t) + 1) <=> Opened(q, c, Len(q) + 1)
  BY PlacesMore
<1>7. First(t, c, Len(t) + 1) <=> First(q, c, Len(q) + 1)
  BY PlacesMore
<1>8. (\E i \in 1..Len(t) : Lets(t[i], c) /\ First(t, c, i))
        <=> (\E i \in 1..Len(q) : Lets(q[i], c) /\ First(q, c, i))
  <2>1. \A i \in 1..Len(t) : i = Len(t) \/ i \in 1..Len(q)
    BY <1>1
  <2>2. \A i \in 1..Len(q) : i \in 1..Len(t) /\ i \in 1..Len(q) + 1
    BY <1>1
  <2>3. \A i \in 1..Len(q) : First(t, c, i) <=> First(q, c, i)
    BY <2>2, PlacesMore
  <2> QED
    BY <1>1, <1>2, <2>1, <2>2, <2>3
<1> QED
  BY <1>5, <1>6, <1>7, <1>8 DEF HandStrays, LetsGoNext

\* One more press: the finger is down for it.
LEMMA HeardPress ==
    ASSUME NEW q, NEW t, NEW e, With(q, t, e), NEW c, Presses(e, c)
    PROVE  /\ Cardinality(Waiting(t, c)) = Cardinality(Waiting(q, c)) + 1
           /\ Cardinality(Strays(t, c)) = Cardinality(Strays(q, c))
           /\ ~HandStrays(t, c, "down") /\ ~HandStrays(q, c, "up")
           /\ LetsGoNext(q, c, "up") => LetsGoNext(t, c, "down")
<1>1. Len(q) \in Nat /\ Len(t) = Len(q) + 1 /\ Len(t) \in Nat
      /\ \A i \in 1..Len(q) : t[i] = q[i]
  BY DEF With
<1>2. ~Lets(e, c)
  BY DEF Lets, Presses
<1>3. /\ Waiting(q, c) \in SUBSET (1..Len(q)) /\ Waiting(t, c) \in SUBSET (1..Len(q)+1)
      /\ Strays(q, c) \in SUBSET (1..Len(q)) /\ Strays(t, c) \in SUBSET (1..Len(q)+1)
  BY <1>1, PlacesFinite
<1>4. /\ \A i \in 1..Len(q) : /\ i \in Waiting(t, c) <=> i \in Waiting(q, c)
                              /\ i \in Strays(t, c) <=> i \in Strays(q, c)
      /\ Len(q) + 1 \in Waiting(t, c) /\ Len(q) + 1 \notin Strays(t, c)
  BY <1>2, PlacesMore
<1>5. /\ Cardinality(Waiting(t, c)) = Cardinality(Waiting(q, c)) + One(Len(q) + 1 \in Waiting(t, c))
      /\ Cardinality(Waiting(q, c)) \in Nat
  BY <1>1, <1>3, <1>4, OneMore
<1>6. /\ Cardinality(Strays(t, c)) = Cardinality(Strays(q, c)) + One(Len(q) + 1 \in Strays(t, c))
      /\ Cardinality(Strays(q, c)) \in Nat
  BY <1>1, <1>3, <1>4, OneMore
<1>7. ~HandStrays(t, c, "down") /\ ~HandStrays(q, c, "up")
  BY PlacesMore DEF HandStrays
<1>8. LetsGoNext(q, c, "up") => LetsGoNext(t, c, "down")
  <2>1. \A i \in 1..Len(q) : i \in 1..Len(t) /\ i \in 1..Len(q) + 1
    BY <1>1
  <2>2. \A i \in 1..Len(q) : First(t, c, i) <=> First(q, c, i)
    BY <2>1, PlacesMore
  <2> QED
    BY <1>1, <2>1, <2>2 DEF LetsGoNext
<1> QED
  BY <1>4, <1>5, <1>6, <1>7, <1>8 DEF One

\* One more release: the finger is up for it.
LEMMA HeardRelease ==
    ASSUME NEW q, NEW t, NEW e, With(q, t, e), NEW c, Lets(e, c)
    PROVE  /\ Cardinality(Waiting(t, c)) = Cardinality(Waiting(q, c))
           /\ Cardinality(Strays(t, c)) = Cardinality(Strays(q, c)) + One(HandStrays(q, c, "down"))
           /\ ~HandStrays(t, c, "up")
           /\ LetsGoNext(q, c, "down") => LetsGoNext(t, c, "up")
<1>1. Len(q) \in Nat /\ Len(t) = Len(q) + 1 /\ Len(t) \in Nat /\ t[Len(t)] = e
      /\ \A i \in 1..Len(q) : t[i] = q[i]
  BY DEF With
<1>2. ~Presses(e, c)
  BY DEF Lets, Presses
<1>3. /\ Waiting(q, c) \in SUBSET (1..Len(q)) /\ Waiting(t, c) \in SUBSET (1..Len(q)+1)
      /\ Strays(q, c) \in SUBSET (1..Len(q)) /\ Strays(t, c) \in SUBSET (1..Len(q)+1)
  BY <1>1, PlacesFinite
<1>4. /\ \A i \in 1..Len(q) : /\ i \in Waiting(t, c) <=> i \in Waiting(q, c)
                              /\ i \in Strays(t, c) <=> i \in Strays(q, c)
      /\ Len(q) + 1 \notin Waiting(t, c)
      /\ Len(q) + 1 \in Strays(t, c) <=> HandStrays(q, c, "down")
  BY <1>2, PlacesMore DEF HandStrays
<1>5. /\ Cardinality(Waiting(t, c)) = Cardinality(Waiting(q, c)) + One(Len(q) + 1 \in Waiting(t, c))
      /\ Cardinality(Waiting(q, c)) \in Nat
  BY <1>1, <1>3, <1>4, OneMore
<1>6. /\ Cardinality(Strays(t, c)) = Cardinality(Strays(q, c)) + One(Len(q) + 1 \in Strays(t, c))
      /\ Cardinality(Strays(q, c)) \in Nat
  BY <1>1, <1>3, <1>4, OneMore
<1>7. ~HandStrays(t, c, "up")
  BY DEF HandStrays
<1>8. LetsGoNext(q, c, "down") => LetsGoNext(t, c, "up")
  <2>1. \A i \in 1..Len(q) : i \in 1..Len(t) /\ i \in 1..Len(q) + 1
    BY <1>1
  <2>2. \A i \in 1..Len(q) + 1 : First(t, c, i) <=> First(q, c, i)
    BY PlacesMore
  <2>3. Len(t) \in 1..Len(t) /\ Len(t) \in 1..Len(q) + 1 /\ Len(t) = Len(q) + 1
    BY <1>1
  <2> QED
    BY <1>1, <2>1, <2>2, <2>3 DEF LetsGoNext
<1> QED
  BY <1>4, <1>5, <1>6, <1>7, <1>8 DEF One

\* What lets go next, in the channel or by hand, is a stray.
LEMMA NextIsStray ==
    ASSUME NEW q, Len(q) \in Nat, NEW c, NEW f, LetsGoNext(q, c, f)
    PROVE  /\ Cardinality(Strays(q, c)) + One(HandStrays(q, c, f)) >= 1
           /\ (\E i \in 1..Len(q) : Lets(q[i], c) /\ First(q, c, i)) \/ HandStrays(q, c, f)
<1>1. IsFiniteSet(Strays(q, c)) /\ Cardinality(Strays(q, c)) \in Nat
  BY PlacesFinite
<1>2. CASE \E i \in 1..Len(q) : Lets(q[i], c) /\ First(q, c, i)
  <2>1. PICK i \in 1..Len(q) : Lets(q[i], c) /\ First(q, c, i)
    BY <1>2
  <2>2. i \in Nat
    OBVIOUS
  <2>3. i \in Strays(q, c)
    BY <2>1, <2>2, FirstIsNotOpened DEF Strays
  <2>4. Strays(q, c) # {}
    BY <2>3
  <2>5. Cardinality(Strays(q, c)) # 0
    BY <1>1, <2>4, FS_EmptySet
  <2> QED
    BY <1>1, <1>2, <2>5 DEF One
<1>3. CASE f = "down" /\ First(q, c, Len(q) + 1)
  <2>1. HandStrays(q, c, f)
    BY <1>3, FirstIsNotOpened DEF HandStrays
  <2> QED
    BY <1>1, <2>1 DEF One
<1> QED
  BY <1>2, <1>3 DEF LetsGoNext

\* In an empty channel nothing waits.
LEMMA NothingWaits ==
    ASSUME NEW c, NEW f
    PROVE  /\ Cardinality(Waiting(<<>>, c)) = 0 /\ Cardinality(Strays(<<>>, c)) = 0
           /\ HandStrays(<<>>, c, f) <=> f = "down"
<1>1. Len(<<>>) = 0 /\ 1..0 = {}
  OBVIOUS
<1>2. Waiting(<<>>, c) = {} /\ Strays(<<>>, c) = {}
  BY <1>1 DEF Waiting, Strays
<1>3. ~Opened(<<>>, c, Len(<<>>) + 1)
  BY <1>1 DEF Opened
<1> QED
  BY <1>2, <1>3, FS_EmptySet DEF HandStrays

\* Only what control an event is of, and what happened to it, is counted.
LEMMA SamePlaces ==
    ASSUME NEW q, NEW t, Len(t) = Len(q),
           \A i \in 1..Len(q) : t[i].control = q[i].control /\ t[i].phase = q[i].phase,
           NEW c, NEW f
    PROVE  /\ Waiting(t, c) = Waiting(q, c) /\ Strays(t, c) = Strays(q, c)
           /\ HandStrays(t, c, f) <=> HandStrays(q, c, f)
           /\ LetsGoNext(t, c, f) <=> LetsGoNext(q, c, f)
<1>1. \A i \in 1..Len(q) : /\ Strikes(t[i], c) <=> Strikes(q[i], c)
                           /\ Presses(t[i], c) <=> Presses(q[i], c)
                           /\ Lets(t[i], c) <=> Lets(q[i], c)
  BY DEF Strikes, Presses, Lets
<1>2. \A i : (First(t, c, i) <=> First(q, c, i)) /\ (Opened(t, c, i) <=> Opened(q, c, i))
  BY <1>1 DEF First, Opened
<1> QED
  BY <1>1, <1>2 DEF Waiting, Strays, HandStrays, LetsGoNext

-----------------------------------------------------------------------------
(* What is reported. *)

\* What the numbers of the model are.
LEMMA Numbers ==
    /\ Hold \in Nat /\ Window \in Nat /\ Hold > Window /\ Window > 0
    /\ DimAfter \in Nat /\ SleepAfter \in Nat /\ SleepAfter > DimAfter
    /\ InputCapacity \in Nat /\ MostTouches \in Nat /\ MostLate \in Nat /\ MostTurns \in Nat
    /\ NoControl \notin Controls
BY ControlsAssumption, TimingAssumption, BoundsAssumption

\* Counting some gestures adds one to each of them.
LEMMA CountedAdds ==
    ASSUME NEW s \in Said, NEW K
    PROVE  /\ Counted(s, K) \in Said
           /\ Counted(s, K).press = IF "press" \in K THEN s.press + 1 ELSE s.press
           /\ Counted(s, K).release = IF "release" \in K THEN s.release + 1 ELSE s.release
           /\ Counted(s, K).tap = IF "tap" \in K THEN s.tap + 1 ELSE s.tap
           /\ Counted(s, K).hold = IF "hold" \in K THEN s.hold + 1 ELSE s.hold
           /\ Counted(s, K).double = IF "double" \in K THEN s.double + 1 ELSE s.double
BY DEF Said, Counted, One

\* Reporting of one control leaves the others as they are.
LEMMA ReportsOf ==
    ASSUME said \in [Controls -> Said], NEW c \in Controls, NEW K, Reports(c, K)
    PROVE  /\ said' \in [Controls -> Said]
           /\ said'[c] = Counted(said[c], K)
           /\ \A d \in Controls : d # c => said'[d] = said[d]
BY CountedAdds DEF Reports

\* The state of a control, field by field.
LEMMA StateFields ==
    ASSUME Typed, NEW c \in Controls
    PROVE  /\ state[c] \in States /\ said[c] \in Said
           /\ state[c].at \in {"idle", "held", "tapped"} /\ state[c].left \in (0 - MostLate)..Hold
           /\ state[c].armed \in BOOLEAN /\ state[c].reported \in BOOLEAN
           /\ state[c].second \in BOOLEAN
           /\ ~Waits(state[c]) => state[c].left = 0
           /\ said[c].press \in Nat /\ said[c].release \in Nat /\ said[c].tap \in Nat
           /\ said[c].hold \in Nat /\ said[c].double \in Nat
           /\ lost[c] \in Nat /\ displaced[c] \in Nat
<1>1. state[c] \in States /\ said[c] \in Said
  BY DEF Typed
<1> QED
  BY <1>1 DEF Typed, States, Said

\* A state by its fields.
LEMMA HeldMade ==
    ASSUME NEW left \in (0 - MostLate)..Hold,
           NEW armed \in BOOLEAN, NEW reported \in BOOLEAN, NEW second \in BOOLEAN
    PROVE  /\ Held(left, armed, reported, second) \in States
           /\ Held(left, armed, reported, second).at = "held"
           /\ Held(left, armed, reported, second).left = left
           /\ Held(left, armed, reported, second).armed = armed
           /\ Held(left, armed, reported, second).reported = reported
           /\ Held(left, armed, reported, second).second = second
<1>1. Held(left, armed, reported, second) \in States
  BY DEF Held, States
<1> QED
  BY <1>1, Zenon DEF Held

\* A tap that waits for a second owes one press, and waits for its moment.
LEMMA TappedMade ==
    ASSUME NEW left \in (0 - MostLate)..Hold
    PROVE  /\ Tapped(left) \in States /\ Tapped(left).at = "tapped"
           /\ Waits(Tapped(left)) /\ Owed(Tapped(left)) = 1
<1>1. Tapped(left) \in States /\ Tapped(left).at = "tapped"
  BY DEF Tapped, States
<1> QED
  BY <1>1 DEF Waits, Owed

\* Idle is a state, that waits for nothing and owes nothing.
LEMMA IdleIsIdle ==
    Idle \in States /\ Idle.at = "idle" /\ Idle.left = 0 /\ ~Waits(Idle) /\ Owed(Idle) = 0
<1>1. 0 \in (0 - MostLate)..Hold
  BY Numbers
<1>2. Idle \in States /\ Idle.at = "idle" /\ Idle.left = 0
  BY <1>1 DEF Idle, States
<1> QED
  BY <1>2 DEF Waits, Owed

\* What the recogniser may do to a control in one step: what it is in and what
\* was said of it keep every press to one meaning.
Means(s, t, x, y) ==
    /\ t \in States /\ (~Waits(t) => t.left = 0) /\ y \in Said
    /\ x.tap + x.hold + 2 * x.double + Owed(s) <= x.press
         => y.tap + y.hold + 2 * y.double + Owed(t) <= y.press

\* A press.
LEMMA DownMeans ==
    ASSUME Typed, NEW e \in Event, OnDown(e)
    PROVE  /\ DOMAIN state' = Controls /\ state' = [c \in Controls |-> state'[c]]
           /\ said' \in [Controls -> Said]
           /\ \A c \in Controls : Means(state[c], state'[c], said[c], said'[c])
           /\ \A c \in Controls : /\ said'[c].press = said[c].press + One(c = e.control)
                                  /\ said'[c].release = said[c].release
<1> DEFINE c == e.control
           left == IF c \in interest.hold THEN Hold - e.age ELSE 0
           s == Held(left, c \in interest.hold, FALSE, PendingTap(e))
<1>1. c \in Controls /\ e.age \in 0..MostLate
  BY DEF Event
<1>2. state' = [state EXCEPT ![c] = s] /\ Reports(c, {"press"})
  BY Zenon DEF OnDown
<1>3. left \in (0 - MostLate)..Hold
  BY <1>1, Numbers
<1>4. (c \in interest.hold) \in BOOLEAN /\ PendingTap(e) \in BOOLEAN
  BY DEF PendingTap
<1>5. /\ s \in States /\ s.at = "held" /\ s.reported = FALSE /\ s.second = PendingTap(e)
      /\ s.armed = (c \in interest.hold)
      /\ s.left = left /\ (c \notin interest.hold => left = 0)
  <2>1. c \notin interest.hold => left = 0
    OBVIOUS
  <2> HIDE DEF left
  <2> QED
    BY <1>3, <1>4, <2>1 DEF Held, States
<1> HIDE DEF s, left
<1>6. state \in [Controls -> States] /\ said \in [Controls -> Said]
  BY DEF Typed
<1>7. /\ state' \in [Controls -> States] /\ state'[c] = s
      /\ \A d \in Controls : d # c => state'[d] = state[d]
  BY <1>1, <1>2, <1>5, <1>6
<1>8. /\ said' \in [Controls -> Said] /\ said'[c] = Counted(said[c], {"press"})
      /\ \A d \in Controls : d # c => said'[d] = said[d]
  BY <1>1, <1>2, <1>6, ReportsOf
<1>9. /\ said'[c].press = said[c].press + 1 /\ said'[c].release = said[c].release
      /\ said'[c].tap = said[c].tap /\ said'[c].hold = said[c].hold
      /\ said'[c].double = said[c].double
  <2>1. said[c] \in Said
    BY <1>1, <1>6
  <2> QED
    BY <1>1, <1>8, <2>1, CountedAdds, StateFields DEF One
<1>10. Owed(s) <= Owed(state[c]) + 1 /\ Owed(state[c]) \in Nat /\ Owed(s) \in Nat
  BY <1>5 DEF Owed, PendingTap
<1>11. Means(state[c], s, said[c], said'[c])
  <2>1. ~Waits(s) => s.left = 0
    BY <1>5 DEF Waits
  <2>2. said'[c] \in Said
    BY <1>1, <1>8
  <2> QED
    BY <1>1, <1>5, <1>9, <1>10, <2>1, <2>2, StateFields DEF Means
<1>12. ASSUME NEW d \in Controls, d # c PROVE Means(state[d], state'[d], said[d], said'[d])
  BY <1>7, <1>8, <1>12, StateFields DEF Means
<1>13. \A d \in Controls : /\ said'[d].press = said[d].press + One(d = e.control)
                           /\ said'[d].release = said[d].release
  BY <1>1, <1>8, <1>9, StateFields DEF One
<1> QED
  BY <1>1, <1>7, <1>8, <1>11, <1>12, <1>13

\* A release.
LEMMA UpMeans ==
    ASSUME Typed, NEW e \in Event, OnUp(e)
    PROVE  /\ DOMAIN state' = Controls /\ state' = [c \in Controls |-> state'[c]]
           /\ said' \in [Controls -> Said]
           /\ \A c \in Controls : Means(state[c], state'[c], said[c], said'[c])
           /\ \A c \in Controls : /\ said'[c].press = said[c].press
                                  /\ said'[c].release = said[c].release + One(c = e.control)
<1> DEFINE c == e.control
           held == state[c].at = "held"
           second == /\ held /\ ~state[c].reported /\ ~state[c].second
                     /\ c \in interest.double
           s == Tapped(Window - e.age)
           K == {"release"} \cup
                  CASE ~held \/ state[c].reported \/ second -> {}
                    [] held /\ ~state[c].reported /\ state[c].second -> {"double"}
                    [] OTHER -> {"tap"}
<1>1. c \in Controls /\ e.age \in 0..MostLate
  BY DEF Event
<1>2. state' = [state EXCEPT ![c] = IF second THEN s ELSE Idle] /\ Reports(c, K)
  BY Zenon DEF OnUp
<1>3. Window - e.age \in (0 - MostLate)..Hold
  BY <1>1, Numbers
<1>4. s \in States /\ Waits(s) /\ Owed(s) = 1
  BY <1>3, TappedMade
<1> HIDE DEF s
<1>5. state \in [Controls -> States] /\ said \in [Controls -> Said]
  BY DEF Typed
<1>6. /\ "press" \notin K /\ "release" \in K /\ "hold" \notin K
      /\ "tap" \in K => held /\ ~state[c].reported /\ ~state[c].second /\ ~second
      /\ "double" \in K => held /\ ~state[c].reported /\ state[c].second /\ "tap" \notin K
      /\ second => "tap" \notin K /\ "double" \notin K
  OBVIOUS
<1> HIDE DEF K
<1>7. /\ state' \in [Controls -> States] /\ state'[c] = IF second THEN s ELSE Idle
      /\ \A d \in Controls : d # c => state'[d] = state[d]
  <2>1. (IF second THEN s ELSE Idle) \in States
    BY <1>4, IdleIsIdle
  <2> HIDE DEF second
  <2> QED
    BY <1>1, <1>2, <1>5, <2>1
<1>8. /\ said' \in [Controls -> Said] /\ said'[c] = Counted(said[c], K)
      /\ \A d \in Controls : d # c => said'[d] = said[d]
  BY <1>1, <1>2, <1>5, ReportsOf
<1>9. said[c] \in Said
  BY <1>1, <1>5
<1>10. /\ said'[c].press = IF "press" \in K THEN said[c].press + 1 ELSE said[c].press
       /\ said'[c].release = IF "release" \in K THEN said[c].release + 1 ELSE said[c].release
       /\ said'[c].tap = IF "tap" \in K THEN said[c].tap + 1 ELSE said[c].tap
       /\ said'[c].hold = IF "hold" \in K THEN said[c].hold + 1 ELSE said[c].hold
       /\ said'[c].double = IF "double" \in K THEN said[c].double + 1 ELSE said[c].double
  BY <1>8, <1>9, CountedAdds
<1>11. /\ said'[c].press = said[c].press /\ said'[c].release = said[c].release + 1
       /\ said'[c].hold = said[c].hold
  BY <1>1, <1>6, <1>10, StateFields DEF One
<1>12. Owed(state[c]) \in Nat /\ Owed(state'[c]) \in Nat
  BY DEF Owed
<1>13. said'[c].tap + 2 * said'[c].double + Owed(state'[c])
         <= said[c].tap + 2 * said[c].double + Owed(state[c])
  <2>1. CASE second
    <3>1. Owed(state'[c]) = 1 /\ Owed(state[c]) >= 1
      BY <1>4, <1>7, <2>1 DEF Owed
    <3>2. said'[c].tap = said[c].tap /\ said'[c].double = said[c].double
      BY <1>6, <1>10, <2>1
    <3> QED
      BY <1>1, <1>12, <3>1, <3>2, StateFields
  <2>2. CASE ~second
    <3>1. Owed(state'[c]) = 0
      BY <1>7, <2>2, IdleIsIdle
    <3>2. "tap" \in K => Owed(state[c]) = 1
      BY <1>6 DEF Owed
    <3>3. "double" \in K => Owed(state[c]) = 2 /\ "tap" \notin K
      BY <1>6 DEF Owed
    <3> QED
      BY <1>1, <1>10, <1>12, <3>1, <3>2, <3>3, StateFields
  <2> QED
    BY <2>1, <2>2
<1>14. Means(state[c], state'[c], said[c], said'[c])
  <2>1. state'[c] \in States /\ said'[c] \in Said
    BY <1>1, <1>7, <1>8
  <2>2. ~Waits(state'[c]) => state'[c].left = 0
    BY <1>4, <1>7, IdleIsIdle
  <2> QED
    <3>1. /\ said'[c].press \in Nat /\ said'[c].tap \in Nat /\ said'[c].hold \in Nat
          /\ said'[c].double \in Nat
      BY <2>1 DEF Said
    <3> QED
      BY <1>1, <1>11, <1>12, <1>13, <2>1, <2>2, <3>1, StateFields DEF Means
<1>15. ASSUME NEW d \in Controls, d # c PROVE Means(state[d], state'[d], said[d], said'[d])
  BY <1>7, <1>8, <1>15, StateFields DEF Means
<1>16. \A d \in Controls : /\ said'[d].press = said[d].press
                           /\ said'[d].release = said[d].release + One(d = e.control)
  BY <1>1, <1>8, <1>11, StateFields DEF One
<1> QED
  BY <1>1, <1>7, <1>8, <1>14, <1>15, <1>16

\* A moment that comes.
LEMMA PollMeans ==
    ASSUME Typed, Poll
    PROVE  /\ DOMAIN state' = Controls /\ state' = [c \in Controls |-> state'[c]]
           /\ said' \in [Controls -> Said]
           /\ \A c \in Controls : Means(state[c], state'[c], said[c], said'[c])
           /\ \A c \in Controls : /\ said'[c].press = said[c].press
                                  /\ said'[c].release = said[c].release
<1> DEFINE due == {c \in Controls : Due(state[c])}
           K(c) == CASE c \in due /\ state[c].at = "held" -> {"hold"}
                     [] c \in due /\ state[c].at = "tapped" -> {"tap"}
                     [] OTHER -> {}
           s(c) == Held(0, state[c].armed, TRUE, state[c].second)
<1>1. /\ state' = [c \in Controls |->
             CASE c \in due /\ state[c].at = "held" -> s(c)
               [] c \in due /\ state[c].at = "tapped" -> Idle
               [] OTHER -> state[c]]
      /\ said' = [c \in Controls |-> Counted(said[c], K(c))]
  BY Zenon DEF Poll, Settles
<1>2. DOMAIN state' = Controls /\ state' = [c \in Controls |-> state'[c]]
  BY <1>1
<1>3. ASSUME NEW c \in Controls
      PROVE  /\ said'[c] \in Said /\ Means(state[c], state'[c], said[c], said'[c])
             /\ said'[c].press = said[c].press /\ said'[c].release = said[c].release
  <2>1. said'[c] = Counted(said[c], K(c)) /\ said[c] \in Said
    BY <1>1, StateFields
  <2>2. /\ said'[c] \in Said
        /\ said'[c].press = IF "press" \in K(c) THEN said[c].press + 1 ELSE said[c].press
        /\ said'[c].release = IF "release" \in K(c) THEN said[c].release + 1 ELSE said[c].release
        /\ said'[c].tap = IF "tap" \in K(c) THEN said[c].tap + 1 ELSE said[c].tap
        /\ said'[c].hold = IF "hold" \in K(c) THEN said[c].hold + 1 ELSE said[c].hold
        /\ said'[c].double = IF "double" \in K(c) THEN said[c].double + 1 ELSE said[c].double
    BY <2>1, CountedAdds
  <2>3. "press" \notin K(c) /\ "release" \notin K(c) /\ "double" \notin K(c)
    OBVIOUS
  <2>4. CASE c \in due /\ state[c].at = "held"
    <3>1. state'[c] = s(c) /\ K(c) = {"hold"}
      BY <1>1, <2>4
    <3>2. s(c) \in States /\ s(c).at = "held" /\ s(c).left = 0 /\ s(c).reported = TRUE
      <4>1. 0 \in (0 - MostLate)..Hold /\ TRUE \in BOOLEAN
        BY Numbers
      <4>2. state[c].armed \in BOOLEAN /\ state[c].second \in BOOLEAN
        BY StateFields
      <4> QED
        BY <4>1, <4>2 DEF Held, States
    <3>3. ~Waits(state'[c]) /\ Owed(state'[c]) = 0
      BY <3>1, <3>2 DEF Waits, Owed
    <3>4. ~state[c].reported
      BY <2>4 DEF Due, Waits
    <3>5. Owed(state[c]) \in Nat /\ Owed(state[c]) >= 1
      BY <2>4, <3>4 DEF Owed
    <3>6. said'[c].hold = said[c].hold + 1 /\ said'[c].tap = said[c].tap
      BY <2>2, <3>1, StateFields DEF One
    <3>7. said'[c].press = said[c].press /\ said'[c].double = said[c].double
      BY <2>2, <2>3, StateFields DEF One
    <3> QED
      <4>1. state'[c] \in States /\ state'[c].left = 0
        BY <3>1, <3>2
      <4>2. said'[c].release = said[c].release
        BY <2>2, <2>3
      <4> HIDE DEF s, K
      <4> QED
        BY <2>2, <3>3, <3>5, <3>6, <3>7, <4>1, <4>2, StateFields DEF Means
  <2>5. CASE c \in due /\ state[c].at = "tapped"
    <3>1. state'[c] = Idle /\ K(c) = {"tap"}
      BY <1>1, <2>5
    <3>2. Owed(state[c]) = 1
      BY <2>5 DEF Owed
    <3>3. said'[c].tap = said[c].tap + 1 /\ said'[c].hold = said[c].hold
      BY <2>2, <3>1, StateFields DEF One
    <3>4. said'[c].press = said[c].press /\ said'[c].double = said[c].double
      BY <2>2, <2>3, StateFields DEF One
    <3> QED
      BY <2>2, <2>3, <3>1, <3>2, <3>3, <3>4, StateFields, IdleIsIdle DEF Means, One
  <2>6. CASE ~(c \in due /\ state[c].at = "held") /\ ~(c \in due /\ state[c].at = "tapped")
    <3>1. state'[c] = state[c] /\ K(c) = {}
      BY <1>1, <2>6
    <3>2. said'[c].tap = said[c].tap /\ said'[c].hold = said[c].hold
      BY <2>2, <3>1, StateFields DEF One
    <3>3. said'[c].press = said[c].press /\ said'[c].double = said[c].double
      BY <2>2, <2>3, StateFields DEF One
    <3> QED
      BY <2>2, <2>3, <3>1, <3>2, <3>3, StateFields DEF Means, One
  <2> QED
    BY <2>4, <2>5, <2>6
<1>4. said' \in [Controls -> Said]
  BY <1>1, <1>3
<1> QED
  BY <1>2, <1>3, <1>4

\* What is read, of any kind.
LEMMA ObserveMeans ==
    ASSUME Typed, NEW e \in Event, Observe(e)
    PROVE  /\ state' \in [Controls -> States] /\ said' \in [Controls -> Said]
           /\ \A c \in Controls : /\ Means(state[c], state'[c], said[c], said'[c])
                                  /\ Presses(e, c) => said'[c].press = said[c].press + 1
                                  /\ ~Presses(e, c) => said'[c].press = said[c].press
                                  /\ Lets(e, c) => said'[c].release = said[c].release + 1
                                  /\ ~Lets(e, c) => said'[c].release = said[c].release
<1>1. e.control \in Controls /\ e.phase \in {"down", "up", "turn"}
  BY DEF Event
<1>2. CASE e.phase = "down"
  <2>1. OnDown(e)
    BY <1>2 DEF Observe
  <2>2. /\ DOMAIN state' = Controls /\ state' = [c \in Controls |-> state'[c]]
        /\ said' \in [Controls -> Said]
        /\ \A c \in Controls : Means(state[c], state'[c], said[c], said'[c])
        /\ \A c \in Controls : /\ said'[c].press = said[c].press + One(c = e.control)
                               /\ said'[c].release = said[c].release
    BY <2>1, DownMeans
  <2>3. \A c \in Controls : state'[c] \in States
    BY <2>2 DEF Means
  <2>4. state' \in [Controls -> States]
    BY <2>2, <2>3
  <2> QED
    BY <1>1, <1>2, <2>2, <2>4, StateFields DEF Presses, Lets, One
<1>3. CASE e.phase = "up"
  <2>1. OnUp(e)
    BY <1>3 DEF Observe
  <2>2. /\ DOMAIN state' = Controls /\ state' = [c \in Controls |-> state'[c]]
        /\ said' \in [Controls -> Said]
        /\ \A c \in Controls : Means(state[c], state'[c], said[c], said'[c])
        /\ \A c \in Controls : /\ said'[c].press = said[c].press
                               /\ said'[c].release = said[c].release + One(c = e.control)
    BY <2>1, UpMeans
  <2>3. \A c \in Controls : state'[c] \in States
    BY <2>2 DEF Means
  <2>4. state' \in [Controls -> States]
    BY <2>2, <2>3
  <2> QED
    BY <1>1, <1>3, <2>2, <2>4, StateFields DEF Presses, Lets, One
<1>4. CASE e.phase = "turn"
  <2>1. UNCHANGED <<state, said>>
    BY <1>4 DEF Observe
  <2> QED
    BY <1>4, <2>1, StateFields DEF Typed, Means, Presses, Lets
<1> QED
  BY <1>1, <1>2, <1>3, <1>4

\* Nothing said and nothing done mean what they meant.
LEMMA QuietMeans ==
    ASSUME Typed, UNCHANGED <<state, said>>
    PROVE  /\ state' \in [Controls -> States] /\ said' \in [Controls -> Said]
           /\ \A c \in Controls : /\ Means(state[c], state'[c], said[c], said'[c])
                                  /\ said'[c].press = said[c].press
                                  /\ said'[c].release = said[c].release
BY StateFields DEF Typed, Means

-----------------------------------------------------------------------------
(* The types. *)

\* The first event that waits.
LEMMA HeadRead ==
    ASSUME Typed, queue # <<>>, queue' = Tail(queue)
    PROVE  /\ Head(queue) \in Event /\ queue[1] = Head(queue)
           /\ queue' \in Seq(Event) /\ Len(queue') <= InputCapacity
           /\ Without(queue, queue')
<1>1. queue \in Seq(Event) /\ Len(queue) <= InputCapacity /\ Len(queue) \in Nat
  BY LenProperties DEF Typed
<1>2. /\ Head(queue) \in Event /\ queue' \in Seq(Event) /\ Len(queue') = Len(queue) - 1
      /\ Head(queue) = queue[1] /\ Len(queue) # 0
      /\ \A i \in 1..Len(queue') : queue'[i] = queue[i + 1]
  BY <1>1, HeadTailProperties, EmptySeq
<1>3. Len(queue') \in Nat /\ Len(queue) = Len(queue') + 1 /\ Len(queue') <= InputCapacity
  BY <1>1, <1>2, Numbers
<1> QED
  BY <1>2, <1>3 DEF Without

\* An event that joins those that wait.
LEMMA EventHeard ==
    ASSUME Typed, NEW c \in Controls, NEW phase \in {"down", "up", "turn"},
           NEW e, e = [control |-> c, phase |-> phase, age |-> 0],
           Len(queue) < InputCapacity, queue' = Append(queue, e)
    PROVE  /\ queue' \in Seq(Event) /\ Len(queue') <= InputCapacity
           /\ With(queue, queue', e) /\ e.control = c /\ e.phase = phase
<1>1. queue \in Seq(Event) /\ Len(queue) \in Nat
  BY LenProperties DEF Typed
<1>2. 0 \in 0..MostLate
  BY Numbers
<1>3. e \in Event
  BY <1>2 DEF Event
<1>4. e.control = c /\ e.phase = phase
  BY Zenon
<1> HIDE DEF Event
<1>5. /\ queue' \in Seq(Event) /\ Len(queue') = Len(queue) + 1
      /\ \A i \in 1..Len(queue) : queue'[i] = queue[i]
      /\ queue'[Len(queue) + 1] = e
  BY <1>1, <1>3, AppendProperties
<1>6. Len(queue') <= InputCapacity
  BY <1>1, <1>5, Numbers
<1> QED
  BY <1>1, <1>4, <1>5, <1>6 DEF With

\* Time goes on and stays within what is told apart.
LEMMA PassedRange == \A quiet \in Nat : Passed(quiet) \in 0..SleepAfter
BY Numbers DEF Passed

\* What rest may be after a moment.
LEMMA SettledRange ==
    ASSUME rest \in {"awake", "dimmed", "asleep", "off"}, NEW quiet \in Nat
    PROVE  /\ Settled(rest, quiet) \in {"awake", "dimmed", "asleep", "off"}
           /\ StateAfter(quiet) \in {"awake", "dimmed", "asleep"}
           /\ rest = "off" => Settled(rest, quiet) = "off"
<1>1. StateAfter(quiet) \in {"awake", "dimmed", "asleep"}
  BY Zenon DEF StateAfter
<1> QED
  BY <1>1 DEF Settled

\* What waking may be after an event, and which press is displaced.
LEMMA WakingAfter ==
    ASSUME Typed, NEW e \in Event
    PROVE  /\ Waking(e) \in Controls \cup {NoControl}
           /\ waking = e.control /\ e.phase = "up" => Waking(e) = NoControl
           /\ waking = e.control /\ e.phase # "up" => Waking(e) = waking
           /\ waking # e.control /\ Swallows(rest) /\ e.phase = "down" => Waking(e) = e.control
           /\ waking # e.control /\ ~(Swallows(rest) /\ e.phase = "down") => Waking(e) = waking
<1>1. e.control \in Controls
  BY DEF Event
<1>2. waking = e.control /\ e.phase = "up" => Waking(e) = NoControl
  BY Zenon DEF Waking
<1>3. waking = e.control /\ e.phase # "up" => Waking(e) = waking
  BY Zenon DEF Waking
<1>4. waking # e.control /\ Swallows(rest) /\ e.phase = "down" => Waking(e) = e.control
  BY Zenon DEF Waking
<1>5. waking # e.control /\ ~(Swallows(rest) /\ e.phase = "down") => Waking(e) = waking
  BY Zenon DEF Waking
<1> QED
  BY <1>1, <1>2, <1>3, <1>4, <1>5 DEF Typed

\* What is displaced is counted.
LEMMA DisplacedAdds ==
    ASSUME Typed, NEW next, NEW by, Displaced(next, by)
    PROVE  /\ displaced' \in [Controls -> Nat]
           /\ \A c \in Controls : displaced'[c] = IF waking = c /\ next # c /\ by # c
                                                  THEN displaced[c] + 1 ELSE displaced[c]
<1>1. displaced \in [Controls -> Nat]
  BY DEF Typed
<1>2. \A c \in Controls : displaced'[c] = displaced[c] + (IF Displaces(c, next, by) THEN 1 ELSE 0)
  BY DEF Displaced
<1>3. DOMAIN displaced' = Controls /\ displaced' = [c \in Controls |-> displaced'[c]]
  BY DEF Displaced
<1>4. \A c \in Controls : displaced'[c] = IF waking = c /\ next # c /\ by # c
                                          THEN displaced[c] + 1 ELSE displaced[c]
  BY <1>1, <1>2 DEF Displaces
<1>5. \A c \in Controls : displaced'[c] \in Nat
  BY <1>1, <1>4
<1> QED
  BY <1>3, <1>4, <1>5

\* How often a bounded thing has happened.
LEMMA TakesOne ==
    ASSUME Typed, NEW kind \in {"touch", "other"}, NEW most \in Nat, Takes(kind, most)
    PROVE  /\ turns' \in [{"touch", "other"} -> Nat]
           /\ turns'[kind] = turns[kind] + 1 /\ turns'[kind] <= most
           /\ \A k \in {"touch", "other"} : k # kind => turns'[k] = turns[k]
BY DEF Typed, Takes

\* The state in a tick.
LEMMA TickMeans ==
    ASSUME Typed, Tick
    PROVE  /\ state' \in [Controls -> States]
           /\ \A c \in Controls : Means(state[c], state'[c], said[c], said[c])
<1> DEFINE s(c) == [state[c] EXCEPT !.left = @ - 1]
<1>1. state' = [c \in Controls |-> IF Waits(state[c]) THEN s(c) ELSE state[c]]
      /\ \A c \in Controls : Waits(state[c]) => state[c].left > 0 - MostLate
  BY DEF Tick
<1>2. ASSUME NEW c \in Controls
      PROVE  state'[c] \in States /\ Means(state[c], state'[c], said[c], said[c])
  <2>1. CASE Waits(state[c])
    <3>1. state[c].left - 1 \in (0 - MostLate)..Hold
      BY <1>1, <2>1, StateFields, Numbers
    <3>2. /\ s(c) \in States /\ s(c).at = state[c].at /\ s(c).armed = state[c].armed
          /\ s(c).reported = state[c].reported /\ s(c).second = state[c].second
      <4>1. state[c] \in States
        BY StateFields
      <4> QED
        BY <3>1, <4>1 DEF States
    <3>3. state'[c] = s(c)
      BY <1>1, <2>1
    <3>4. Waits(s(c)) /\ Owed(s(c)) = Owed(state[c])
      BY <2>1, <3>2 DEF Waits, Owed
    <3> QED
      BY <3>2, <3>3, <3>4, StateFields DEF Means
  <2>2. CASE ~Waits(state[c])
    <3>1. state'[c] = state[c]
      BY <1>1, <2>2
    <3> QED
      BY <3>1, StateFields DEF Means
  <2> QED
    BY <2>1, <2>2
<1> QED
  BY <1>1, <1>2

\* The channel in a tick.
LEMMA TickAges ==
    ASSUME Typed, Tick
    PROVE  /\ queue' \in Seq(Event) /\ Len(queue') = Len(queue)
           /\ \A i \in 1..Len(queue) : /\ queue'[i].control = queue[i].control
                                       /\ queue'[i].phase = queue[i].phase
<1>1. queue \in Seq(Event) /\ Len(queue) \in Nat /\ DOMAIN queue = 1..Len(queue)
  BY LenProperties DEF Typed
<1>2. /\ queue' = [i \in 1..Len(queue) |-> [queue[i] EXCEPT !.age = @ + 1]]
      /\ \A i \in 1..Len(queue) : queue[i].age < MostLate
  BY <1>1 DEF Tick
<1>3. ASSUME NEW i \in 1..Len(queue)
      PROVE  /\ queue'[i] \in Event /\ queue'[i].control = queue[i].control
             /\ queue'[i].phase = queue[i].phase
  <2>1. queue[i] \in Event /\ queue[i].age < MostLate
    BY <1>1, <1>2, ElementOfSeq
  <2>2. queue'[i] = [queue[i] EXCEPT !.age = @ + 1]
    BY <1>2
  <2>3. queue[i].age + 1 \in 0..MostLate
    BY <2>1, Numbers DEF Event
  <2> QED
    BY <2>1, <2>2, <2>3 DEF Event
<1>4. queue' \in [1..Len(queue) -> Event]
  BY <1>2, <1>3
<1>5. queue' \in Seq(Event)
  BY <1>1, <1>4, IsASeq
<1>6. Len(queue') = Len(queue)
  BY <1>1, <1>2, <1>5, LenProperties
<1> QED
  BY <1>3, <1>5, <1>6

\* A surface nobody has touched.
LEMMA TypedInit == Init => Typed
<1> SUFFICES ASSUME Init PROVE Typed
  OBVIOUS
<1>1. /\ finger \in [Controls -> {"up", "down"}]
      /\ state \in [Controls -> States] /\ \A c \in Controls : state[c] = Idle
      /\ lost \in [Controls -> Nat] /\ displaced \in [Controls -> Nat]
  BY IdleIsIdle DEF Init
<1>2. said \in [Controls -> Said]
  <2>1. Nothing \in Said
    BY DEF Nothing, Said
  <2> QED
    BY <2>1 DEF Init
<1>3. queue \in Seq(Event) /\ Len(queue) <= InputCapacity
  <2>1. queue = <<>>
    BY DEF Init
  <2>2. <<>> \in Seq(Event) /\ Len(<<>>) = 0
    OBVIOUS
  <2> QED
    BY <2>1, <2>2, Numbers
<1>4. /\ interest \in Interests /\ rest \in {"awake", "dimmed", "asleep", "off"}
      /\ idle \in 0..SleepAfter /\ waking \in Controls \cup {NoControl}
      /\ power \in [is : {"running", "sleeping"}, changed : BOOLEAN, told : BOOLEAN]
      /\ turns \in [{"touch", "other"} -> Nat]
      /\ turns["touch"] <= MostTouches /\ turns["other"] <= MostTurns
  BY Numbers DEF Init
<1>5. \A c \in Controls : ~Waits(state[c]) => state[c].left = 0
  BY <1>1, IdleIsIdle
<1> QED
  BY <1>1, <1>2, <1>3, <1>4, <1>5 DEF Typed

\* What the callback of the input does to the channel.
LEMMA HearsTyped ==
    ASSUME Typed, NEW c \in Controls, NEW phase \in {"down", "up", "turn"}, Hears(c, phase)
    PROVE  /\ queue' \in Seq(Event) /\ Len(queue') <= InputCapacity
           /\ lost' \in [Controls -> Nat]
<1> DEFINE e == [control |-> c, phase |-> phase, age |-> 0]
<1>1. CASE Len(queue) < InputCapacity /\ queue' = Append(queue, e) /\ UNCHANGED lost
  <2> HIDE DEF e
  <2>1. e = [control |-> c, phase |-> phase, age |-> 0]
    BY DEF e
  <2> QED
    BY <1>1, <2>1, EventHeard DEF Typed
<1>2. CASE /\ lost' = IF phase = "down" THEN [lost EXCEPT ![c] = @ + 1] ELSE lost
           /\ UNCHANGED queue
  BY <1>2 DEF Typed
<1> QED
  BY <1>1, <1>2 DEF Hears

\* A hand on the surface keeps the types.
LEMMA TypedHand ==
    ASSUME Typed, NEW c \in Controls, Press(c) \/ LetGo(c) \/ Turn(c)
    PROVE  Typed'
<1>1. CASE Press(c)
  <2>1. Hears(c, "down") /\ Takes("touch", MostTouches) /\ finger' = [finger EXCEPT ![c] = "down"]
        /\ UNCHANGED <<gestures, clock, power, displaced>>
    BY <1>1 DEF Press
  <2>2. /\ queue' \in Seq(Event) /\ Len(queue') <= InputCapacity /\ lost' \in [Controls -> Nat]
    BY <2>1, HearsTyped
  <2>3. /\ turns' \in [{"touch", "other"} -> Nat] /\ turns'["touch"] <= MostTouches
        /\ turns'["other"] = turns["other"]
    BY <2>1, TakesOne, Numbers
  <2> QED
    BY <2>1, <2>2, <2>3 DEF Typed, gestures, clock
<1>2. CASE LetGo(c)
  <2>1. Hears(c, "up") /\ finger' = [finger EXCEPT ![c] = "up"]
        /\ UNCHANGED <<gestures, clock, power, displaced, turns>>
    BY <1>2 DEF LetGo
  <2>2. /\ queue' \in Seq(Event) /\ Len(queue') <= InputCapacity /\ lost' \in [Controls -> Nat]
    BY <2>1, HearsTyped
  <2> QED
    BY <2>1, <2>2 DEF Typed, gestures, clock
<1>3. CASE Turn(c)
  <2>1. Hears(c, "turn") /\ Takes("touch", MostTouches)
        /\ UNCHANGED <<finger, gestures, clock, power, displaced>>
    BY <1>3 DEF Turn
  <2>2. /\ queue' \in Seq(Event) /\ Len(queue') <= InputCapacity /\ lost' \in [Controls -> Nat]
    BY <2>1, HearsTyped
  <2>3. /\ turns' \in [{"touch", "other"} -> Nat] /\ turns'["touch"] <= MostTouches
        /\ turns'["other"] = turns["other"]
    BY <2>1, TakesOne, Numbers
  <2> QED
    BY <2>1, <2>2, <2>3 DEF Typed, gestures, clock
<1> QED
  BY <1>1, <1>2, <1>3

\* What the loop reads, and what it does with it.
LEMMA InputRead ==
    ASSUME Typed, OnInput
    PROVE  /\ Head(queue) \in Event /\ queue[1] = Head(queue)
           /\ Without(queue, queue') /\ queue' \in Seq(Event) /\ Len(queue') <= InputCapacity
           /\ state' \in [Controls -> States] /\ said' \in [Controls -> Said]
           /\ \A c \in Controls : Means(state[c], state'[c], said[c], said'[c])
           /\ Spent(Head(queue)) => UNCHANGED <<state, said>>
           /\ ~Spent(Head(queue)) => Observe(Head(queue))
           /\ Displaced(Waking(Head(queue)), Head(queue).control)
           /\ waking' = Waking(Head(queue))
           /\ UNCHANGED <<finger, interest, power, lost, turns>>
<1>1. queue # <<>> /\ queue' = Tail(queue)
  BY DEF OnInput
<1>2. /\ Head(queue) \in Event /\ queue[1] = Head(queue)
      /\ Without(queue, queue') /\ queue' \in Seq(Event) /\ Len(queue') <= InputCapacity
  BY <1>1, HeadRead
<1> DEFINE e == Head(queue)
<1>3. /\ Spent(e) => UNCHANGED <<state, said>>
      /\ ~Spent(e) => Observe(e)
      /\ Displaced(Waking(e), e.control) /\ waking' = Waking(e)
      /\ UNCHANGED <<finger, interest, power, lost, turns>>
  BY Zenon DEF OnInput, Touched
<1> HIDE DEF e
<1>4. /\ state' \in [Controls -> States] /\ said' \in [Controls -> Said]
      /\ \A c \in Controls : Means(state[c], state'[c], said[c], said'[c])
  <2>1. CASE Spent(e)
    BY <1>3, <2>1, QuietMeans
  <2>2. CASE ~Spent(e)
    <3>1. e \in Event
      BY <1>2 DEF e
    <3> QED
      BY <1>3, <2>2, <3>1, ObserveMeans
  <2> QED
    BY <2>1, <2>2
<1> QED
  BY <1>2, <1>3, <1>4 DEF e

\* Reading an event keeps the types.
LEMMA TypedInput ==
    ASSUME Typed, OnInput
    PROVE  Typed'
<1> DEFINE e == Head(queue)
<1>1. /\ e \in Event /\ e.age \in Nat /\ queue' \in Seq(Event) /\ Len(queue') <= InputCapacity
      /\ state' \in [Controls -> States] /\ said' \in [Controls -> Said]
      /\ \A c \in Controls : Means(state[c], state'[c], said[c], said'[c])
      /\ Displaced(Waking(e), e.control)
      /\ waking' = Waking(e)
      /\ UNCHANGED <<finger, interest, power, lost, turns>>
  <2>1. e \in Event
    BY InputRead
  <2>2. e.age \in Nat
    BY <2>1, Numbers DEF Event
  <2> QED
    BY <2>1, <2>2, InputRead
<1>2. idle' = Passed(e.age) /\ rest' = IF waking = e.control THEN rest ELSE "awake"
  BY Zenon DEF OnInput, Touched
<1> HIDE DEF e
<1>3. waking' \in Controls \cup {NoControl} /\ displaced' \in [Controls -> Nat]
  BY <1>1, WakingAfter, DisplacedAdds
<1>4. idle' \in 0..SleepAfter /\ rest' \in {"awake", "dimmed", "asleep", "off"}
  BY <1>1, <1>2, PassedRange DEF Typed
<1>5. \A c \in Controls : ~Waits(state'[c]) => state'[c].left = 0
  BY <1>1 DEF Means
<1> QED
  BY <1>1, <1>3, <1>4, <1>5 DEF Typed

\* The other arms of the loop keep the types.
LEMMA TypedLoop ==
    ASSUME Typed, Reconfigure \/ OnDeadline \/ FollowPower \/ Asks
    PROVE  Typed'
<1>1. idle \in Nat /\ DimAfter \in 0..SleepAfter /\ 0 \in 0..SleepAfter
  BY Numbers DEF Typed
<1>2. CASE Reconfigure
  <2>1. /\ interest' \in Interests /\ rest' = Settled(rest, idle) /\ Takes("other", MostTurns)
        /\ UNCHANGED <<finger, queue, state, said, idle, waking, power, missed>>
    BY <1>2 DEF Reconfigure
  <2>2. /\ turns' \in [{"touch", "other"} -> Nat] /\ turns'["other"] <= MostTurns
        /\ turns'["touch"] = turns["touch"]
    BY <2>1, TakesOne, Numbers
  <2>3. rest' \in {"awake", "dimmed", "asleep", "off"}
    BY <1>1, <2>1, SettledRange DEF Typed
  <2> QED
    BY <2>1, <2>2, <2>3 DEF Typed, missed
<1>3. CASE OnDeadline
  <2>1. /\ Poll /\ rest' = Settled(rest, idle)
        /\ UNCHANGED <<finger, queue, interest, idle, waking, power, missed, turns>>
    BY <1>3 DEF OnDeadline
  <2>2. /\ DOMAIN state' = Controls /\ state' = [c \in Controls |-> state'[c]]
        /\ said' \in [Controls -> Said]
        /\ \A c \in Controls : Means(state[c], state'[c], said[c], said'[c])
    BY <2>1, PollMeans
  <2>3. \A c \in Controls : state'[c] \in States /\ (~Waits(state'[c]) => state'[c].left = 0)
    BY <2>2 DEF Means
  <2>4. state' \in [Controls -> States]
    BY <2>2, <2>3
  <2>5. rest' \in {"awake", "dimmed", "asleep", "off"}
    BY <1>1, <2>1, SettledRange DEF Typed
  <2> QED
    BY <2>1, <2>2, <2>3, <2>4, <2>5 DEF Typed, missed
<1>4. CASE FollowPower
  <2>1. /\ power' = [power EXCEPT !.changed = FALSE]
        /\ UNCHANGED <<finger, queue, gestures, lost, turns>>
    BY <1>4, Zenon DEF FollowPower
  <2>2. power' \in [is : {"running", "sleeping"}, changed : BOOLEAN, told : BOOLEAN]
    BY <2>1 DEF Typed
  <2>3. CASE power.is = "sleeping"
    <3>1. rest' = "off" /\ waking' = NoControl /\ UNCHANGED idle /\ Displaced(NoControl, NoControl)
      BY <1>4, <2>3, Zenon DEF FollowPower
    <3>2. displaced' \in [Controls -> Nat]
      BY <3>1, DisplacedAdds
    <3> QED
      BY <2>1, <2>2, <3>1, <3>2 DEF Typed, gestures
  <2>4. CASE power.is # "sleeping" /\ power.is = "running" /\ rest = "off"
    <3>1. idle' = DimAfter /\ rest' = StateAfter(DimAfter) /\ UNCHANGED <<waking, displaced>>
      BY <1>4, <2>4, Zenon DEF FollowPower
    <3>2. rest' \in {"awake", "dimmed", "asleep", "off"}
      BY <1>1, <3>1, SettledRange, Numbers DEF Typed
    <3> QED
      BY <1>1, <2>1, <2>2, <3>1, <3>2 DEF Typed, gestures
  <2>5. CASE power.is # "sleeping" /\ ~(power.is = "running" /\ rest = "off")
    <3>1. UNCHANGED <<clock, displaced>>
      BY <1>4, <2>5, Zenon DEF FollowPower
    <3> QED
      BY <2>1, <2>2, <3>1 DEF Typed, gestures, clock
  <2> QED
    BY <2>3, <2>4, <2>5
<1>5. CASE Asks
  <2>1. /\ rest' \in {"awake", rest} /\ idle' \in {0, idle} /\ Takes("other", MostTurns)
        /\ UNCHANGED <<finger, queue, gestures, waking, power, missed>>
    BY <1>5 DEF Asks
  <2>2. /\ turns' \in [{"touch", "other"} -> Nat] /\ turns'["other"] <= MostTurns
        /\ turns'["touch"] = turns["touch"]
    BY <2>1, TakesOne, Numbers
  <2> QED
    BY <1>1, <2>1, <2>2 DEF Typed, gestures, missed
<1> QED
  BY <1>2, <1>3, <1>4, <1>5

\* So do the surface, the computer and time.
LEMMA TypedWorld ==
    ASSUME Typed, Unplugged \/ MachineTurns \/ Tick
    PROVE  Typed'
<1>1. CASE Unplugged
  <2>1. /\ queue' = <<>> /\ state' = [c \in Controls |-> Idle]
        /\ rest' = "awake" /\ idle' = 0 /\ waking' = NoControl
        /\ power' = [power EXCEPT !.changed = power.told]
        /\ lost' = [c \in Controls |-> lost[c] + (IF finger[c] = "down" THEN 1 ELSE 0)]
        /\ Takes("other", MostTurns)
        /\ UNCHANGED <<finger, interest, said, displaced>>
    BY <1>1 DEF Unplugged
  <2>2. /\ turns' \in [{"touch", "other"} -> Nat] /\ turns'["other"] <= MostTurns
        /\ turns'["touch"] = turns["touch"]
    BY <2>1, TakesOne, Numbers
  <2>3. queue' \in Seq(Event) /\ Len(queue') <= InputCapacity
    <3>1. <<>> \in Seq(Event) /\ Len(<<>>) = 0
      OBVIOUS
    <3> QED
      BY <2>1, <3>1, Numbers
  <2>4. lost' \in [Controls -> Nat]
    BY <2>1 DEF Typed
  <2>5. /\ state' \in [Controls -> States]
        /\ \A c \in Controls : ~Waits(state'[c]) => state'[c].left = 0
    BY <2>1, IdleIsIdle
  <2>6. power' \in [is : {"running", "sleeping"}, changed : BOOLEAN, told : BOOLEAN]
    BY <2>1 DEF Typed
  <2>7. 0 \in 0..SleepAfter
    BY Numbers
  <2> QED
    BY <2>1, <2>2, <2>3, <2>4, <2>5, <2>6, <2>7 DEF Typed
<1>2. CASE MachineTurns
  <2>1. /\ power' \in [is : {"running", "sleeping"}, changed : BOOLEAN, told : BOOLEAN]
        /\ Takes("other", MostTurns)
        /\ UNCHANGED <<finger, queue, gestures, clock, missed>>
    BY <1>2 DEF MachineTurns
  <2>2. /\ turns' \in [{"touch", "other"} -> Nat] /\ turns'["other"] <= MostTurns
        /\ turns'["touch"] = turns["touch"]
    BY <2>1, TakesOne, Numbers
  <2> QED
    BY <2>1, <2>2 DEF Typed, gestures, clock, missed
<1>3. CASE Tick
  <2>1. idle' = Passed(idle + 1)
        /\ UNCHANGED <<finger, interest, rest, waking, power, said, missed, turns>>
    BY <1>3 DEF Tick
  <2>2. idle' \in 0..SleepAfter
    <3>1. idle + 1 \in Nat
      BY Numbers DEF Typed
    <3> QED
      BY <2>1, <3>1, PassedRange
  <2>3. queue' \in Seq(Event) /\ Len(queue') <= InputCapacity
    BY <1>3, TickAges DEF Typed
  <2>4. /\ state' \in [Controls -> States]
        /\ \A c \in Controls : ~Waits(state'[c]) => state'[c].left = 0
    BY <1>3, TickMeans DEF Means
  <2> QED
    BY <2>1, <2>2, <2>3, <2>4 DEF Typed, missed
<1> QED
  BY <1>1, <1>2, <1>3

\* Every step keeps the types.
LEMMA TypedNext == Typed /\ [Next]_vars => Typed'
<1> SUFFICES ASSUME Typed, [Next]_vars PROVE Typed'
  OBVIOUS
<1>1. CASE UNCHANGED vars
  BY <1>1 DEF Typed, vars, gestures, clock, missed
<1> QED
  BY <1>1, TypedHand, TypedInput, TypedLoop, TypedWorld DEF Next

-----------------------------------------------------------------------------
(* The counts. *)

\* What a control may still mean goes on meaning it.
LEMMA MeantGoesOn ==
    ASSUME NEW c \in Controls, Meant(c), Means(state[c], state'[c], said[c], said'[c])
    PROVE  Meant(c)'
BY DEF Meant, Means

\* What waits is counted in whole numbers.
LEMMA WaitingNumbers ==
    ASSUME NEW q \in Seq(Event), NEW c, NEW f
    PROVE  /\ Len(q) \in Nat
           /\ Cardinality(Strays(q, c)) \in Nat /\ Cardinality(Waiting(q, c)) \in Nat
           /\ One(HandStrays(q, c, f)) \in {0, 1}
<1>1. Len(q) \in Nat
  BY LenProperties
<1> QED
  BY <1>1, PlacesFinite DEF One

\* What turns are counted in.
LEMMA TurnNumbers == Typed => turns["touch"] \in Nat /\ turns["other"] \in Nat
BY DEF Typed

\* Nothing has been pressed.
LEMMA CountsInit == Init => Counts
<1> SUFFICES ASSUME Init, NEW c \in Controls PROVE Meant(c) /\ Explained(c) /\ Tallied(c)
  BY DEF Counts
<1>1. state[c] = Idle /\ said[c] = Nothing /\ finger[c] = "up" /\ queue = <<>>
      /\ lost[c] = 0 /\ displaced[c] = 0 /\ waking = NoControl
      /\ turns["touch"] = 0 /\ turns["other"] = 0
  BY DEF Init
<1>2. /\ said[c].press = 0 /\ said[c].release = 0 /\ said[c].tap = 0 /\ said[c].hold = 0
      /\ said[c].double = 0
  BY <1>1 DEF Nothing
<1>3. Meant(c)
  BY <1>1, <1>2, IdleIsIdle DEF Meant
<1>4. /\ Cardinality(Waiting(queue, c)) = 0 /\ Cardinality(Strays(queue, c)) = 0
      /\ ~HandStrays(queue, c, finger[c])
  BY <1>1, NothingWaits
<1>5. waking # c
  BY <1>1, Numbers
<1>6. Explained(c)
  BY <1>1, <1>2, <1>4, <1>5 DEF Explained, One
<1>7. Tallied(c)
  BY <1>1, <1>2, <1>4, <1>5 DEF Tallied, One
<1> QED
  BY <1>3, <1>6, <1>7

\* A step that changes none of what is counted of a control.
LEMMA CountsQuiet ==
    ASSUME Typed, Typed', NEW c \in Controls, Meant(c), Explained(c), Tallied(c),
           Means(state[c], state'[c], said[c], said'[c]),
           said'[c].press = said[c].press, said'[c].release = said[c].release,
           Cardinality(Waiting(queue', c)) = Cardinality(Waiting(queue, c)),
           Cardinality(Strays(queue', c)) = Cardinality(Strays(queue, c)),
           HandStrays(queue', c, finger'[c]) <=> HandStrays(queue, c, finger[c]),
           LetsGoNext(queue', c, finger'[c]) <=> LetsGoNext(queue, c, finger[c]),
           lost'[c] = lost[c],
           \/ waking' = waking /\ displaced'[c] = displaced[c]
           \/ waking # c /\ waking' # c /\ displaced'[c] = displaced[c]
           \/ waking = c /\ waking' # c /\ displaced'[c] = displaced[c] + 1,
           turns'["touch"] >= turns["touch"], turns'["other"] >= turns["other"]
    PROVE  Meant(c)' /\ Explained(c)' /\ Tallied(c)'
<1>1. Meant(c)'
  BY MeantGoesOn
<1>2. queue \in Seq(Event) /\ Cardinality(Strays(queue, c)) \in Nat
      /\ Cardinality(Waiting(queue, c)) \in Nat
      /\ One(HandStrays(queue, c, finger[c])) \in {0, 1}
  BY WaitingNumbers DEF Typed
<1>3. One(HandStrays(queue', c, finger'[c])) = One(HandStrays(queue, c, finger[c]))
  BY DEF One
<1>4. One(waking = c /\ LetsGoNext(queue, c, finger[c])) + displaced[c]
        <= One(waking' = c /\ LetsGoNext(queue', c, finger'[c])) + displaced'[c]
  BY StateFields DEF One
<1>5. One(waking' = c) + displaced'[c] = One(waking = c) + displaced[c]
  BY StateFields DEF One
<1>6. /\ One(waking = c /\ LetsGoNext(queue, c, finger[c])) \in {0, 1}
      /\ One(waking' = c /\ LetsGoNext(queue', c, finger'[c])) \in {0, 1}
      /\ One(waking' = c) \in {0, 1} /\ One(waking = c) \in {0, 1}
  BY DEF One
<1>7. displaced'[c] \in Nat /\ turns'["touch"] \in Nat /\ turns'["other"] \in Nat
  BY DEF Typed
<1> DEFINE h  == One(HandStrays(queue, c, finger[c]))
           h1 == One(HandStrays(queue', c, finger'[c]))
           w  == One(waking = c /\ LetsGoNext(queue, c, finger[c]))
           w1 == One(waking' = c /\ LetsGoNext(queue', c, finger'[c]))
           k  == One(waking = c)
           k1 == One(waking' = c)
<1>8. Explained(c)'
  <2>1. said[c].release + Cardinality(Strays(queue, c)) + h
          <= said[c].press + lost[c] + displaced[c] + w
    BY DEF Explained
  <2>2. said[c].release + Cardinality(Strays(queue, c)) + h1
          <= said[c].press + lost[c] + displaced'[c] + w1
    <3>1. h1 = h /\ h \in {0, 1} /\ w + displaced[c] <= w1 + displaced'[c]
          /\ w \in {0, 1} /\ w1 \in {0, 1} /\ displaced'[c] \in Nat
          /\ Cardinality(Strays(queue, c)) \in Nat
      BY <1>2, <1>3, <1>4, <1>6, <1>7
    <3> HIDE DEF h, h1, w, w1
    <3> QED
      BY <2>1, <3>1, StateFields
  <2> QED
    BY <2>2 DEF Explained
<1>9. Tallied(c)'
  <2>1. said[c].press + lost[c] + displaced[c] + k + Cardinality(Waiting(queue, c))
          <= turns["touch"] + turns["other"]
    BY DEF Tallied
  <2>2. said[c].press + lost[c] + displaced'[c] + k1 + Cardinality(Waiting(queue, c))
          <= turns'["touch"] + turns'["other"]
    <3>1. k1 + displaced'[c] = k + displaced[c]
          /\ k \in {0, 1} /\ k1 \in {0, 1} /\ displaced'[c] \in Nat
          /\ Cardinality(Waiting(queue, c)) \in Nat
      BY <1>2, <1>5, <1>6, <1>7
    <3> HIDE DEF k, k1
    <3> QED
      BY <1>7, <2>1, <3>1, StateFields, TurnNumbers
  <2> QED
    BY <2>2 DEF Tallied
<1> QED
  BY <1>1, <1>8, <1>9

\* A press of the control itself is read.
LEMMA CountsReadPress ==
    ASSUME Typed, Typed', NEW c \in Controls, Meant(c), Explained(c), Tallied(c), OnInput,
           Presses(Head(queue), c)
    PROVE  Meant(c)' /\ Explained(c)' /\ Tallied(c)'
<1> DEFINE e == Head(queue)
<1>1. /\ e \in Event /\ queue[1] = e /\ Without(queue, queue')
      /\ Means(state[c], state'[c], said[c], said'[c])
      /\ Spent(e) => UNCHANGED <<state, said>>
      /\ ~Spent(e) => Observe(e)
      /\ Displaced(Waking(e), e.control) /\ waking' = Waking(e)
      /\ UNCHANGED <<finger, interest, power, lost, turns>>
  BY InputRead
<1>2. e.control = c /\ e.phase = "down" /\ Presses(e, c) /\ ~Lets(e, c)
  BY DEF Presses, Lets
<1> HIDE DEF e
<1>3. Meant(c)'
  BY <1>1, MeantGoesOn
<1>4. /\ Cardinality(Waiting(queue', c)) + 1 = Cardinality(Waiting(queue, c))
      /\ Cardinality(Strays(queue', c)) + One(HandStrays(queue', c, finger[c]))
           = Cardinality(Strays(queue, c)) + One(HandStrays(queue, c, finger[c]))
               + One(LetsGoNext(queue', c, finger[c]))
      /\ ~LetsGoNext(queue, c, finger[c])
  BY <1>1, <1>2, ReadPress
<1>5. /\ Cardinality(Strays(queue, c)) \in Nat /\ Cardinality(Strays(queue', c)) \in Nat
      /\ Cardinality(Waiting(queue, c)) \in Nat /\ Cardinality(Waiting(queue', c)) \in Nat
      /\ One(HandStrays(queue, c, finger[c])) \in {0, 1}
      /\ One(HandStrays(queue', c, finger[c])) \in {0, 1}
  BY WaitingNumbers DEF Typed
<1>6. displaced'[c] = displaced[c]
  BY <1>1, <1>2, DisplacedAdds
<1>7. finger'[c] = finger[c] /\ lost'[c] = lost[c] /\ turns' = turns
  BY <1>1
<1>8. /\ One(waking = c /\ LetsGoNext(queue, c, finger[c])) = 0
      /\ One(LetsGoNext(queue', c, finger[c])) \in {0, 1}
      /\ One(waking' = c) \in {0, 1} /\ One(waking = c) \in {0, 1}
  BY <1>4 DEF One
<1>9. CASE Spent(e)
  <2>1. waking' = c
    BY <1>1, <1>2, <1>9, WakingAfter DEF Spent
  <2>2. said'[c] = said[c]
    BY <1>1, <1>9
  <2>3. One(waking' = c /\ LetsGoNext(queue', c, finger'[c])) = One(LetsGoNext(queue', c, finger[c]))
    BY <1>7, <2>1 DEF One
  <2>4. Explained(c)'
    BY <1>4, <1>5, <1>6, <1>7, <1>8, <2>2, <2>3, StateFields DEF Explained
  <2>5. Tallied(c)'
    BY <1>4, <1>5, <1>6, <1>7, <1>8, <2>2, StateFields, TurnNumbers DEF Tallied
  <2> QED
    BY <1>3, <2>4, <2>5
<1>10. CASE ~Spent(e)
  <2>1. waking' = waking /\ waking # c
    BY <1>1, <1>2, <1>10, WakingAfter DEF Spent
  <2>2. said'[c].press = said[c].press + 1 /\ said'[c].release = said[c].release
    BY <1>1, <1>2, <1>10, ObserveMeans
  <2>3. /\ One(waking' = c /\ LetsGoNext(queue', c, finger'[c])) = 0
        /\ One(waking' = c) = One(waking = c)
    BY <2>1 DEF One
  <2>4. Explained(c)'
    BY <1>4, <1>5, <1>6, <1>7, <1>8, <2>2, <2>3, StateFields DEF Explained
  <2>5. Tallied(c)'
    BY <1>4, <1>5, <1>6, <1>7, <1>8, <2>2, <2>3, StateFields, TurnNumbers DEF Tallied
  <2> QED
    BY <1>3, <2>4, <2>5
<1> QED
  BY <1>9, <1>10

\* A release of the control itself is read.
LEMMA CountsReadRelease ==
    ASSUME Typed, Typed', NEW c \in Controls, Meant(c), Explained(c), Tallied(c), OnInput,
           Lets(Head(queue), c)
    PROVE  Meant(c)' /\ Explained(c)' /\ Tallied(c)'
<1> DEFINE e == Head(queue)
<1>1. /\ e \in Event /\ queue[1] = e /\ Without(queue, queue')
      /\ Means(state[c], state'[c], said[c], said'[c])
      /\ Spent(e) => UNCHANGED <<state, said>>
      /\ ~Spent(e) => Observe(e)
      /\ Displaced(Waking(e), e.control) /\ waking' = Waking(e)
      /\ UNCHANGED <<finger, interest, power, lost, turns>>
  BY InputRead
<1>2. e.control = c /\ e.phase = "up" /\ Lets(e, c) /\ ~Presses(e, c)
  BY DEF Presses, Lets
<1> HIDE DEF e
<1>3. Meant(c)'
  BY <1>1, MeantGoesOn
<1>4. /\ Cardinality(Waiting(queue', c)) = Cardinality(Waiting(queue, c))
      /\ Cardinality(Strays(queue', c)) + 1 = Cardinality(Strays(queue, c))
      /\ HandStrays(queue', c, finger[c]) <=> HandStrays(queue, c, finger[c])
      /\ LetsGoNext(queue, c, finger[c])
  BY <1>1, <1>2, ReadRelease
<1>5. /\ Cardinality(Strays(queue, c)) \in Nat /\ Cardinality(Strays(queue', c)) \in Nat
      /\ Cardinality(Waiting(queue, c)) \in Nat
      /\ One(HandStrays(queue, c, finger[c])) \in {0, 1}
  BY WaitingNumbers DEF Typed
<1>6. displaced'[c] = displaced[c]
  BY <1>1, <1>2, DisplacedAdds
<1>7. finger'[c] = finger[c] /\ lost'[c] = lost[c] /\ turns' = turns
  BY <1>1
<1>8. waking' # c
  <2>1. c # NoControl
    BY Numbers
  <2> QED
    BY <1>1, <1>2, <2>1, WakingAfter DEF Spent
<1>9. /\ One(waking' = c /\ LetsGoNext(queue', c, finger'[c])) = 0
      /\ One(waking' = c) = 0
      /\ One(HandStrays(queue', c, finger'[c])) = One(HandStrays(queue, c, finger[c]))
  BY <1>4, <1>7, <1>8 DEF One
<1>10. CASE waking = c
  <2>1. Spent(e)
    BY <1>2, <1>10 DEF Spent
  <2>2. said'[c] = said[c]
    BY <1>1, <2>1
  <2>3. One(waking = c /\ LetsGoNext(queue, c, finger[c])) = 1 /\ One(waking = c) = 1
    BY <1>4, <1>10 DEF One
  <2>4. Explained(c)'
    BY <1>4, <1>5, <1>6, <1>7, <1>9, <2>2, <2>3, StateFields DEF Explained
  <2>5. Tallied(c)'
    BY <1>4, <1>5, <1>6, <1>7, <1>9, <2>2, <2>3, StateFields, TurnNumbers DEF Tallied
  <2> QED
    BY <1>3, <2>4, <2>5
<1>11. CASE waking # c
  <2>1. ~Spent(e)
    BY <1>2, <1>11 DEF Spent
  <2>2. said'[c].press = said[c].press /\ said'[c].release = said[c].release + 1
    BY <1>1, <1>2, <2>1, ObserveMeans
  <2>3. One(waking = c /\ LetsGoNext(queue, c, finger[c])) = 0 /\ One(waking = c) = 0
    BY <1>11 DEF One
  <2>4. Explained(c)'
    BY <1>4, <1>5, <1>6, <1>7, <1>9, <2>2, <2>3, StateFields DEF Explained
  <2>5. Tallied(c)'
    BY <1>4, <1>5, <1>6, <1>7, <1>9, <2>2, <2>3, StateFields, TurnNumbers DEF Tallied
  <2> QED
    BY <1>3, <2>4, <2>5
<1> QED
  BY <1>10, <1>11

\* Something else is read.
LEMMA CountsReadOther ==
    ASSUME Typed, Typed', NEW c \in Controls, Meant(c), Explained(c), Tallied(c), OnInput,
           ~Strikes(Head(queue), c)
    PROVE  Meant(c)' /\ Explained(c)' /\ Tallied(c)'
<1> DEFINE e == Head(queue)
<1>1. /\ e \in Event /\ queue[1] = e /\ Without(queue, queue')
      /\ Means(state[c], state'[c], said[c], said'[c])
      /\ Spent(e) => UNCHANGED <<state, said>>
      /\ ~Spent(e) => Observe(e)
      /\ Displaced(Waking(e), e.control) /\ waking' = Waking(e)
      /\ UNCHANGED <<finger, interest, power, lost, turns>>
  BY InputRead
<1>2. ~Strikes(e, c) /\ ~Presses(e, c) /\ ~Lets(e, c)
  BY DEF Presses, Lets, Strikes
<1> HIDE DEF e
<1>3. /\ Cardinality(Waiting(queue', c)) = Cardinality(Waiting(queue, c))
      /\ Cardinality(Strays(queue', c)) = Cardinality(Strays(queue, c))
      /\ HandStrays(queue', c, finger[c]) <=> HandStrays(queue, c, finger[c])
      /\ LetsGoNext(queue', c, finger[c]) <=> LetsGoNext(queue, c, finger[c])
  BY <1>1, <1>2, ReadOther
<1>4. finger' = finger /\ lost' = lost /\ turns' = turns
  BY <1>1
<1>5. said'[c].press = said[c].press /\ said'[c].release = said[c].release
  <2>1. CASE Spent(e)
    BY <1>1, <2>1
  <2>2. CASE ~Spent(e)
    BY <1>1, <1>2, <2>2, ObserveMeans
  <2> QED
    BY <2>1, <2>2
<1>6. \/ waking' = waking /\ displaced'[c] = displaced[c]
      \/ waking # c /\ waking' # c /\ displaced'[c] = displaced[c]
      \/ waking = c /\ waking' # c /\ displaced'[c] = displaced[c] + 1
  <2>1. displaced'[c] = IF waking = c /\ Waking(e) # c /\ e.control # c
                        THEN displaced[c] + 1 ELSE displaced[c]
    BY <1>1, DisplacedAdds
  <2>2. e.control = c => e.phase # "up" /\ e.phase # "down"
    BY <1>1, <1>2 DEF Strikes, Event
  <2>3. e.control = c => waking' = waking
    BY <1>1, <2>2, WakingAfter
  <2>4. e.control # c => waking' = waking \/ waking' # c
    <3>1. c # NoControl
      BY Numbers
    <3> QED
      BY <1>1, <3>1, WakingAfter
  <2> QED
    BY <1>1, <2>1, <2>3, <2>4
<1>7. turns'["touch"] >= turns["touch"] /\ turns'["other"] >= turns["other"]
  BY <1>4, TurnNumbers
<1> QED
  BY <1>1, <1>3, <1>4, <1>5, <1>6, <1>7, CountsQuiet

\* A touch that another control takes, or a turn: nothing of this one changes.
LEMMA CountsHeardOther ==
    ASSUME Typed, Typed', NEW c \in Controls, Meant(c), Explained(c), Tallied(c),
           NEW d \in Controls, NEW phase \in {"down", "up", "turn"}, Hears(d, phase),
           d # c \/ phase = "turn", finger'[c] = finger[c],
           UNCHANGED <<gestures, clock, displaced>>,
           turns'["touch"] >= turns["touch"], turns'["other"] >= turns["other"]
    PROVE  Meant(c)' /\ Explained(c)' /\ Tallied(c)'
<1> DEFINE e == [control |-> d, phase |-> phase, age |-> 0]
<1>1. UNCHANGED <<state, said, waking, displaced>>
  BY DEF gestures, clock
<1>2. Means(state[c], state'[c], said[c], said'[c])
  BY <1>1, QuietMeans
<1>3. CASE Len(queue) < InputCapacity /\ queue' = Append(queue, e) /\ UNCHANGED lost
  <2> HIDE DEF e
  <2>1. e = [control |-> d, phase |-> phase, age |-> 0]
    BY DEF e
  <2>2. With(queue, queue', e) /\ ~Strikes(e, c)
    BY <1>3, <2>1, EventHeard DEF Strikes
  <2>3. /\ Cardinality(Waiting(queue', c)) = Cardinality(Waiting(queue, c))
        /\ Cardinality(Strays(queue', c)) = Cardinality(Strays(queue, c))
        /\ HandStrays(queue', c, finger'[c]) <=> HandStrays(queue, c, finger[c])
        /\ LetsGoNext(queue', c, finger'[c]) <=> LetsGoNext(queue, c, finger[c])
    BY <2>2, HeardOther
  <2> QED
    BY <1>1, <1>2, <1>3, <2>3, CountsQuiet
<1>4. CASE /\ lost' = IF phase = "down" THEN [lost EXCEPT ![d] = @ + 1] ELSE lost
           /\ UNCHANGED queue
  <2>1. lost'[c] = lost[c]
    BY <1>4 DEF Typed
  <2>2. queue' = queue
    BY <1>4
  <2> QED
    BY <1>1, <1>2, <2>1, <2>2, CountsQuiet
<1> QED
  BY <1>3, <1>4 DEF Hears

\* The control itself goes down: a press waits, or is lost.
LEMMA CountsPress ==
    ASSUME Typed, Typed', NEW c \in Controls, Meant(c), Explained(c), Tallied(c), Press(c)
    PROVE  Meant(c)' /\ Explained(c)' /\ Tallied(c)'
<1> DEFINE e == [control |-> c, phase |-> "down", age |-> 0]
           h  == One(HandStrays(queue, c, finger[c]))
           h1 == One(HandStrays(queue', c, finger'[c]))
           w  == One(waking = c /\ LetsGoNext(queue, c, finger[c]))
           w1 == One(waking' = c /\ LetsGoNext(queue', c, finger'[c]))
           k  == One(waking = c)
<1>1. UNCHANGED <<state, said, waking, displaced>>
  BY DEF Press, gestures, clock
<1>2. finger[c] = "up" /\ finger'[c] = "down"
  BY DEF Press, Typed
<1>3. turns'["touch"] = turns["touch"] + 1 /\ turns'["other"] = turns["other"]
  BY TakesOne, Numbers DEF Press
<1>4. Meant(c)'
  BY <1>1, QuietMeans, MeantGoesOn
<1>5. /\ Cardinality(Strays(queue, c)) \in Nat /\ Cardinality(Waiting(queue, c)) \in Nat
      /\ h \in {0, 1} /\ h1 \in {0, 1} /\ w \in {0, 1} /\ w1 \in {0, 1} /\ k \in {0, 1}
  BY WaitingNumbers DEF Typed, One
<1>6. h = 0
  BY <1>2 DEF HandStrays, One
<1>7. /\ said[c].release + Cardinality(Strays(queue, c)) + h
           <= said[c].press + lost[c] + displaced[c] + w
      /\ said[c].press + lost[c] + displaced[c] + k + Cardinality(Waiting(queue, c))
           <= turns["touch"] + turns["other"]
  BY DEF Explained, Tallied
<1>8. CASE Len(queue) < InputCapacity /\ queue' = Append(queue, e) /\ UNCHANGED lost
  <2>1. With(queue, queue', e) /\ Presses(e, c)
    <3>1. e = [control |-> c, phase |-> "down", age |-> 0]
      BY DEF e
    <3> HIDE DEF e
    <3> QED
      BY <1>8, <3>1, EventHeard DEF Presses
  <2> HIDE DEF e
  <2>2. /\ Cardinality(Waiting(queue', c)) = Cardinality(Waiting(queue, c)) + 1
        /\ Cardinality(Strays(queue', c)) = Cardinality(Strays(queue, c))
        /\ ~HandStrays(queue', c, "down")
        /\ LetsGoNext(queue, c, "up") => LetsGoNext(queue', c, "down")
    BY <2>1, HeardPress
  <2>3. h1 = 0 /\ w <= w1
    BY <1>1, <1>2, <2>2 DEF One
  <2>4. lost'[c] = lost[c]
    BY <1>8
  <2> HIDE DEF h, h1, w, w1, k
  <2>5. said[c].release + Cardinality(Strays(queue', c)) + h1
          <= said[c].press + lost'[c] + displaced[c] + w1
    BY <1>5, <1>6, <1>7, <2>2, <2>3, <2>4, StateFields
  <2>6. said[c].press + lost'[c] + displaced[c] + k + Cardinality(Waiting(queue', c))
          <= turns'["touch"] + turns'["other"]
    BY <1>3, <1>5, <1>7, <2>2, <2>4, StateFields, TurnNumbers
  <2>7. Explained(c)'
    BY <1>1, <2>5 DEF Explained, h1, w1
  <2>8. Tallied(c)'
    BY <1>1, <2>6 DEF Tallied, k
  <2> QED
    BY <1>4, <2>7, <2>8
<1>9. CASE lost' = [lost EXCEPT ![c] = @ + 1] /\ UNCHANGED queue
  <2>1. lost'[c] = lost[c] + 1 /\ queue' = queue
    BY <1>9 DEF Typed
  <2>2. w <= w1
    BY <1>1, <1>2, <2>1 DEF One, LetsGoNext
  <2> HIDE DEF h, h1, w, w1, k
  <2>3. said[c].release + Cardinality(Strays(queue', c)) + h1
          <= said[c].press + lost'[c] + displaced[c] + w1
    BY <1>5, <1>6, <1>7, <2>1, <2>2, StateFields
  <2>4. said[c].press + lost'[c] + displaced[c] + k + Cardinality(Waiting(queue', c))
          <= turns'["touch"] + turns'["other"]
    BY <1>3, <1>5, <1>7, <2>1, StateFields, TurnNumbers
  <2>5. Explained(c)'
    BY <1>1, <2>3 DEF Explained, h1, w1
  <2>6. Tallied(c)'
    BY <1>1, <2>4 DEF Tallied, k
  <2> QED
    BY <1>4, <2>5, <2>6
<1> QED
  BY <1>8, <1>9 DEF Press, Hears

\* The control itself is let go: a release waits, or is lost.
LEMMA CountsLetGo ==
    ASSUME Typed, Typed', NEW c \in Controls, Meant(c), Explained(c), Tallied(c), LetGo(c)
    PROVE  Meant(c)' /\ Explained(c)' /\ Tallied(c)'
<1> DEFINE e == [control |-> c, phase |-> "up", age |-> 0]
           h  == One(HandStrays(queue, c, finger[c]))
           h1 == One(HandStrays(queue', c, finger'[c]))
           w  == One(waking = c /\ LetsGoNext(queue, c, finger[c]))
           w1 == One(waking' = c /\ LetsGoNext(queue', c, finger'[c]))
           k  == One(waking = c)
<1>1. UNCHANGED <<state, said, waking, displaced, turns>> /\ queue \in Seq(Event)
  BY DEF LetGo, gestures, clock, Typed
<1>2. finger[c] = "down" /\ finger'[c] = "up"
  BY DEF LetGo, Typed
<1>3. Meant(c)'
  BY <1>1, QuietMeans, MeantGoesOn
<1>4. /\ Cardinality(Strays(queue, c)) \in Nat /\ Cardinality(Waiting(queue, c)) \in Nat
      /\ h \in {0, 1} /\ h1 \in {0, 1} /\ w \in {0, 1} /\ w1 \in {0, 1} /\ k \in {0, 1}
  BY <1>1, WaitingNumbers DEF One
<1>5. h1 = 0
  BY <1>2 DEF HandStrays, One
<1>6. said[c].release + Cardinality(Strays(queue, c)) + h
        <= said[c].press + lost[c] + displaced[c] + w
  BY DEF Explained
<1>7. CASE Len(queue) < InputCapacity /\ queue' = Append(queue, e) /\ UNCHANGED lost
  <2>1. With(queue, queue', e) /\ Lets(e, c)
    <3>1. e = [control |-> c, phase |-> "up", age |-> 0]
      BY DEF e
    <3> HIDE DEF e
    <3> QED
      BY <1>7, <3>1, EventHeard DEF Lets
  <2> HIDE DEF e
  <2>2. /\ Cardinality(Waiting(queue', c)) = Cardinality(Waiting(queue, c))
        /\ Cardinality(Strays(queue', c)) = Cardinality(Strays(queue, c)) + h
        /\ LetsGoNext(queue, c, "down") => LetsGoNext(queue', c, "up")
    BY <1>2, <2>1, HeardRelease
  <2>3. w <= w1
    BY <1>1, <1>2, <2>2 DEF One
  <2>4. lost'[c] = lost[c]
    BY <1>7
  <2> HIDE DEF h, h1, w, w1, k
  <2>5. said[c].release + Cardinality(Strays(queue', c)) + h1
          <= said[c].press + lost'[c] + displaced[c] + w1
    BY <1>4, <1>5, <1>6, <2>2, <2>3, <2>4, StateFields
  <2>6. Explained(c)'
    BY <1>1, <2>5 DEF Explained, h1, w1
  <2>7. Tallied(c)'
    BY <1>1, <2>2, <2>4 DEF Tallied
  <2> QED
    BY <1>3, <2>6, <2>7
<1>8. CASE lost' = lost /\ UNCHANGED queue
  <2>1. w <= w1 + h
    <3>1. CASE LetsGoNext(queue, c, finger[c])
      <4>1. Len(queue) \in Nat
        BY <1>1, WaitingNumbers
      <4>2. (\E i \in 1..Len(queue) : Lets(queue[i], c) /\ First(queue, c, i))
              \/ HandStrays(queue, c, finger[c])
        BY <3>1, <4>1, NextIsStray
      <4> QED
        BY <1>1, <1>8, <4>2 DEF One, LetsGoNext
    <3>2. CASE ~LetsGoNext(queue, c, finger[c])
      BY <3>2 DEF One
    <3> QED
      BY <3>1, <3>2
  <2> HIDE DEF h, h1, w, w1, k
  <2>2. said[c].release + Cardinality(Strays(queue, c)) + h1
          <= said[c].press + lost[c] + displaced[c] + w1
    BY <1>4, <1>5, <1>6, <2>1, StateFields
  <2>3. Explained(c)'
    BY <1>1, <1>8, <2>2 DEF Explained, h1, w1
  <2>4. Tallied(c)'
    BY <1>1, <1>8 DEF Tallied
  <2> QED
    BY <1>3, <2>3, <2>4
<1> QED
  BY <1>7, <1>8 DEF LetGo, Hears

\* The surface is pulled out: a finger that is down is a press that was lost.
LEMMA CountsUnplugged ==
    ASSUME Typed, Typed', NEW c \in Controls, Meant(c), Explained(c), Tallied(c), Unplugged
    PROVE  Meant(c)' /\ Explained(c)' /\ Tallied(c)'
<1> DEFINE h  == One(HandStrays(queue, c, finger[c]))
           h1 == One(HandStrays(queue', c, finger'[c]))
           w  == One(waking = c /\ LetsGoNext(queue, c, finger[c]))
           w1 == One(waking' = c /\ LetsGoNext(queue', c, finger'[c]))
           k  == One(waking = c)
           k1 == One(waking' = c)
           S  == Cardinality(Strays(queue, c))
           S1 == Cardinality(Strays(queue', c))
           W1 == Cardinality(Waiting(queue', c))
<1>1. /\ queue' = <<>> /\ state'[c] = Idle /\ waking' = NoControl
      /\ lost'[c] = lost[c] + (IF finger[c] = "down" THEN 1 ELSE 0)
      /\ finger' = finger /\ said' = said /\ displaced' = displaced
  BY DEF Unplugged
<1>2. turns'["other"] = turns["other"] + 1 /\ turns'["touch"] = turns["touch"]
  BY TakesOne, Numbers DEF Unplugged
<1>3. Meant(c)'
  <2>1. Owed(state'[c]) = 0 /\ Owed(state[c]) \in Nat
    BY <1>1, IdleIsIdle DEF Owed
  <2>2. said[c].tap + said[c].hold + 2 * said[c].double + Owed(state[c]) <= said[c].press
    BY DEF Meant
  <2>3. said[c].tap + said[c].hold + 2 * said[c].double + Owed(state'[c]) <= said[c].press
    BY <2>1, <2>2, StateFields
  <2> QED
    BY <1>1, <2>3 DEF Meant
<1>4. S1 = 0 /\ W1 = 0 /\ h1 = IF finger[c] = "down" THEN 1 ELSE 0
  BY <1>1, NothingWaits DEF One
<1>5. w1 = 0 /\ k1 = 0
  BY <1>1, Numbers DEF One
<1>6. S \in Nat /\ h \in {0, 1} /\ w \in {0, 1} /\ k \in {0, 1}
  BY WaitingNumbers DEF Typed, One
<1>7. w <= S + h
  <2>1. CASE LetsGoNext(queue, c, finger[c])
    <3>1. Len(queue) \in Nat
      BY WaitingNumbers DEF Typed
    <3>2. S + h >= 1
      BY <2>1, <3>1, NextIsStray
    <3> HIDE DEF S, h, w
    <3> QED
      BY <1>6, <3>2
  <2>2. CASE ~LetsGoNext(queue, c, finger[c])
    <3>1. w = 0
      BY <2>2 DEF One
    <3> HIDE DEF S, h, w
    <3> QED
      BY <1>6, <3>1
  <2> QED
    BY <2>1, <2>2
<1>8. /\ said[c].release + S + h <= said[c].press + lost[c] + displaced[c] + w
      /\ said[c].press + lost[c] + displaced[c] + k + Cardinality(Waiting(queue, c))
           <= turns["touch"] + turns["other"]
  BY DEF Explained, Tallied
<1>9. Cardinality(Waiting(queue, c)) \in Nat
  BY WaitingNumbers DEF Typed
<1>10. lost'[c] = lost[c] + h1 /\ h1 \in {0, 1}
  BY <1>1, <1>4
<1>11. /\ said[c].press \in Nat /\ said[c].release \in Nat /\ lost[c] \in Nat
      /\ displaced[c] \in Nat
  BY StateFields
<1> HIDE DEF h, h1, w, w1, k, k1, S, S1, W1
<1>12. said[c].release + S1 + h1 <= said[c].press + lost'[c] + displaced[c] + w1
  BY <1>4, <1>5, <1>6, <1>7, <1>8, <1>10, <1>11
<1>13. said[c].press + lost'[c] + displaced[c] + k1 + W1 <= turns'["touch"] + turns'["other"]
  BY <1>2, <1>4, <1>5, <1>6, <1>8, <1>9, <1>10, <1>11, TurnNumbers
<1>14. Explained(c)'
  BY <1>1, <1>12 DEF Explained, S1, h1, w1
<1>15. Tallied(c)'
  BY <1>1, <1>13 DEF Tallied, k1, W1
<1> QED
  BY <1>3, <1>14, <1>15

\* The loop's other arms, the computer and time change none of the counts.
LEMMA CountsElse ==
    ASSUME Typed, Typed', NEW c \in Controls, Meant(c), Explained(c), Tallied(c),
           Reconfigure \/ OnDeadline \/ FollowPower \/ Asks \/ MachineTurns \/ Tick
    PROVE  Meant(c)' /\ Explained(c)' /\ Tallied(c)'
<1>1. /\ Means(state[c], state'[c], said[c], said'[c])
      /\ said'[c].press = said[c].press /\ said'[c].release = said[c].release
      /\ lost' = lost /\ finger' = finger
  <2>1. CASE Reconfigure \/ FollowPower \/ Asks \/ MachineTurns
    <3>1. UNCHANGED <<state, said, lost, finger>>
      BY <2>1, Zenon DEF Reconfigure, FollowPower, Asks, MachineTurns, gestures, missed
    <3> QED
      BY <3>1, QuietMeans
  <2>2. CASE OnDeadline
    <3>1. Poll /\ lost' = lost /\ finger' = finger
      BY <2>2 DEF OnDeadline, missed
    <3> QED
      BY <3>1, PollMeans
  <2>3. CASE Tick
    <3>1. UNCHANGED <<said, lost, finger>>
      BY <2>3 DEF Tick, missed
    <3> QED
      BY <2>3, <3>1, TickMeans
  <2> QED
    BY <2>1, <2>2, <2>3
<1>2. /\ Cardinality(Waiting(queue', c)) = Cardinality(Waiting(queue, c))
      /\ Cardinality(Strays(queue', c)) = Cardinality(Strays(queue, c))
      /\ HandStrays(queue', c, finger'[c]) <=> HandStrays(queue, c, finger[c])
      /\ LetsGoNext(queue', c, finger'[c]) <=> LetsGoNext(queue, c, finger[c])
  <2>1. CASE Reconfigure \/ OnDeadline \/ FollowPower \/ Asks \/ MachineTurns
    <3>1. queue' = queue
      BY <2>1, Zenon DEF Reconfigure, OnDeadline, FollowPower, Asks, MachineTurns
    <3> QED
      BY <1>1, <3>1
  <2>2. CASE Tick
    <3>1. /\ Waiting(queue', c) = Waiting(queue, c) /\ Strays(queue', c) = Strays(queue, c)
          /\ HandStrays(queue', c, finger[c]) <=> HandStrays(queue, c, finger[c])
          /\ LetsGoNext(queue', c, finger[c]) <=> LetsGoNext(queue, c, finger[c])
      BY <2>2, TickAges, SamePlaces
    <3> QED
      BY <1>1, <3>1
  <2> QED
    BY <2>1, <2>2
<1>3. \/ waking' = waking /\ displaced'[c] = displaced[c]
      \/ waking # c /\ waking' # c /\ displaced'[c] = displaced[c]
      \/ waking = c /\ waking' # c /\ displaced'[c] = displaced[c] + 1
  <2>1. CASE Reconfigure \/ OnDeadline \/ Asks \/ MachineTurns \/ Tick
    BY <2>1, Zenon DEF Reconfigure, OnDeadline, Asks, MachineTurns, Tick, missed, clock
  <2>2. CASE FollowPower /\ power.is = "sleeping"
    <3>1. waking' = NoControl /\ Displaced(NoControl, NoControl)
      BY <2>2, Zenon DEF FollowPower
    <3>2. NoControl # c
      BY Numbers
    <3> QED
      BY <3>1, <3>2, DisplacedAdds
  <2>3. CASE FollowPower /\ power.is # "sleeping"
    BY <2>3, Zenon DEF FollowPower, clock
  <2> QED
    BY <2>1, <2>2, <2>3
<1>4. turns'["touch"] >= turns["touch"] /\ turns'["other"] >= turns["other"]
  <2>1. CASE UNCHANGED turns
    BY <2>1, TurnNumbers
  <2>2. CASE Takes("other", MostTurns)
    BY <2>2, TakesOne, TurnNumbers, Numbers
  <2> QED
    BY <2>1, <2>2, Zenon DEF Reconfigure, OnDeadline, FollowPower, Asks, MachineTurns, Tick
<1> QED
  BY <1>1, <1>2, <1>3, <1>4, CountsQuiet

\* Every step keeps the counts.
LEMMA CountsNext == Typed /\ Typed' /\ Counts /\ [Next]_vars => Counts'
<1> SUFFICES ASSUME Typed, Typed', Counts, [Next]_vars, NEW c \in Controls
             PROVE  Meant(c)' /\ Explained(c)' /\ Tallied(c)'
  BY DEF Counts
<1>1. Meant(c) /\ Explained(c) /\ Tallied(c)
  BY DEF Counts
<1>2. CASE UNCHANGED vars
  BY <1>1, <1>2 DEF Meant, Explained, Tallied, vars, gestures, clock, missed
<1>3. ASSUME NEW d \in Controls, Press(d) \/ LetGo(d) \/ Turn(d)
      PROVE  Meant(c)' /\ Explained(c)' /\ Tallied(c)'
  <2>1. CASE d = c /\ ~Turn(d)
    BY <1>1, <1>3, <2>1, CountsPress, CountsLetGo
  <2>2. CASE d # c \/ Turn(d)
    <3>1. /\ UNCHANGED <<gestures, clock, displaced>>
          /\ finger'[c] = finger[c]
          /\ turns'["touch"] >= turns["touch"] /\ turns'["other"] >= turns["other"]
      <4>1. CASE Press(d) \/ LetGo(d)
        <5>1. UNCHANGED <<gestures, clock, displaced>>
              /\ (Takes("touch", MostTouches) \/ UNCHANGED turns)
          BY <4>1, Zenon DEF Press, LetGo
        <5>2. turns'["touch"] >= turns["touch"] /\ turns'["other"] >= turns["other"]
          BY <5>1, TakesOne, TurnNumbers, Numbers
        <5>3. CASE Turn(d)
          BY <5>1, <5>2, <5>3 DEF Turn
        <5>4. CASE d # c
          <6>1. finger'[c] = finger[c]
            BY <4>1, <5>4 DEF Press, LetGo, Typed
          <6> QED
            BY <5>1, <5>2, <6>1
        <5> QED
          BY <2>2, <5>3, <5>4
      <4>2. CASE Turn(d)
        <5>1. UNCHANGED <<finger, gestures, clock, displaced>> /\ Takes("touch", MostTouches)
          BY <4>2 DEF Turn
        <5> QED
          BY <5>1, TakesOne, TurnNumbers, Numbers
      <4> QED
        BY <1>3, <4>1, <4>2
    <3>2. CASE Press(d) /\ d # c
      <4>1. Hears(d, "down")
        BY <3>2 DEF Press
      <4> QED
        BY <1>1, <3>1, <3>2, <4>1, CountsHeardOther
    <3>3. CASE LetGo(d) /\ d # c
      <4>1. Hears(d, "up")
        BY <3>3 DEF LetGo
      <4> QED
        BY <1>1, <3>1, <3>3, <4>1, CountsHeardOther
    <3>4. CASE Turn(d)
      <4>1. Hears(d, "turn")
        BY <3>4 DEF Turn
      <4> QED
        BY <1>1, <3>1, <4>1, CountsHeardOther
    <3> QED
      BY <1>3, <2>2, <3>2, <3>3, <3>4
  <2> QED
    BY <2>1, <2>2
<1>4. CASE OnInput
  <2>1. Head(queue) \in Event
    BY <1>4, InputRead
  <2>2. \/ Presses(Head(queue), c) \/ Lets(Head(queue), c) \/ ~Strikes(Head(queue), c)
    BY <2>1 DEF Event, Presses, Lets, Strikes
  <2> QED
    BY <1>1, <1>4, <2>2, CountsReadPress, CountsReadRelease, CountsReadOther
<1>5. CASE Reconfigure \/ OnDeadline \/ FollowPower \/ Asks \/ MachineTurns \/ Tick
  BY <1>1, <1>5, CountsElse
<1>6. CASE Unplugged
  BY <1>1, <1>6, CountsUnplugged
<1> QED
  BY <1>2, <1>3, <1>4, <1>5, <1>6 DEF Next

-----------------------------------------------------------------------------
(* What holds in every reachable state. *)

\* One press means one thing: never a tap and a hold, never two taps, whatever
\* is reloaded or lost while the finger is down (GestureRecognizer::on_up and
\* poll report what the state owes, and leave a state that owes it no more).
THEOREM PressMeansOneThing == Spec => []OneMeaning
<1>1. Init => Typed /\ Counts
  BY TypedInit, CountsInit
<1>2. Typed /\ Counts /\ [Next]_vars => Typed' /\ Counts'
  BY TypedNext, CountsNext
<1>3. Typed /\ Counts => OneMeaning
  <2> SUFFICES ASSUME Typed, Counts, NEW c \in Controls
               PROVE  said[c].tap + said[c].hold + 2 * said[c].double <= said[c].press
    BY DEF OneMeaning
  <2>1. said[c].tap + said[c].hold + 2 * said[c].double + Owed(state[c]) <= said[c].press
    BY DEF Counts, Meant
  <2>2. Owed(state[c]) \in Nat
    BY DEF Owed
  <2> HIDE DEF Owed
  <2> QED
    BY <2>1, <2>2, StateFields
<1> QED
  BY <1>1, <1>2, <1>3, PTL DEF Spec

\* What the explanations of a release come to.
LEMMA ReleasesExplained ==
    ASSUME Typed, Counts, NEW c \in Controls
    PROVE  /\ said[c].release <= said[c].press + lost[c] + displaced[c]
           /\ said[c].press + lost[c] + displaced[c] <= MostTouches + MostTurns
<1> DEFINE h == One(HandStrays(queue, c, finger[c]))
           w == One(waking = c /\ LetsGoNext(queue, c, finger[c]))
           k == One(waking = c)
           S == Cardinality(Strays(queue, c))
           W == Cardinality(Waiting(queue, c))
<1>1. S \in Nat /\ W \in Nat /\ h \in {0, 1} /\ w \in {0, 1} /\ k \in {0, 1}
  BY WaitingNumbers DEF Typed, One
<1>2. /\ said[c].release + S + h <= said[c].press + lost[c] + displaced[c] + w
      /\ said[c].press + lost[c] + displaced[c] + k + W <= turns["touch"] + turns["other"]
  BY DEF Counts, Explained, Tallied
<1>3. w <= S + h
  <2>1. CASE LetsGoNext(queue, c, finger[c])
    <3>1. Len(queue) \in Nat
      BY WaitingNumbers DEF Typed
    <3>2. S + h >= 1
      BY <2>1, <3>1, NextIsStray
    <3> HIDE DEF S, h, w
    <3> QED
      BY <1>1, <3>2
  <2>2. CASE ~LetsGoNext(queue, c, finger[c])
    <3>1. w = 0
      BY <2>2 DEF One
    <3> HIDE DEF S, h, w
    <3> QED
      BY <1>1, <3>1
  <2> QED
    BY <2>1, <2>2
<1>4. turns["touch"] <= MostTouches /\ turns["other"] <= MostTurns
  BY DEF Typed
<1>5. /\ said[c].press \in Nat /\ said[c].release \in Nat /\ lost[c] \in Nat
      /\ displaced[c] \in Nat
  BY StateFields
<1> HIDE DEF h, w, k, S, W
<1>6. said[c].release <= said[c].press + lost[c] + displaced[c]
  BY <1>1, <1>2, <1>3, <1>5
<1>7. said[c].press + lost[c] + displaced[c] <= turns["touch"] + turns["other"]
  BY <1>1, <1>2, <1>5, TurnNumbers
<1> QED
  BY <1>4, <1>5, <1>6, <1>7, TurnNumbers, Numbers

\* No half gesture goes unexplained: a release is reported for a press that was
\* reported, or one that was dropped on its way, cut off or displaced, and for
\* each of those at most once (RestClock::on_input and RestClock::on_machine).
THEOREM HalvesAreAlwaysExplained == Spec => []HalvesAreExplained
<1>1. Init => Typed /\ Counts
  BY TypedInit, CountsInit
<1>2. Typed /\ Counts /\ [Next]_vars => Typed' /\ Counts'
  BY TypedNext, CountsNext
<1>3. Typed /\ Counts => HalvesAreExplained
  BY ReleasesExplained DEF HalvesAreExplained
<1> QED
  BY <1>1, <1>2, <1>3, PTL DEF Spec

\* Every variable is of its kind, and nothing is reported more often than the
\* surface is touched or unplugged.
THEOREM GestureTypes == Spec => []TypeOK
<1>1. Init => Typed /\ Counts
  BY TypedInit, CountsInit
<1>2. Typed /\ Counts /\ [Next]_vars => Typed' /\ Counts'
  BY TypedNext, CountsNext
<1>3. Typed /\ Counts => TypeOK
  <2> SUFFICES ASSUME Typed, Counts PROVE TypeOK
    OBVIOUS
  <2>1. ASSUME NEW c \in Controls, NEW k \in DOMAIN said[c]
        PROVE  said[c][k] \in 0..MostTouches + MostTurns
    <3>1. k \in {"press", "release", "tap", "hold", "double"}
      BY <2>1, StateFields DEF Said
    <3>2. said[c].tap + said[c].hold + 2 * said[c].double + Owed(state[c]) <= said[c].press
      BY DEF Counts, Meant
    <3>3. Owed(state[c]) \in Nat
      BY DEF Owed
    <3>4. /\ said[c].press \in 0..MostTouches + MostTurns
          /\ said[c].release \in 0..MostTouches + MostTurns
      BY ReleasesExplained, StateFields, Numbers
    <3>5. /\ said[c].tap \in 0..MostTouches + MostTurns
          /\ said[c].hold \in 0..MostTouches + MostTurns
          /\ said[c].double \in 0..MostTouches + MostTurns
      BY <3>2, <3>3, <3>4, StateFields, Numbers
    <3> QED
      BY <3>1, <3>4, <3>5
  <2>2. queue \in Seq([control : Controls, phase : {"down", "up", "turn"}, age : 0..MostLate])
    BY DEF Typed, Event
  <2> QED
    BY <2>1, <2>2 DEF Typed, TypeOK
<1> QED
  BY <1>1, <1>2, <1>3, PTL DEF Spec

-----------------------------------------------------------------------------
(* Asleep is dark. *)

\* Nobody is at the surface while the computer sleeps.
NobodyThere == "touched while off" \notin Allowed

\* The computer runs, and nobody has said otherwise.
LEMMA DarkInit == Init => Dark
BY DEF Init, Dark

\* What the loop reads while the computer sleeps came before it was told.
LEMMA DarkNext ==
    ASSUME NobodyThere, Typed, Dark, [Next]_vars
    PROVE  Dark'
<1>1. power.is \in {"running", "sleeping"} /\ power.changed \in BOOLEAN /\ power.told \in BOOLEAN
  BY DEF Typed
<1>2. CASE UNCHANGED vars
  BY <1>2 DEF Dark, vars, clock
<1>3. ASSUME NEW c \in Controls, Press(c) \/ LetGo(c) \/ Turn(c) PROVE Dark'
  <2>1. power.is = "running" /\ power' = power
    BY <1>3 DEF Press, LetGo, Turn, Reachable, NobodyThere
  <2> QED
    BY <2>1 DEF Dark
<1>4. CASE Reconfigure \/ OnDeadline
  <2>1. queue' = queue /\ power' = power /\ rest' = Settled(rest, idle)
    BY <1>4 DEF Reconfigure, OnDeadline
  <2>2. rest = "off" => rest' = "off"
    BY <2>1 DEF Settled
  <2> QED
    BY <2>1, <2>2 DEF Dark
<1>5. CASE OnInput
  <2>1. queue # <<>> /\ power' = power
    BY <1>5 DEF OnInput
  <2> QED
    BY <2>1 DEF Dark
<1>6. CASE FollowPower
  <2>1. queue = <<>> /\ queue' = queue /\ power' = [power EXCEPT !.changed = FALSE]
    BY <1>6, Zenon DEF FollowPower
  <2>2. power'.is = power.is /\ power'.told = power.told
    BY <2>1 DEF Typed
  <2>3. power.is = "sleeping" => rest' = "off"
    BY <1>6, Zenon DEF FollowPower
  <2> QED
    BY <2>1, <2>2, <2>3 DEF Dark
<1>7. CASE Asks
  <2>1. queue' = queue /\ power' = power
    BY <1>7 DEF Asks
  <2>2. rest = "off" => rest' = "off"
    BY <1>7 DEF Asks
  <2> QED
    BY <2>1, <2>2 DEF Dark
<1>8. CASE Unplugged
  <2>1. power' = [power EXCEPT !.changed = power.told]
    BY <1>8 DEF Unplugged
  <2>2. power'.is = power.is /\ power'.told = power.told /\ power'.changed = power.told
    BY <2>1 DEF Typed
  <2> QED
    BY <2>2 DEF Dark
<1>9. CASE MachineTurns
  <2>1. power'.told = TRUE /\ power'.changed = TRUE
    BY <1>9 DEF MachineTurns
  <2> QED
    BY <2>1 DEF Dark
<1>10. CASE Tick
  <2>1. power' = power /\ rest' = rest
    BY <1>10 DEF Tick
  <2>2. queue = <<>> => queue' = <<>>
    <3>1. queue' \in Seq(Event) /\ Len(queue') = Len(queue)
      BY <1>10, TickAges
    <3>2. Len(<<>>) = 0
      OBVIOUS
    <3> QED
      BY <3>1, <3>2, EmptySeq
  <2> QED
    BY <2>1, <2>2 DEF Dark
<1> QED
  BY <1>2, <1>3, <1>4, <1>5, <1>6, <1>7, <1>8, <1>9, <1>10 DEF Next

\* While nobody touches a surface whose computer sleeps, it stays off from the
\* moment the loop has been told to the moment it is told otherwise, through
\* reloads, questions and unpluggings (RestClock::on_machine and settle).
THEOREM SleepingStaysDark ==
    ASSUME "touched while off" \notin Allowed
    PROVE  Spec => []SleepingIsDark
<1>1. NobodyThere
  BY DEF NobodyThere
<1>2. Init => Typed /\ Dark
  BY TypedInit, DarkInit
<1>3. Typed /\ Dark /\ [Next]_vars => Typed' /\ Dark'
  BY <1>1, TypedNext, DarkNext
<1>4. Dark => SleepingIsDark
  BY DEF Dark, SleepingIsDark
<1> QED
  BY <1>2, <1>3, <1>4, PTL DEF Spec

=============================================================================
