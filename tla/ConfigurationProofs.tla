------------------------- MODULE ConfigurationProofs -------------------------
(***************************************************************************)
(* A set of bindings that validation accepts leaves no strike undecided,   *)
(* and no other set is ever in force.  What clients do to the files leaves *)
(* them such that PushOS starts with them.                                 *)
(***************************************************************************)
EXTENDS Configuration, FiniteSetTheorems, TLAPS

\* What RuntimeConfig::build lets through, as far as precedence is concerned.
Decidable(S) == S \subseteq Binding /\ ~Ambiguous(S)

-----------------------------------------------------------------------------
(* Precedence. *)

\* Of two bindings of one key that apply here and accept the strike, the order
\* puts one before the other unless they agree on all that could part them
\* (Binding::precedence, Contested).
LEMMA OrderParts ==
    ASSUME NEW a \in Binding, NEW b \in Binding, NEW struck \in Forces \cup {None},
           NEW context \in Context,
           a.control = b.control, a.gesture = b.gesture,
           AppliesTo(a, context), AppliesTo(b, context),
           AcceptsForce(a, struck), AcceptsForce(b, struck),
           ~Precedes(a, b), ~Precedes(b, a)
    PROVE  Contested(a) = Contested(b)
<1>1. a.page \in Pages \cup {None} /\ b.page \in Pages \cup {None}
      /\ a.workspace \in Workspaces \cup {None} /\ b.workspace \in Workspaces \cup {None}
      /\ a.priority \in Nat /\ b.priority \in Nat
  BY DEF Binding
<1>2. Specificity(a) \in Int /\ Specificity(b) \in Int
  BY DEF Specificity
<1>3. Specificity(a) = Specificity(b)
  BY <1>2 DEF Precedes
<1>4. (a.page = None <=> b.page = None) /\ (a.workspace = None <=> b.workspace = None)
  BY <1>3 DEF Specificity
<1>5. a.page = b.page /\ a.workspace = b.workspace
  BY <1>4 DEF AppliesTo
<1>6. Banded(a) <=> Banded(b)
  BY <1>3 DEF Precedes
<1>7. a.force = b.force
  BY <1>6 DEF Banded, AcceptsForce
<1>8. a.priority = b.priority
  BY <1>1, <1>3, <1>6 DEF Precedes
<1> QED
  BY <1>5, <1>7, <1>8 DEF Contested

\* So of one key at most one candidate wins.
LEMMA OneWinner ==
    ASSUME NEW S, Decidable(S), NEW control, NEW gesture, NEW struck \in Forces \cup {None},
           NEW context \in Context
    PROVE  LET C == Candidates(S, control, gesture, struck, context)
           IN \A a, b \in Winners(C) : a = b
<1> DEFINE C == Candidates(S, control, gesture, struck, context)
<1> SUFFICES ASSUME NEW a \in Winners(C), NEW b \in Winners(C)
             PROVE  a = b
  OBVIOUS
<1>1. a \in C /\ b \in C /\ ~Precedes(a, b) /\ ~Precedes(b, a)
  BY DEF Winners
<1>2. /\ a \in S /\ b \in S /\ a.control = b.control /\ a.gesture = b.gesture
      /\ AppliesTo(a, context) /\ AppliesTo(b, context)
      /\ AcceptsForce(a, struck) /\ AcceptsForce(b, struck)
  BY <1>1 DEF Candidates
<1>3. a \in Binding /\ b \in Binding
  BY <1>2 DEF Decidable
<1>4. Contested(a) = Contested(b)
  BY <1>1, <1>2, <1>3, OrderParts
<1> QED
  BY <1>2, <1>4 DEF Decidable, Ambiguous

\* A set of which any two members are one has at most one.
LEMMA AtMostOne ==
    ASSUME NEW S, \A a, b \in S : a = b
    PROVE  Cardinality(S) <= 1
<1>1. CASE S = {}
  BY <1>1, FS_EmptySet
<1>2. CASE S # {}
  <2>1. PICK x : x \in S
    BY <1>2
  <2>2. S = {x}
    BY <2>1
  <2>3. Cardinality({x}) = 1
    BY FS_Singleton
  <2> QED
    BY <2>2, <2>3
<1> QED
  BY <1>1, <1>2

\* A strike is answered by one binding or by none, a turn that falls back
\* included (BindingResolver::resolve_struck).
LEMMA StrikeDecided ==
    ASSUME NEW S, Decidable(S), NEW strike, strike.force \in Forces \cup {None},
           NEW context \in Context
    PROVE  Cardinality(Resolve(S, strike, context)) <= 1
<1> DEFINE of(g) == Candidates(S, strike.control, g, strike.force, context)
<1>1. \A g : \A a, b \in Winners(of(g)) : a = b
  BY OneWinner
<1>2. \A a, b \in Resolve(S, strike, context) : a = b
  <2>1. \/ Resolve(S, strike, context) = Winners(of("turn"))
        \/ Resolve(S, strike, context) = Winners(of(strike.gesture))
    BY DEF Resolve
  <2> QED
    BY <1>1, <2>1
<1> QED
  BY <1>2, AtMostOne

-----------------------------------------------------------------------------
(* What is in force. *)

\* The invariant: what the store holds, and what the loop took from it, passed
\* validation.
InForce == Decidable(current.bindings) /\ Decidable(held.bindings)

\* What is usable is decidable (find_conflicts).
LEMMA UsableIsDecidable ==
    ASSUME NEW d, Usable(d)
    PROVE  Decidable(Merged(d).bindings)
BY DEF Usable, Decidable

\* Nothing configured leaves nothing undecided.
LEMMA NothingIsDecidable == Decidable(Merged(<<>>).bindings)
BY DEF Decidable, Ambiguous, Merged

\* Whatever is read, edited, written by hand or lost in a crash, only a set of
\* bindings that decides every strike is put in force (ConfigStore::reload).
THEOREM OnlyDecidableInForce == Spec => []InForce
<1>1. Init => InForce
  BY NothingIsDecidable DEF Init, InForce
<1>2. InForce /\ [Next]_vars => InForce'
  <2> SUFFICES ASSUME InForce, [Next]_vars
               PROVE  InForce'
    OBVIOUS
  <2> USE DEF store
  <2>1. ASSUME UNCHANGED <<current, held>> PROVE InForce'
    BY <2>1 DEF InForce
  <2>2. ASSUME NEW r \in Readers, Put(r) PROVE InForce'
    <3>1. CASE Usable(reader[r].got)
      BY <2>2, <3>1, UsableIsDecidable DEF Put, InForce
    <3>2. CASE ~Usable(reader[r].got)
      BY <2>2, <3>2, <2>1 DEF Put
    <3> QED
      BY <3>1, <3>2
  <2>3. CASE Adopt
    BY <2>3 DEF Adopt, InForce
  <2>4. CASE Start
    <3>1. CASE Usable(disk)
      BY <2>4, <3>1, UsableIsDecidable DEF Start, InForce
    <3>2. CASE ~Usable(disk)
      BY <2>4, <3>2, <2>1 DEF Start
    <3> QED
      BY <3>1, <3>2
  <2>5. ASSUME NEW c \in Clients, Ask(c) \/ Change(c) \/ Save(c) \/ Reread(c)
        PROVE  InForce'
    BY <2>5, <2>1 DEF Ask, Change, Save, Reread
  <2>6. ASSUME NEW r \in Readers, Read(r) PROVE InForce'
    BY <2>6, <2>1 DEF Read
  <2>7. CASE Notice \/ Settle \/ Begin \/ Finish \/ Crash \/ Watch
    BY <2>7, <2>1 DEF Notice, Settle, Begin, Finish, Crash, Watch
  <2>8. CASE UNCHANGED vars
    BY <2>8, <2>1 DEF vars
  <2> QED
    BY <2>2, <2>3, <2>4, <2>5, <2>6, <2>7, <2>8 DEF Next
<1> QED
  BY <1>1, <1>2, PTL DEF Spec

\* The surface does one thing or nothing, whatever is touched, however hard and
\* wherever the operator is, for every set of files, edits and clients.
THEOREM StrikesAreDecided == Spec => []EveryStrikeIsDecided
<1>1. InForce => EveryStrikeIsDecided
  <2> SUFFICES ASSUME InForce, NEW control, NEW gesture,
                      NEW force \in Forces \cup {None}, NEW context \in Context
               PROVE  Cardinality(Resolve(held.bindings,
                          [control |-> control, gesture |-> gesture, force |-> force],
                          context)) <= 1
    BY DEF EveryStrikeIsDecided
  <2> DEFINE strike == [control |-> control, gesture |-> gesture, force |-> force]
  <2>1. strike.force \in Forces \cup {None}
    OBVIOUS
  <2>2. Decidable(held.bindings)
    BY DEF InForce
  <2> HIDE DEF strike
  <2>3. Cardinality(Resolve(held.bindings, strike, context)) <= 1
    BY <2>1, <2>2, StrikeDecided
  <2> QED
    BY <2>3 DEF strike
<1> QED
  BY <1>1, OnlyDecidableInForce, PTL

-----------------------------------------------------------------------------
(* What clients do to the files. *)

Loaded == [Files -> Contents]

\* What a client or the watcher may be at.
Doing == [at : Steps, got : Seq(Contents), docs : Loaded \cup {<<>>}, todo : SUBSET Files]

\* One client at a time is at anything.
OneAtATime == \A c, d \in Clients : c = d \/ At(c, "idle") \/ At(d, "idle")

\* What a client has read of the files is still what they say.
ReadsTrue(c) ==
    At(c, "loading") => /\ edit[c] \in Edits
                        /\ \A f \in 1..Len(reader[c].got) : reader[c].got[f] = disk[f]

\* What a client is writing is usable, and is on the disk but for what is left
\* to write.
WritesUsable(c) ==
    At(c, "saving") => /\ reader[c].docs \in Loaded /\ Usable(reader[c].docs)
                       /\ \A f \in Files \ reader[c].todo : disk[f] = reader[c].docs[f]

NobodySaves == \A c \in Clients : ~At(c, "saving")

\* The invariant: all of it, for as long as the operator has written nothing.
Untouched ==
    /\ disk \in Loaded /\ reader \in [Readers -> Doing]
    /\ edit \in [Clients -> Edits \cup {None}]
    /\ OneAtATime
    /\ \A c \in Clients : ReadsTrue(c) /\ WritesUsable(c)
    /\ NobodySaves => Usable(disk)

Kept == (draft # None => spoiled) /\ (~spoiled => Untouched)

\* The first files start PushOS, nobody edits while another does, and no file
\* that is being saved is left unwritten.
Undisturbed ==
    /\ Usable(FirstFiles)
    /\ "edits at once" \notin Allowed
    /\ "save fails" \notin Allowed
    /\ "crash while saving" \notin Allowed

\* An edit makes files of files.
LEMMA EditedFiles ==
    ASSUME NEW d \in Loaded, NEW e \in Edits, NEW next \in Edited(d, e)
    PROVE  next \in Loaded
<1> USE DEF Loaded
<1>1. /\ e.kind \in {"bind", "unbind"} => e.of \in Binding
      /\ e.kind \in {"addpage", "removepage"} => e.of \in Pages
      /\ e.kind \in {"bind", "unbind", "addpage", "removepage"}
  BY EditsAssumption
<1>2. ASSUME NEW g, NEW B \in SUBSET Binding
      PROVE  [d EXCEPT ![g].bindings = B] \in Loaded
  <2>1. CASE g \notin Files
    BY <2>1
  <2>2. CASE g \in Files
    <3>1. d[g] \in Contents
      BY <2>2
    <3>2. [d[g] EXCEPT !.bindings = B] \in Contents
      BY <3>1 DEF Contents
    <3> QED
      BY <3>2
  <2> QED
    BY <2>1, <2>2
<1>3. ASSUME NEW g, NEW P \in SUBSET Pages
      PROVE  [d EXCEPT ![g].pages = P] \in Loaded
  <2>1. CASE g \notin Files
    BY <2>1
  <2>2. CASE g \in Files
    <3>1. d[g] \in Contents
      BY <2>2
    <3>2. [d[g] EXCEPT !.pages = P] \in Contents
      BY <3>1 DEF Contents
    <3> QED
      BY <3>2
  <2> QED
    BY <2>1, <2>2
<1>4. \A g \in Files : d[g].bindings \in SUBSET Binding /\ d[g].pages \in SUBSET Pages
                       /\ d[g].whole \in BOOLEAN
  BY DEF Contents
<1>5. DOMAIN d = Files /\ Main \in Files
  BY FilesAssumption, ContentsAssumption DEF Main
<1> HIDE DEF Loaded
<1>6. ASSUME NEW g, NEW B, B \in SUBSET Binding \/ g \notin Files
      PROVE  [d EXCEPT ![g].bindings = B] \in Loaded
  <2>1. CASE g \notin Files
    <3>1. [d EXCEPT ![g].bindings = B] = d
      BY <2>1 DEF Loaded
    <3> QED
      BY <3>1
  <2> QED
    BY <2>1, <1>6, <1>2
<1>7. CASE e.kind = "bind"
  <2> DEFINE b == e.of
             places == AtAddress(d, Address(b))
             g == Min(places)
  <2>1. b \in Binding /\ next \in Upserted(d, b)
    BY <1>1, <1>7 DEF Edited
  <2>2. CASE places = {}
    <3>1. next = [d EXCEPT ![Main].bindings = d[Main].bindings \cup {b}]
      BY <2>1, <2>2 DEF Upserted
    <3>2. d[Main].bindings \cup {b} \in SUBSET Binding
      BY <1>4, <1>5, <2>1
    <3> QED
      BY <3>1, <3>2, <1>6
  <2>3. CASE places # {}
    <3>1. PICK old : next = [d EXCEPT ![g].bindings = (d[g].bindings \ {old}) \cup {b}]
      BY <2>1, <2>3 DEF Upserted
    <3>2. g \in Files => (d[g].bindings \ {old}) \cup {b} \in SUBSET Binding
      BY <1>4, <2>1
    <3> QED
      BY <3>1, <3>2, <1>6
  <2> QED
    BY <2>2, <2>3
<1>8. CASE e.kind = "unbind"
  <2> DEFINE address == Address(e.of)
             places == AtAddress(d, address)
             g == Min(places)
  <2>1. next \in Unbound(d, address)
    BY <1>8 DEF Edited
  <2>2. PICK old : next = [d EXCEPT ![g].bindings = d[g].bindings \ {old}]
    BY <2>1 DEF Unbound
  <2>3. g \in Files => d[g].bindings \ {old} \in SUBSET Binding
    BY <1>4
  <2> QED
    BY <2>2, <2>3, <1>6
<1>9. CASE e.kind = "addpage"
  <2>1. e.of \in Pages /\ next \in WithPage(d, e.of)
    BY <1>1, <1>9 DEF Edited
  <2>2. next = d \/ next = [d EXCEPT ![Main].pages = d[Main].pages \cup {e.of}]
    BY <2>1 DEF WithPage
  <2>3. d[Main].pages \cup {e.of} \in SUBSET Pages
    BY <1>4, <1>5, <2>1
  <2>4. [d EXCEPT ![Main].pages = d[Main].pages \cup {e.of}] \in Loaded
    BY <2>3, <1>3
  <2> QED
    BY <2>2, <2>4
<1>10. CASE e.kind = "removepage"
  <2> DEFINE page == e.of
             places == {f \in DOMAIN d : page \in d[f].pages}
             without(f) == [pages    |-> d[f].pages \ (IF f = Min(places) THEN {page} ELSE {}),
                            bindings |-> {b \in d[f].bindings : b.page # page},
                            whole    |-> d[f].whole]
  <2>1. next \in WithoutPage(d, page)
    BY <1>10 DEF Edited
  <2>2. next = [f \in DOMAIN d |-> without(f)]
    BY <2>1 DEF WithoutPage
  <2>3. \A f \in Files : without(f) \in Contents
    BY <1>4 DEF Contents
  <2> QED
    BY <2>2, <2>3, <1>5 DEF Loaded
<1> QED
  BY <1>1, <1>7, <1>8, <1>9, <1>10

-----------------------------------------------------------------------------
(* One step, with nothing written by the operator. *)

\* The readers are as they were, but for the one that acts (Does).
LEMMA DoesOnly ==
    ASSUME Untouched, NEW r \in Readers, NEW next \in Doing, Does(r, next)
    PROVE  /\ reader' \in [Readers -> Doing]
           /\ \A q \in Readers : reader'[q] = IF q = r THEN next ELSE reader[q]
BY DEF Does, Untouched

\* A reader that is done, and one that starts over, writes and loads nothing.
LEMMA RestingIsDoing ==
    /\ Resting \in Doing /\ Resting.at = "idle"
    /\ \A step \in Steps : /\ [Resting EXCEPT !.at = step] \in Doing
                           /\ [Resting EXCEPT !.at = step].at = step
                           /\ [Resting EXCEPT !.at = step].got = <<>>
<1>1. /\ Resting.at = "idle" /\ "idle" \in Steps
      /\ \A step : [Resting EXCEPT !.at = step]
                     = [at |-> step, got |-> <<>>, docs |-> <<>>, todo |-> {}]
  BY DEF Resting, Steps
<1>2. <<>> \in Seq(Contents)
  OBVIOUS
<1>3. \A step \in Steps : [at |-> step, got |-> <<>>, docs |-> <<>>, todo |-> {}] \in Doing
  BY <1>2 DEF Doing
<1> QED
  BY <1>1, <1>3 DEF Resting

\* What a client was at stays true of it when it is not the one that acts and
\* nothing is written.
LEMMA OthersKeep ==
    ASSUME Untouched, NEW r \in Readers, NEW c \in Clients, c # r,
           UNCHANGED <<disk, reader[c], edit[c]>>
    PROVE  (ReadsTrue(c) /\ WritesUsable(c))'
BY DEF Untouched, ReadsTrue, WritesUsable, At

\* A reader that is neither loading nor saving when it has acted, and was not
\* idle before if it is a client that is at anything now, changes nothing else.
LEMMA SomethingElse ==
    ASSUME Untouched, NEW r \in Readers, NEW next \in Doing, Does(r, next),
           UNCHANGED <<disk, edit>>,
           next.at \in {"idle", "reloading", "settling"},
           r \in Clients => (next.at = "idle" \/ ~At(r, "idle")),
           At(r, "saving") /\ r \in Clients => Usable(disk)
    PROVE  Untouched'
<1>1. /\ reader' \in [Readers -> Doing]
      /\ \A q \in Readers : reader'[q] = IF q = r THEN next ELSE reader[q]
  BY DoesOnly
<1>2. Clients \subseteq Readers
  BY DEF Readers
<1>3. OneAtATime'
  BY <1>1, <1>2 DEF OneAtATime, At, Untouched
<1>4. ASSUME NEW c \in Clients PROVE (ReadsTrue(c) /\ WritesUsable(c))'
  <2>1. CASE c = r
    BY <1>1, <2>1 DEF ReadsTrue, WritesUsable, At
  <2>2. CASE c # r
    BY <1>1, <1>2, <2>2, OthersKeep
  <2> QED
    BY <2>1, <2>2
<1>5. NobodySaves' => Usable(disk)
  <2> SUFFICES ASSUME NobodySaves', ~(At(r, "saving") /\ r \in Clients)
               PROVE  Usable(disk)
    OBVIOUS
  <2>1. NobodySaves
    BY <1>1, <1>2 DEF NobodySaves, At
  <2> QED
    BY <2>1 DEF Untouched
<1>6. (NobodySaves => Usable(disk))'
  BY <1>5 DEF Usable, WrittenTwice, Merged
<1> QED
  BY <1>1, <1>3, <1>4, <1>6 DEF Untouched

\* What changes of what a reader is at.
LEMMA OneField ==
    ASSUME NEW does \in Doing, NEW x
    PROVE  /\ [does EXCEPT !.got = x]
                = [at |-> does.at, got |-> x, docs |-> does.docs, todo |-> does.todo]
           /\ [does EXCEPT !.todo = x]
                = [at |-> does.at, got |-> does.got, docs |-> does.docs, todo |-> x]
<1>1. does = [at |-> does.at, got |-> does.got, docs |-> does.docs, todo |-> does.todo]
  BY DEF Doing
<1> QED
  BY <1>1

\* A client that asks for an edit is the only one that is at anything (Ask).
LEMMA AskKeeps ==
    ASSUME Undisturbed, Untouched, NEW c \in Clients, Ask(c)
    PROVE  Untouched'
<1> DEFINE next == [Resting EXCEPT !.at = "loading"]
<1>1. next \in Doing /\ next.at = "loading" /\ next.got = <<>>
  BY RestingIsDoing DEF Steps
<1>2. \A o \in Clients : At(o, "idle")
  BY Zenon DEF Ask, Undisturbed
<1>3. Does(c, next) /\ disk' = disk
  BY DEF Ask
<1>4. PICK e \in Edits : edit' = [edit EXCEPT ![c] = e]
  BY DEF Ask
<1> HIDE DEF next
<1>5. Clients \subseteq Readers
  BY DEF Readers
<1>6. /\ reader' \in [Readers -> Doing]
      /\ \A q \in Readers : reader'[q] = IF q = c THEN next ELSE reader[q]
  BY <1>1, <1>3, <1>5, DoesOnly
<1>7. OneAtATime'
  BY <1>2, <1>5, <1>6 DEF OneAtATime, At
<1>8. ASSUME NEW o \in Clients PROVE (ReadsTrue(o) /\ WritesUsable(o))'
  <2>1. CASE o = c
    <3>1. reader'[o] = next
      BY <1>5, <1>6, <2>1
    <3>2. edit'[o] \in Edits
      BY <1>4, <2>1 DEF Untouched
    <3> QED
      BY <1>1, <3>1, <3>2 DEF ReadsTrue, WritesUsable, At
  <2>2. CASE o # c
    <3>1. reader'[o] = reader[o] /\ reader[o].at = "idle"
      BY <1>2, <1>5, <1>6, <2>2 DEF At
    <3> QED
      BY <3>1 DEF ReadsTrue, WritesUsable, At
  <2> QED
    BY <2>1, <2>2
<1>9. Usable(disk)
  BY <1>2 DEF Untouched, NobodySaves, At
<1>10. (NobodySaves => Usable(disk))'
  BY <1>3, <1>9 DEF Usable, WrittenTwice, Merged
<1>11. disk' \in Loaded
  BY <1>3 DEF Untouched
<1>12. edit' \in [Clients -> Edits \cup {None}]
  BY <1>4 DEF Untouched
<1> QED
  BY <1>6, <1>7, <1>8, <1>10, <1>11, <1>12 DEF Untouched

\* What is read is what the files say (Read).
LEMMA ReadKeeps ==
    ASSUME Untouched, NEW r \in Readers, Read(r)
    PROVE  Untouched'
<1> DEFINE n == Len(reader[r].got) + 1
           more == [at |-> reader[r].at, got |-> Append(reader[r].got, disk[n]),
                    docs |-> reader[r].docs, todo |-> reader[r].todo]
<1>1. /\ reader[r] \in Doing /\ reader[r].at \in {"loading", "reloading"} /\ n \in Files
      /\ disk' = disk /\ edit' = edit
  BY DEF Read, Untouched
<1>2. Does(r, Resting) \/ Does(r, [reader[r] EXCEPT !.got = Append(@, disk[n])])
  BY DEF Read, Ends
<1>3. CASE Does(r, Resting)
  <2>1. ~At(r, "saving")
    BY <1>1 DEF At
  <2> QED
    BY <1>1, <1>3, <2>1, RestingIsDoing, SomethingElse
<1>4. CASE Does(r, [reader[r] EXCEPT !.got = Append(@, disk[n])])
  <2>1. [reader[r] EXCEPT !.got = Append(@, disk[n])] = more
    BY <1>1, OneField
  <2>2. reader[r].got \in Seq(Contents) /\ disk[n] \in Contents
    BY <1>1 DEF Doing, Untouched, Loaded
  <2>3. /\ Append(reader[r].got, disk[n]) \in Seq(Contents)
        /\ Len(Append(reader[r].got, disk[n])) = n
        /\ \A f \in 1..n : Append(reader[r].got, disk[n])[f]
                              = IF f = n THEN disk[n] ELSE reader[r].got[f]
    BY <2>2
  <2>4. more \in Doing /\ more.at = reader[r].at /\ Does(r, more)
    BY <1>1, <1>4, <2>1, <2>3 DEF Doing
  <2>5. CASE reader[r].at = "reloading"
    BY <1>1, <2>4, <2>5, SomethingElse DEF At
  <2>6. CASE reader[r].at = "loading"
    <3>1. /\ reader' \in [Readers -> Doing]
          /\ \A q \in Readers : reader'[q] = IF q = r THEN more ELSE reader[q]
      BY <2>4, DoesOnly
    <3>2. \A f \in 1..Len(more.got) : f = n \/ f \in 1..Len(reader[r].got)
      BY <2>2, <2>3
    <3>3. ASSUME r \in Clients
          PROVE  \A f \in 1..Len(more.got) : more.got[f] = disk[f]
      <4>1. \A f \in 1..Len(reader[r].got) : reader[r].got[f] = disk[f]
        BY <2>6, <3>3 DEF Untouched, ReadsTrue, At
      <4> QED
        BY <2>3, <3>2, <4>1
    <3> HIDE DEF more, n
    <3>4. Clients \subseteq Readers
      BY DEF Readers
    <3>5. OneAtATime'
      BY <2>4, <2>6, <3>1, <3>4 DEF OneAtATime, At, Untouched
    <3>6. ASSUME NEW c \in Clients PROVE (ReadsTrue(c) /\ WritesUsable(c))'
      <4>1. CASE c = r
        <5>1. edit[c] \in Edits
          BY <2>6, <4>1 DEF Untouched, ReadsTrue, At
        <5>2. reader'[c] = more
          BY <3>1, <4>1
        <5>3. \A f \in 1..Len(more.got) : more.got[f] = disk[f]
          BY <3>3, <4>1
        <5> QED
          BY <1>1, <2>4, <2>6, <5>1, <5>2, <5>3 DEF ReadsTrue, WritesUsable, At
      <4>2. CASE c # r
        BY <1>1, <3>1, <3>4, <4>2, OthersKeep
      <4> QED
        BY <4>1, <4>2
    <3>7. NobodySaves' => NobodySaves
      BY <2>4, <3>1, <3>4 DEF NobodySaves, At
    <3>8. (NobodySaves => Usable(disk))'
      BY <1>1, <3>7 DEF Untouched, Usable, WrittenTwice, Merged
    <3> QED
      BY <1>1, <3>1, <3>5, <3>6, <3>8 DEF Untouched
  <2> QED
    BY <1>1, <2>5, <2>6
<1> QED
  BY <1>2, <1>3, <1>4

\* What is to be written is usable, and is what was read but for what is to be
\* written (Change).
LEMMA ChangeKeeps ==
    ASSUME Untouched, NEW c \in Clients, Change(c)
    PROVE  Untouched'
<1>1. /\ At(c, "loading") /\ HasRead(c)
      /\ disk' = disk /\ edit' = edit
  BY DEF Change
<1>2. c \in Readers /\ Clients \subseteq Readers
  BY DEF Readers
<1>3. CASE Does(c, Resting)
  BY <1>1, <1>2, <1>3, RestingIsDoing, SomethingElse DEF At
<1>4. ASSUME NEW next \in Edited(reader[c].got, edit[c]), Usable(next),
             Does(c, Saving(next, Dirty(reader[c].got, next)))
      PROVE  Untouched'
  <2> DEFINE got == reader[c].got
             does == Saving(next, Dirty(got, next))
  <2>1. got \in Seq(Contents) /\ edit[c] \in Edits
    BY <1>1, <1>2 DEF Untouched, Doing, ReadsTrue
  <2>2. Len(got) = Len(FirstFiles) /\ \A f \in 1..Len(got) : got[f] = disk[f]
    BY <1>1 DEF Untouched, ReadsTrue, HasRead
  <2>3. got \in Loaded /\ DOMAIN got = Files
    BY <2>1, <2>2, FilesAssumption DEF Loaded
  <2>4. next \in Loaded
    BY <1>4, <2>1, <2>3, EditedFiles
  <2>5. does \in Doing /\ does.at = "saving" /\ does.docs = next /\ does.todo = Dirty(got, next)
    <3>1. Dirty(got, next) \in SUBSET Files
      BY <2>3 DEF Dirty
    <3>2. <<>> \in Seq(Contents)
      OBVIOUS
    <3> QED
      BY <2>4, <3>1, <3>2 DEF Saving, Doing, Steps
  <2>6. \A f \in Files \ Dirty(got, next) : disk[f] = next[f]
    BY <2>2, <2>3, FilesAssumption DEF Dirty
  <2> HIDE DEF does, got
  <2>7. /\ reader' \in [Readers -> Doing]
        /\ \A q \in Readers : reader'[q] = IF q = c THEN does ELSE reader[q]
    BY <1>2, <1>4, <2>5, DoesOnly DEF does, got
  <2>8. OneAtATime'
    BY <1>1, <1>2, <2>5, <2>7 DEF OneAtATime, At, Untouched
  <2>9. ASSUME NEW o \in Clients PROVE (ReadsTrue(o) /\ WritesUsable(o))'
    <3>1. CASE o = c
      <4>1. reader'[o] = does
        BY <1>2, <2>7, <3>1
      <4>2. ReadsTrue(o)'
        BY <2>5, <4>1 DEF ReadsTrue, At
      <4>3. reader'[o].docs = next /\ reader'[o].todo = Dirty(got, next)
        BY <2>5, <4>1
      <4>4. Usable(reader'[o].docs) /\ reader'[o].docs \in Loaded
        BY <1>4, <2>4, <4>3
      <4>5. \A f \in Files \ reader'[o].todo : disk'[f] = reader'[o].docs[f]
        BY <1>1, <2>6, <4>3
      <4> QED
        BY <4>2, <4>4, <4>5 DEF WritesUsable, Usable, WrittenTwice, Merged, Loaded
    <3>2. CASE o # c
      BY <1>1, <1>2, <2>7, <3>2, OthersKeep
    <3> QED
      BY <3>1, <3>2
  <2>10. ~NobodySaves'
    BY <1>2, <2>5, <2>7 DEF NobodySaves, At
  <2> QED
    BY <1>1, <2>7, <2>8, <2>9, <2>10 DEF Untouched
<1>5. \/ Does(c, Resting)
      \/ \E next \in Edited(reader[c].got, edit[c]) :
            Usable(next) /\ Does(c, Saving(next, Dirty(reader[c].got, next)))
  BY Zenon DEF Change, Ends
<1> QED
  BY <1>3, <1>4, <1>5

\* What is being written is usable still, and once nothing is left to write it
\* is what the files say (Save, of the only client that is at anything).
LEMMA SaveKeeps ==
    ASSUME Undisturbed, Untouched, NEW c \in Clients, Save(c)
    PROVE  Untouched'
<1> DEFINE f == Min(reader[c].todo)
           docs == reader[c].docs
           left == [at |-> reader[c].at, got |-> reader[c].got, docs |-> docs,
                    todo |-> reader[c].todo \ {f}]
<1>1. c \in Readers /\ Clients \subseteq Readers
  BY DEF Readers
<1>2. At(c, "saving") /\ edit' = edit
  BY DEF Save
<1>3. /\ disk' = [disk EXCEPT ![f] = docs[f]]
      /\ Does(c, [reader[c] EXCEPT !.todo = @ \ {f}])
  BY Zenon DEF Save, Undisturbed, Writes
<1>4. reader[c] \in Doing
  BY <1>1 DEF Untouched
<1>5. [reader[c] EXCEPT !.todo = @ \ {f}] = left
  BY <1>4, OneField
<1>6. left \in Doing /\ left.at = "saving" /\ left.docs = docs
      /\ left.todo = reader[c].todo \ {f}
  BY <1>2, <1>4 DEF Doing, At
<1>7. /\ docs \in Loaded /\ Usable(docs)
      /\ \A g \in Files \ reader[c].todo : disk[g] = docs[g]
  BY <1>2 DEF Untouched, WritesUsable
<1>8. /\ disk' \in Loaded
      /\ \A g \in Files : disk'[g] = IF g = f THEN docs[g] ELSE disk[g]
  BY <1>3, <1>7 DEF Untouched, Loaded
<1> HIDE DEF f
<1>9. \A g \in Files \ left.todo : disk'[g] = docs[g]
  BY <1>6, <1>7, <1>8
<1>10. Does(c, left)
  BY <1>3, <1>5 DEF f
<1> HIDE DEF left, docs
<1>11. /\ reader' \in [Readers -> Doing]
       /\ \A q \in Readers : reader'[q] = IF q = c THEN left ELSE reader[q]
  BY <1>1, <1>6, <1>10, DoesOnly
<1>12. OneAtATime'
  BY <1>1, <1>2, <1>6, <1>11 DEF OneAtATime, At, Untouched
<1>13. ASSUME NEW o \in Clients PROVE (ReadsTrue(o) /\ WritesUsable(o))'
  <2>1. CASE o = c
    <3>1. reader'[o] = left
      BY <1>1, <1>11, <2>1
    <3>2. ReadsTrue(o)'
      BY <1>6, <3>1 DEF ReadsTrue, At
    <3>3. reader'[o].docs = docs /\ reader'[o].todo = left.todo
      BY <1>6, <3>1
    <3>4. Usable(reader'[o].docs) /\ reader'[o].docs \in Loaded
      BY <1>7, <3>3
    <3>5. \A g \in Files \ reader'[o].todo : disk'[g] = reader'[o].docs[g]
      BY <1>9, <3>3
    <3> QED
      BY <3>2, <3>4, <3>5 DEF WritesUsable, Usable, WrittenTwice, Merged, Loaded
  <2>2. CASE o # c
    <3>1. At(o, "idle") /\ reader'[o] = reader[o]
      BY <1>1, <1>2, <1>11, <2>2 DEF Untouched, OneAtATime, At
    <3> QED
      BY <3>1 DEF ReadsTrue, WritesUsable, At
  <2> QED
    BY <2>1, <2>2
<1>14. ~NobodySaves'
  BY <1>1, <1>6, <1>11 DEF NobodySaves, At
<1> QED
  BY <1>2, <1>8, <1>11, <1>12, <1>13, <1>14 DEF Untouched

\* Once all of it is written the files are usable (Reread).
LEMMA RereadKeeps ==
    ASSUME Untouched, NEW c \in Clients, Reread(c)
    PROVE  Untouched'
<1>1. c \in Readers
  BY DEF Readers
<1>2. At(c, "saving") /\ reader[c].todo = {} /\ disk' = disk /\ edit' = edit
  BY DEF Reread
<1>3. Usable(disk)
  <2>1. reader[c].docs \in Loaded /\ Usable(reader[c].docs)
        /\ \A g \in Files : disk[g] = reader[c].docs[g]
    BY <1>2 DEF Untouched, WritesUsable
  <2>2. disk = reader[c].docs
    BY <2>1 DEF Untouched, Loaded
  <2> QED
    BY <2>1, <2>2
<1> QED
  BY <1>1, <1>2, <1>3, RestingIsDoing, SomethingElse DEF Reread, Steps, At

\* Nothing is half written when PushOS dies (Crash).
LEMMA CrashKeeps ==
    ASSUME Undisturbed, Untouched, Crash
    PROVE  Untouched'
<1>1. /\ disk' = disk /\ edit' = edit /\ reader' = [r \in Readers |-> Resting]
      /\ \A c \in Clients : At(c, "saving") => reader[c].todo = {}
  BY Zenon DEF Crash, Undisturbed
<1>2. Clients \subseteq Readers
  BY DEF Readers
<1>3. reader' \in [Readers -> Doing] /\ \A c \in Clients : reader'[c].at = "idle"
  BY <1>1, <1>2, RestingIsDoing
<1>4. Usable(disk)
  <2>1. CASE NobodySaves
    BY <2>1 DEF Untouched
  <2>2. ASSUME NEW c \in Clients, At(c, "saving") PROVE Usable(disk)
    <3>1. reader[c].docs \in Loaded /\ Usable(reader[c].docs)
          /\ \A g \in Files : disk[g] = reader[c].docs[g]
      BY <1>1, <2>2 DEF Untouched, WritesUsable
    <3>2. disk = reader[c].docs
      BY <3>1 DEF Untouched, Loaded
    <3> QED
      BY <3>1, <3>2
  <2> QED
    BY <2>1, <2>2 DEF NobodySaves
<1>5. (NobodySaves => Usable(disk))'
  BY <1>1, <1>4 DEF Usable, WrittenTwice, Merged
<1>6. OneAtATime'
  BY <1>3 DEF OneAtATime, At
<1>7. \A c \in Clients : (ReadsTrue(c) /\ WritesUsable(c))'
  BY <1>3 DEF ReadsTrue, WritesUsable, At
<1> QED
  BY <1>1, <1>3, <1>5, <1>6, <1>7 DEF Untouched

-----------------------------------------------------------------------------
(* The files stay usable. *)

\* What neither reads nor writes a file, nor asks for it.
LEMMA ElsewhereKeeps ==
    ASSUME Untouched, Adopt \/ Start \/ Watch \/ UNCHANGED vars
    PROVE  Untouched'
<1>1. disk' = disk /\ edit' = edit /\ reader' = reader
  BY DEF Adopt, Start, Watch, vars
<1>2. OneAtATime' /\ (disk \in Loaded /\ reader \in [Readers -> Doing])'
      /\ edit' \in [Clients -> Edits \cup {None}]
  BY <1>1 DEF Untouched, OneAtATime, At, Loaded
<1>3. ASSUME NEW c \in Clients PROVE (ReadsTrue(c) /\ WritesUsable(c))'
  BY <1>1 DEF Untouched, ReadsTrue, WritesUsable, At
<1>4. (NobodySaves => Usable(disk))'
  BY <1>1 DEF Untouched, NobodySaves, At
<1> QED
  BY <1>2, <1>3, <1>4 DEF Untouched

\* What every step of PushOS and of its clients keeps, for as long as the
\* operator writes nothing.
LEMMA StepKeeps ==
    ASSUME Undisturbed, Untouched, [Next]_vars, ~Begin, ~Finish
    PROVE  Untouched'
<1>1. ASSUME NEW c \in Clients, Ask(c) \/ Change(c) \/ Save(c) \/ Reread(c)
      PROVE  Untouched'
  BY <1>1, AskKeeps, ChangeKeeps, SaveKeeps, RereadKeeps
<1>2. ASSUME NEW r \in Readers, Read(r) PROVE Untouched'
  BY <1>2, ReadKeeps
<1>3. ASSUME NEW r \in Readers, Put(r) PROVE Untouched'
  <2>1. Does(r, Resting) /\ At(r, "reloading") /\ disk' = disk /\ edit' = edit
    BY <1>3 DEF Put, Ends
  <2> QED
    BY <2>1, RestingIsDoing, SomethingElse DEF At
<1>4. Watcher \in Readers /\ Watcher \notin Clients
  BY ReadersAssumption DEF Readers
<1>5. CASE Notice
  <2>1. Does(Watcher, [Resting EXCEPT !.at = "settling"]) /\ disk' = disk /\ edit' = edit
    BY <1>5 DEF Notice
  <2> QED
    BY <1>4, <2>1, RestingIsDoing, SomethingElse DEF Steps
<1>6. CASE Settle
  <2>1. Does(Watcher, [Resting EXCEPT !.at = "reloading"]) /\ disk' = disk /\ edit' = edit
    BY <1>6 DEF Settle
  <2> QED
    BY <1>4, <2>1, RestingIsDoing, SomethingElse DEF Steps
<1>7. CASE Adopt \/ Start \/ Watch \/ UNCHANGED vars
  BY <1>7, ElsewhereKeeps
<1>8. CASE Crash
  BY <1>8, CrashKeeps
<1> QED
  BY <1>1, <1>2, <1>3, <1>5, <1>6, <1>7, <1>8 DEF Next

\* An operator who is writing a file has written something.
LEMMA DraftIsSpoiled ==
    ASSUME draft # None => spoiled, [Next]_vars
    PROVE  /\ (draft # None => spoiled)'
           /\ ~spoiled' => ~spoiled /\ ~Begin /\ ~Finish
<1>1. CASE Begin
  BY <1>1 DEF Begin
<1>2. CASE Finish
  BY <1>2 DEF Finish
<1>3. CASE ~Begin /\ ~Finish
  <2>1. draft' = draft /\ spoiled' = spoiled
    BY <1>3 DEF Next, Ask, Change, Save, Reread, Read, Put, Notice, Settle, Adopt, Crash,
                Start, Watch, vars
  <2> QED
    BY <1>3, <2>1
<1> QED
  BY <1>1, <1>2, <1>3

\* The files PushOS is first started with are usable, and nobody is at anything.
LEMMA FirstUntouched ==
    ASSUME Undisturbed, Init
    PROVE  Kept
<1>1. disk \in Loaded
  BY FilesAssumption, ContentsAssumption DEF Init, Loaded
<1>2. reader = [r \in Readers |-> Resting] /\ Clients \subseteq Readers
  BY DEF Init, Readers
<1>3. reader \in [Readers -> Doing] /\ \A c \in Clients : reader[c].at = "idle"
  BY <1>2, RestingIsDoing
<1>4. OneAtATime /\ \A c \in Clients : ReadsTrue(c) /\ WritesUsable(c)
  BY <1>3 DEF OneAtATime, ReadsTrue, WritesUsable, At
<1>5. Usable(disk)
  BY DEF Init, Undisturbed
<1>6. edit \in [Clients -> Edits \cup {None}] /\ draft = None
  BY DEF Init
<1> QED
  BY <1>1, <1>3, <1>4, <1>5, <1>6 DEF Untouched, Kept

\* What clients do to the files leaves them such that PushOS would start with
\* them, whatever they ask for and wherever the entries are, when the first are
\* such, one edit waits for the other, and a save that was begun is finished
\* (ConfigDocuments::save, ControlServer::commit).
THEOREM FilesStayUsable ==
    ASSUME Undisturbed
    PROVE  Spec => []DiskStaysUsable
<1>1. Init => Kept
  BY FirstUntouched
<1>2. Kept /\ [Next]_vars => Kept'
  <2> SUFFICES ASSUME Kept, [Next]_vars PROVE Kept'
    OBVIOUS
  <2>1. /\ (draft # None => spoiled)'
        /\ ~spoiled' => ~spoiled /\ ~Begin /\ ~Finish
    BY DraftIsSpoiled DEF Kept
  <2>2. ASSUME ~spoiled' PROVE Untouched'
    BY <2>1, <2>2, StepKeeps DEF Kept
  <2> QED
    BY <2>1, <2>2 DEF Kept
<1>3. Kept => DiskStaysUsable
  BY DEF Kept, Untouched, NobodySaves, DiskStaysUsable
<1> QED
  BY <1>1, <1>2, <1>3, PTL DEF Spec
=============================================================================
