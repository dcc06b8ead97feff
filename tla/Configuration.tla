--------------------------- MODULE Configuration ---------------------------
(***************************************************************************)
(* The files an operator's surface is configured by, and what is in force. *)
(*                                                                         *)
(* The files are the truth.  The operator writes them with an editor, and  *)
(* clients of the control socket with pushos-config's editor.rs: load all  *)
(* of them, change what was loaded, validate the whole, write what changed *)
(* a file at a time (runtime/control.rs commit, and re-read).  A watcher   *)
(* re-reads them when they have changed (watcher.rs).  Whoever re-reads    *)
(* puts what it read in force if it is usable (store.rs reload), and the   *)
(* input loop takes it from there.  Every client's connection is a task of *)
(* its own on a runtime of two threads, and nothing holds them apart.      *)
(***************************************************************************)
EXTENDS Bindings, FiniteSets, Sequences, SequencesExt, FiniteSetsExt

CONSTANTS
    Clients,    \* connections to the control socket
    Watcher,    \* the task that follows the files
    HomePage,   \* [runtime] home_page, which no edit of these changes
    FirstFiles, \* the files as PushOS is first started
    Edits,      \* what clients may ask for
    Drafts,     \* what the operator may write: <<file, contents>>
    MostEdits,  \* bound: how often clients ask for an edit
    MostDrafts, \* bound: how often the operator writes a file
    MostCrashes,\* bound: how often PushOS dies
    Allowed     \* the weather: what may go wrong

\* What a file says, and whether it can be parsed.
Contents == [pages : SUBSET Pages, bindings : SUBSET Binding, whole : BOOLEAN]

\* The main file, then what is included, in the order they are merged.
Files == DOMAIN FirstFiles
Main == 1
Readers == Clients \cup {Watcher}

ASSUME FilesAssumption == Files = 1..Len(FirstFiles) /\ FirstFiles # <<>>
ASSUME ContentsAssumption == FirstFiles \in Seq(Contents) /\ Drafts \subseteq Files \X Contents
ASSUME EditsAssumption ==
    Edits \subseteq [kind : {"bind", "unbind"}, of : Binding]
                     \cup [kind : {"addpage", "removepage"}, of : Pages]
ASSUME ReadersAssumption == Watcher \notin Clients /\ IsFiniteSet(Clients)
ASSUME ConfigurationBounds == {MostEdits, MostDrafts, MostCrashes} \subseteq Nat
ASSUME ConfigurationWeather ==
    Allowed \subseteq {"edits at once", "crash while saving", "save fails", "slow reload",
                       "edit before watch"}

VARIABLES
    disk,     \* disk[f]: what the file says, and whether it can be parsed
    draft,    \* the file the operator's editor is in the middle of, if any
    process,  \* "off", "loaded" before the files are watched, "on", "refused"
    current,  \* ConfigStore.current
    held,     \* the configuration the input loop resolves with
    told,     \* ConfigStore.generation has moved since the loop looked
    changed,  \* the watcher's channel holds a change
    reader,   \* reader[r]: what a client or the watcher is doing, what it has read
    edit,     \* edit[c]: what a client asked for
    spoiled,  \* whether the operator has written anything
    count     \* how many edits, drafts and crashes there have been

store == <<current, held, told>>
vars  == <<disk, draft, process, store, changed, reader, edit, spoiled, count>>

Torn == [pages |-> {}, bindings |-> {}, whole |-> FALSE]

-----------------------------------------------------------------------------
(* Reading, and what is usable. *)

\* ConfigFile::merge, over every file.
Merged(d) == [pages |-> UNION {d[f].pages : f \in DOMAIN d},
              bindings |-> UNION {d[f].bindings : f \in DOMAIN d}]

\* What is written twice in two files is two entries of one list.
WrittenTwice(d) == \E f, g \in DOMAIN d :
    f # g /\ (d[f].pages \cap d[g].pages # {} \/ d[f].bindings \cap d[g].bindings # {})

\* RuntimeConfig::build, for pages and bindings: no problem was found.
Usable(d) ==
    LET config == Merged(d) IN
    /\ \A f \in DOMAIN d : d[f].whole
    /\ ~WrittenTwice(d)
    /\ HomePage \in config.pages
    /\ \A b \in config.bindings :
         /\ b \in Binding
         /\ b.page = None \/ b.page \in config.pages
         /\ b.workspace = None \/ b.workspace \in Workspaces
         /\ ~ForceFault(b)
    /\ ~Ambiguous(config.bindings)

-----------------------------------------------------------------------------
(* Editing what was loaded. *)

\* BindingAddress
Address(b) == <<b.control, b.gesture, b.force, b.page, b.workspace>>

\* The files of d with an entry that satisfies P: locate and locate_page take
\* the first, and in it an entry this model does not order.
AtAddress(d, address) == {f \in DOMAIN d : \E b \in d[f].bindings : Address(b) = address}

\* upsert_binding: where the address already is, or else in the main file.
Upserted(d, b) ==
    LET places == AtAddress(d, Address(b)) IN
    IF places = {} THEN {[d EXCEPT ![Main].bindings = @ \cup {b}]}
    ELSE {[d EXCEPT ![Min(places)].bindings = (@ \ {old}) \cup {b}] :
             old \in {o \in d[Min(places)].bindings : Address(o) = Address(b)}}

\* remove_binding, of nothing when the address is bound nowhere.
Unbound(d, address) ==
    LET places == AtAddress(d, address) IN
    IF places = {} THEN {}
    ELSE {[d EXCEPT ![Min(places)].bindings = @ \ {old}] :
             old \in {o \in d[Min(places)].bindings : Address(o) = address}}

\* upsert_page, of a page that is told from another by its name alone.
WithPage(d, page) ==
    IF \E f \in DOMAIN d : page \in d[f].pages THEN {d}
    ELSE {[d EXCEPT ![Main].pages = @ \cup {page}]}

\* remove_page: the page, and what is bound on it in every file.
WithoutPage(d, page) ==
    LET places == {f \in DOMAIN d : page \in d[f].pages} IN
    IF places = {} THEN {}
    ELSE {[f \in DOMAIN d |->
             [pages    |-> d[f].pages \ (IF f = Min(places) THEN {page} ELSE {}),
              bindings |-> {b \in d[f].bindings : b.page # page},
              whole    |-> d[f].whole]]}

\* What an edit may make of the files it loaded; nothing, when it names what
\* is not there.
Edited(d, e) == CASE e.kind = "bind"       -> Upserted(d, e.of)
                  [] e.kind = "unbind"     -> Unbound(d, Address(e.of))
                  [] e.kind = "addpage"    -> WithPage(d, e.of)
                  [] e.kind = "removepage" -> WithoutPage(d, e.of)

\* The files an edit marked dirty.  What is written again as it was is dirty
\* in the code, and writing it changes nothing.
Dirty(d, edited) == {f \in DOMAIN d : d[f] # edited[f]}

-----------------------------------------------------------------------------
(* The disk and who is told of it. *)

At(r, step) == reader[r].at = step

\* A file changes.  The watcher hears of it once it watches, through a channel
\* of one that being full is as good as another.
Writes(f, contents) ==
    /\ disk' = [disk EXCEPT ![f] = contents]
    /\ changed' = (changed \/ process = "on")

Resting == [at |-> "idle", got |-> <<>>, docs |-> <<>>, todo |-> {}]
Saving(docs, todo) == [at |-> "saving", got |-> <<>>, docs |-> docs, todo |-> todo]
Does(r, next) == reader' = [reader EXCEPT ![r] = next]

\* A reader is done: the watcher waits for the next change, and a client has
\* its answer, that it is in force or what was wrong with it.
Ends(r) == Does(r, Resting)

\* A client asks for an edit.  One waits for another unless they are at once.
Ask(c) ==
    /\ process = "on" /\ At(c, "idle")
    /\ "edits at once" \in Allowed
       \/ \A o \in Clients : At(o, "idle")
    /\ count.edits < MostEdits /\ count' = [count EXCEPT !.edits = @ + 1]
    /\ \E e \in Edits : edit' = [edit EXCEPT ![c] = e]
    /\ Does(c, [Resting EXCEPT !.at = "loading"])
    /\ UNCHANGED <<disk, draft, process, store, changed, spoiled>>

\* The next file is read, by ConfigDocuments::load or by loader::load; one
\* that cannot be parsed is the end of it.
Read(r) ==
    LET next == Len(reader[r].got) + 1 IN
    /\ reader[r].at \in {"loading", "reloading"} /\ next \in Files
    /\ IF disk[next].whole
       THEN Does(r, [reader[r] EXCEPT !.got = Append(@, disk[next])])
       ELSE Ends(r)
    /\ UNCHANGED <<disk, draft, process, store, changed, edit, spoiled, count>>

HasRead(r) == Len(reader[r].got) = Len(FirstFiles)

\* Mutant: the files are written without the whole of them being validated.
ChangeUnchecked(c) ==
    /\ At(c, "loading") /\ HasRead(c)
    /\ \/ \E next \in Edited(reader[c].got, edit[c]) :
            Does(c, Saving(next, Dirty(reader[c].got, next)))
       \/ Edited(reader[c].got, edit[c]) = {} /\ Ends(c)
    /\ UNCHANGED <<disk, draft, process, store, changed, edit, spoiled, count>>

\* The edit, and save's validation of the whole of it before a file is written.
Change(c) ==
    /\ At(c, "loading") /\ HasRead(c)
    /\ \/ \E next \in Edited(reader[c].got, edit[c]) :
            IF Usable(next)
            THEN Does(c, Saving(next, Dirty(reader[c].got, next)))
            ELSE Ends(c)
       \/ Edited(reader[c].got, edit[c]) = {} /\ Ends(c)
    /\ UNCHANGED <<disk, draft, process, store, changed, edit, spoiled, count>>

\* save: the next file that changed is put in place whole, or cannot be.
Save(c) ==
    /\ At(c, "saving") /\ reader[c].todo # {}
    /\ LET f == Min(reader[c].todo) IN
       \/ /\ Writes(f, reader[c].docs[f])
          /\ Does(c, [reader[c] EXCEPT !.todo = @ \ {f}])
       \/ /\ "save fails" \in Allowed
          /\ Ends(c) /\ UNCHANGED <<disk, changed>>
    /\ UNCHANGED <<draft, process, store, edit, spoiled, count>>

\* commit: what was written is read again.
Reread(c) ==
    /\ At(c, "saving") /\ reader[c].todo = {}
    /\ Does(c, [Resting EXCEPT !.at = "reloading"])
    /\ UNCHANGED <<disk, draft, process, store, changed, edit, spoiled, count>>

\* Mutant: the configuration is replaced and nobody is told.
PutQuietly(r) ==
    /\ At(r, "reloading") /\ HasRead(r)
    /\ IF Usable(reader[r].got)
       THEN current' = Merged(reader[r].got) /\ Ends(r)
       ELSE Ends(r) /\ UNCHANGED current
    /\ UNCHANGED <<disk, draft, process, told, held, changed, edit, spoiled, count>>

\* ConfigStore::reload: put in force if it is usable, and everyone is told.
Put(r) ==
    /\ At(r, "reloading") /\ HasRead(r)
    /\ IF Usable(reader[r].got)
       THEN current' = Merged(reader[r].got) /\ told' = TRUE /\ Ends(r)
       ELSE Ends(r) /\ UNCHANGED <<current, told>>
    /\ UNCHANGED <<disk, draft, process, held, changed, edit, spoiled, count>>

-----------------------------------------------------------------------------
(* The watcher, the input loop, and the operator's editor. *)

\* next_reload: a change was waited for, and more of a burst may follow.
Notice ==
    /\ process = "on" /\ changed /\ reader[Watcher].at \in {"idle", "settling"}
    /\ changed' = FALSE
    /\ Does(Watcher, [Resting EXCEPT !.at = "settling"])
    /\ UNCHANGED <<disk, draft, process, store, edit, spoiled, count>>

\* Nothing came for the length of the debounce, in which a client that was
\* reading the files has long finished unless it is slow.
Settle ==
    /\ At(Watcher, "settling")
    /\ "slow reload" \in Allowed \/ \A c \in Clients : ~At(c, "reloading")
    /\ Does(Watcher, [Resting EXCEPT !.at = "reloading"])
    /\ UNCHANGED <<disk, draft, process, store, changed, edit, spoiled, count>>

\* The arm of the input loop that a reload wakes: reconfigure.
Adopt ==
    /\ process = "on" /\ told
    /\ held' = current /\ told' = FALSE
    /\ UNCHANGED <<disk, draft, process, current, changed, reader, edit, spoiled, count>>

\* The operator's editor writes a file in place: for a while it is half there.
Begin ==
    /\ draft = None /\ count.drafts < MostDrafts
    /\ process # "loaded" \/ "edit before watch" \in Allowed
    /\ \E d \in Drafts : draft' = d /\ Writes(d[1], Torn)
    /\ spoiled' = TRUE
    /\ count' = [count EXCEPT !.drafts = @ + 1]
    /\ UNCHANGED <<process, store, reader, edit>>

Finish ==
    /\ draft # None
    /\ process # "loaded" \/ "edit before watch" \in Allowed
    /\ Writes(draft[1], draft[2])
    /\ draft' = None
    /\ UNCHANGED <<process, store, reader, edit, spoiled, count>>

-----------------------------------------------------------------------------
(* PushOS comes and goes. *)

\* The process dies, and with it whatever its clients and its watcher were at.
Crash ==
    /\ process \in {"loaded", "on"} /\ count.crashes < MostCrashes
    /\ "crash while saving" \in Allowed
       \/ \A c \in Clients : At(c, "saving") => reader[c].todo = {}
    /\ count' = [count EXCEPT !.crashes = @ + 1]
    /\ process' = "off" /\ changed' = FALSE /\ told' = FALSE
    /\ reader' = [r \in Readers |-> Resting]
    /\ UNCHANGED <<disk, draft, current, held, edit, spoiled>>

\* ConfigStore::load at startup: PushOS starts with what is usable, or says
\* what is wrong and stops.
Start ==
    /\ process \in {"off", "refused"}
    /\ IF Usable(disk)
       THEN process' = "loaded" /\ current' = Merged(disk) /\ held' = Merged(disk)
       ELSE process' = "refused" /\ UNCHANGED <<current, held>>
    /\ UNCHANGED <<disk, draft, told, changed, reader, edit, spoiled, count>>

\* watch_configuration, once the configuration and the database are open.
Watch ==
    /\ process = "loaded"
    /\ process' = "on"
    /\ UNCHANGED <<disk, draft, store, changed, reader, edit, spoiled, count>>

Init ==
    /\ disk = FirstFiles
    /\ draft = None /\ process = "off"
    /\ current = Merged(<<>>) /\ held = Merged(<<>>) /\ told = FALSE
    /\ changed = FALSE
    /\ reader = [r \in Readers |-> Resting]
    /\ edit = [c \in Clients |-> None]
    /\ spoiled = FALSE
    /\ count = [edits |-> 0, drafts |-> 0, crashes |-> 0]

Next ==
    \/ \E c \in Clients : Ask(c) \/ Change(c) \/ Save(c) \/ Reread(c)
    \/ \E r \in Readers : Read(r) \/ Put(r)
    \/ Notice \/ Settle \/ Adopt \/ Begin \/ Finish \/ Crash \/ Start \/ Watch

\* What is under way in the process carries on: the watcher, the loop and the
\* handler of a request.  Nobody has to ask for anything, to finish what they
\* are writing, or to start PushOS again.
Fairness ==
    /\ \A c \in Clients : WF_vars(Change(c)) /\ WF_vars(Save(c)) /\ WF_vars(Reread(c))
    /\ \A r \in Readers : WF_vars(Read(r)) /\ WF_vars(Put(r))
    /\ WF_vars(Notice) /\ WF_vars(Settle) /\ WF_vars(Adopt) /\ WF_vars(Watch)

Spec == Init /\ [][Next]_vars /\ Fairness

-----------------------------------------------------------------------------
(* What holds. *)

Config == [pages : SUBSET Pages, bindings : SUBSET Binding]
Steps  == {"idle", "loading", "saving", "reloading", "settling"}

\* Every variable is of its kind; what is read, and what is to be written,
\* belongs to the step a reader is at.
TypeOK ==
    /\ DOMAIN disk = Files
    /\ \A f \in Files : disk[f] \in Contents
    /\ process \in {"off", "loaded", "on", "refused"}
    /\ current \in Config /\ held \in Config
    /\ told \in BOOLEAN /\ changed \in BOOLEAN /\ spoiled \in BOOLEAN
    /\ \A r \in Readers :
         /\ reader[r].at \in Steps
         /\ reader[r].got # <<>> => reader[r].at \in {"loading", "reloading"}
         /\ reader[r].todo # {} => reader[r].at = "saving"
    /\ \A c \in Clients : edit[c] \in Edits \cup {None}

\* The gestures a binding of one may answer: a turn, either way too.
AnsweredBy(gesture) ==
    {gesture} \cup (IF gesture = "turn" THEN {"turn_left", "turn_right"} ELSE {})

\* Whatever is touched, however hard, wherever the operator is, the surface
\* does one thing or nothing: of the configuration the input loop holds at
\* most one binding may answer.
EveryStrikeIsDecided ==
    \A key \in {[of |-> b.control, gesture |-> b.gesture] : b \in held.bindings} :
        \A gesture \in AnsweredBy(key.gesture), force \in Forces \cup {None}, context \in Context :
            LET strike == [control |-> key.of, gesture |-> gesture, force |-> force]
            IN Cardinality(Resolve(held.bindings, strike, context)) <= 1

\* What clients do to the files leaves them usable: unless the operator wrote
\* something, PushOS would start again with what is on the disk whenever no
\* client is in the middle of saving.
DiskStaysUsable ==
    (~spoiled /\ \A c \in Clients : ~At(c, "saving")) => Usable(disk)

\* What an operator wrote takes effect.  Once the files are left alone and are
\* usable, they are what is in force, and what the input loop resolves with.
EndsAsWritten ==
    <>[](process = "on" /\ Usable(disk) => current = Merged(disk) /\ held = current)

=============================================================================
