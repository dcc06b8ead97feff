---------------------------- MODULE WorkingTrees ----------------------------
(***************************************************************************)
(* Who works in which tree: the leases, the workspace manager and git      *)
(* (pushos-workspaces), with the sessions of the agent supervisor          *)
(* (pushos-agents) that claim a tree, work in it and give it back.         *)
(*                                                                         *)
(* The manager never holds its lock while git runs, and git takes seconds. *)
(* An action is the code between two points where it awaits; every other   *)
(* session, the operator and the tidying at start may act in between.      *)
(*                                                                         *)
(* A tree is made for one role of one project, and is named for it.        *)
(***************************************************************************)
EXTENDS Naturals, FiniteSets

CONSTANTS
    Projects,   \* the configured projects
    Isolated,   \* those that want their agents apart (isolate_agents)
    Roles,      \* the agent roles
    Sessions,   \* agent sessions
    Startup,    \* the task that tidies when PushOS starts
    None,       \* nothing
    Allowed     \* what the callers and the world may do, see Weather

Weather == {"git fails", "disk full", "start fails", "listed while adding",
            "asked again", "released again", "prompted again", "fleet",
            "unqualified"}

ASSUME ConstantsAssumption ==
    /\ Isolated \subseteq Projects /\ Roles # {}
    /\ Startup \notin Sessions
    /\ None \notin Projects \cup (Projects \X Roles)
    /\ Allowed \subseteq Weather

Tasks   == Sessions \cup {Startup}
Holders == Projects \X Roles
Trees   == Isolated \X Roles
-----------------------------------------------------------------------------
VARIABLES
    current,    \* the project in effect
    held,       \* the lease book: the tree each role of a project holds
    retired,    \* the trees being removed, or removed
    trees,      \* what is in each tree, as git would say
    untidied,   \* the projects the tidying task has still to come to
    pc,         \* what each session or task is in the middle of
    job,        \* the role a session fills, and the project it was asked for
    list,       \* the trees git listed for it
    path,       \* the tree it works in
    tree        \* the tree it is removing

vars == <<current, held, retired, trees, untidied, pc, job, list, path, tree>>

book == <<held, retired>>
own  == <<job, list, path, tree>>
-----------------------------------------------------------------------------
Pc == {"none", "find", "list", "book", "add", "take", "start", "working", "ended",
       "relist", "retire", "remove", "restore", "over", "tidy"}

Job  == [role: Roles, named: Projects \cup {None}, project: Projects \cup {None}]
NoJob == CHOOSE j \in Job : j.named = None /\ j.project = None

Asked(r, w)     == [role |-> r, named |-> w, project |-> None]
Placed(j, p)    == [role |-> j.role, named |-> j.named, project |-> p]
Holder(s)       == <<job[s].project, job[s].role>>

Goes(s, at) == pc' = [pc EXCEPT ![s] = at]

\* Where a removal leads when it is over.
Leaves(s) == /\ Goes(s, IF s = Startup THEN "tidy" ELSE "over")
             /\ tree' = [tree EXCEPT ![s] = None]

\* A session that is gone, or never came to be.
Vanishes(s) == /\ Goes(s, "none")
               /\ job' = [job EXCEPT ![s] = NoJob]
               /\ path' = [path EXCEPT ![s] = None]

Present(t) == trees[t] # "absent"

\* Mutant: a tree being removed may be handed out.
FreeUnlessHeld(t) == \A h \in Holders : held[h] # t

\* Mutant: a tree that is held may be handed out.
FreeUnlessRetired(t) == t \notin retired

\* is_free: nobody holds it and nobody is removing it.
Free(t) == t \notin retired /\ \A h \in Holders : held[h] # t

\* What `git worktree list` shows of a project's trees that PushOS made.
Listed(p) == {t \in Trees : t[1] = p /\ Present(t)}

\* git lists a tree from the moment it starts checking it out, which is before
\* the role it is made for is in the book.
MayList == "listed while adding" \in Allowed \/ \A t \in Tasks : pc[t] # "take"

\* workspace_for: the project asked for, or else the one in effect.
Found(j) == IF j.named # None THEN j.named ELSE current
-----------------------------------------------------------------------------
(* A session is asked for. *)

\* Mutant: a session that is still being started is not waited for.
AbsentUnlessLive(s, r, w) ==
    \A t \in Sessions \ {s} :
        ~(pc[t] = "working" /\ job[t].role = r /\ (w = None \/ job[t].named = w))

Starting(t) == pc[t] \in {"find", "list", "book", "add", "take", "start"}

\* resolve: no live session fills the role, and nobody holds the lock that
\* serialises starting it.
AbsentRole(s, r, w) ==
    \A t \in Sessions \ {s} :
        /\ ~(pc[t] = "working" /\ job[t].role = r /\ (w = None \/ job[t].named = w))
        /\ ~(Starting(t) /\ job[t].role = r /\ job[t].named = w)

\* recruit, the fleet's verb, asks neither.
Ask(s, r, w) ==
    /\ pc[s] = "none"
    /\ "fleet" \in Allowed \/ AbsentRole(s, r, w)
    /\ w = None => "unqualified" \in Allowed
    /\ \/ "asked again" \in Allowed
       \/ \A t \in Sessions : ~(pc[t] = "ended" /\ job[t].role = r)
    /\ job' = [job EXCEPT ![s] = Asked(r, w)]
    /\ Goes(s, "find")
    /\ UNCHANGED <<current, book, trees, untidied, list, path, tree>>

\* claim: without a project, or in one that does not isolate, everybody works in
\* one directory.
Find(s) ==
    /\ pc[s] = "find"
    /\ job' = [job EXCEPT ![s] = Placed(@, Found(@))]
    /\ Goes(s, IF Found(job[s]) \in Isolated THEN "list" ELSE "start")
    /\ UNCHANGED <<current, book, trees, untidied, list, path, tree>>

\* A claim that git, or the disk, refuses is the caller's error.
Refused(s) ==
    /\ \/ pc[s] \in {"list", "add"} /\ "git fails" \in Allowed
       \/ pc[s] = "add" /\ "disk full" \in Allowed
       \/ pc[s] = "add" /\ Present(Holder(s))
    /\ Vanishes(s)
    /\ UNCHANGED <<current, book, trees, untidied, list, tree>>

ListTrees(s) ==
    /\ pc[s] = "list" /\ MayList
    /\ list' = [list EXCEPT ![s] = Listed(job[s].project)]
    /\ Goes(s, "book")
    /\ UNCHANGED <<current, book, trees, untidied, job, path, tree>>

\* reuse: what the role already holds, or else any free tree of the list.
Reuse(s) ==
    /\ pc[s] = "book"
    /\ LET mine == held[Holder(s)]
       IN  \E t \in IF mine # None THEN {mine} ELSE {x \in list[s] : Free(x)} :
              /\ held' = [held EXCEPT ![Holder(s)] = t]
              /\ path' = [path EXCEPT ![s] = t]
    /\ list' = [list EXCEPT ![s] = {}]
    /\ Goes(s, "start")
    /\ UNCHANGED <<current, retired, trees, untidied, job, tree>>

ReuseNothing(s) ==
    /\ pc[s] = "book"
    /\ held[Holder(s)] = None /\ \A t \in list[s] : ~Free(t)
    /\ list' = [list EXCEPT ![s] = {}]
    /\ Goes(s, "add")
    /\ UNCHANGED <<current, book, trees, untidied, job, path, tree>>

\* git makes the tree at the role's own path, where there must be none.
AddTree(s) ==
    /\ pc[s] = "add" /\ ~Present(Holder(s))
    /\ trees' = [trees EXCEPT ![Holder(s)] = "clean"]
    /\ Goes(s, "take")
    /\ UNCHANGED <<current, book, untidied, own>>

\* Mutant: the tree made again stays set aside.
TakeRetired(s) ==
    /\ pc[s] = "take"
    /\ held' = [held EXCEPT ![Holder(s)] = Holder(s)]
    /\ path' = [path EXCEPT ![s] = Holder(s)]
    /\ Goes(s, "start")
    /\ UNCHANGED <<current, retired, trees, untidied, job, list, tree>>

Take(s) ==
    /\ pc[s] = "take"
    /\ held' = [held EXCEPT ![Holder(s)] = Holder(s)]
    /\ retired' = retired \ {Holder(s)}
    /\ path' = [path EXCEPT ![s] = Holder(s)]
    /\ Goes(s, "start")
    /\ UNCHANGED <<current, trees, untidied, job, list, tree>>

\* The backend starts the agent in the tree, and the registry has the session.
Started(s) ==
    /\ pc[s] = "start"
    /\ path[s] # None => Present(path[s])
    /\ Goes(s, "working")
    /\ UNCHANGED <<current, book, trees, untidied, own>>

\* The agent does not start.  What was claimed for it stays claimed.
StartFails(s) ==
    /\ pc[s] = "start"
    /\ "start fails" \in Allowed \/ (path[s] # None /\ ~Present(path[s]))
    /\ Vanishes(s)
    /\ UNCHANGED <<current, book, trees, untidied, list, tree>>
-----------------------------------------------------------------------------
(* A session works, and is done. *)

\* The agent changes files, or commits them.
Edits(s) ==
    /\ pc[s] = "working" /\ path[s] # None /\ Present(path[s])
    /\ \E state \in {"clean", "dirty"} : trees' = [trees EXCEPT ![path[s]] = state]
    /\ UNCHANGED <<current, book, untidied, pc, own>>

\* record: a turn that ended makes the session one that is no longer live.  The
\* same of a session that is stopped.
Ends(s) ==
    /\ pc[s] = "working"
    /\ Goes(s, "ended")
    /\ UNCHANGED <<current, book, trees, untidied, own>>

\* Mutant: the lease stays in the book.
GiveBackNothing(s) ==
    /\ pc[s] = "ended"
    /\ Goes(s, "over")
    /\ UNCHANGED <<current, book, trees, untidied, own>>

\* Mutant: the tree stays where it is.
GiveBackOnly(s) ==
    /\ pc[s] = "ended"
    /\ held' = [held EXCEPT ![<<Found(job[s]), job[s].role>>] = None]
    /\ Goes(s, "over")
    /\ UNCHANGED <<current, retired, trees, untidied, own>>

\* release: whatever the role holds in the project that is meant now.
GiveBack(s) ==
    /\ pc[s] = "ended"
    /\ LET holder == <<Found(job[s]), job[s].role>>
       IN  IF Found(job[s]) # None /\ held[holder] # None
           THEN /\ held' = [held EXCEPT ![holder] = None]
                /\ tree' = [tree EXCEPT ![s] = held[holder]]
                /\ Goes(s, "relist")
           ELSE /\ Goes(s, "over")
                /\ UNCHANGED <<held, tree>>
    /\ UNCHANGED <<current, retired, trees, untidied, job, list, path>>

\* remove_if_clean: is the tree still there, and is it ours?
Relist(s) ==
    /\ pc[s] = "relist" /\ MayList
    /\ \/ Present(tree[s]) /\ Goes(s, "retire") /\ UNCHANGED tree
       \/ (~Present(tree[s]) \/ "git fails" \in Allowed) /\ Leaves(s)
    /\ UNCHANGED <<current, book, trees, untidied, job, list, path>>

\* Mutant: a tree somebody holds is set aside.
RetireAnyway(s) ==
    /\ pc[s] = "retire"
    /\ retired' = retired \cup {tree[s]}
    /\ Goes(s, "remove")
    /\ UNCHANGED <<current, held, trees, untidied, job, list, path, tree>>

\* remove: set aside first, if it is free.
Retire(s) ==
    /\ pc[s] = "retire"
    /\ IF Free(tree[s])
       THEN retired' = retired \cup {tree[s]} /\ Goes(s, "remove") /\ UNCHANGED tree
       ELSE Leaves(s) /\ UNCHANGED retired
    /\ UNCHANGED <<current, held, trees, untidied, job, list, path>>

\* Then git removes it, unless it holds work nobody has committed.
Remove(s) ==
    /\ pc[s] = "remove"
    /\ \/ /\ trees[tree[s]] # "dirty"
          /\ trees' = [trees EXCEPT ![tree[s]] = "absent"]
          /\ Leaves(s)
       \/ /\ trees[tree[s]] = "dirty" \/ "git fails" \in Allowed
          /\ Goes(s, "restore")
          /\ UNCHANGED <<trees, tree>>
    /\ UNCHANGED <<current, book, untidied, job, list, path>>

Restore(s) ==
    /\ pc[s] = "restore"
    /\ retired' = retired \ {tree[s]}
    /\ Leaves(s)
    /\ UNCHANGED <<current, held, trees, untidied, job, list, path>>

\* A finished session keeps its place in the fleet and still takes prompts.
PromptAgain(s) ==
    /\ "prompted again" \in Allowed
    /\ pc[s] = "over"
    /\ Goes(s, "working")
    /\ UNCHANGED <<current, book, trees, untidied, own>>

\* Anything more that is heard of a finished session releases once more: its last
\* words, its process ending, the operator putting it away.
EndsAgain(s) ==
    /\ "released again" \in Allowed
    /\ pc[s] = "over"
    /\ Goes(s, "ended")
    /\ UNCHANGED <<current, book, trees, untidied, own>>

\* forget_stale, or the operator putting it away.
Forgotten(s) ==
    /\ pc[s] = "over"
    /\ Vanishes(s)
    /\ UNCHANGED <<current, book, trees, untidied, list, tree>>
-----------------------------------------------------------------------------
(* The tidying at start, and the operator. *)

TidyProject(p) ==
    /\ pc[Startup] = "tidy" /\ list[Startup] = {} /\ p \in untidied /\ MayList
    /\ untidied' = untidied \ {p}
    /\ \/ list' = [list EXCEPT ![Startup] = Listed(p)]
       \/ "git fails" \in Allowed /\ UNCHANGED list
    /\ UNCHANGED <<current, book, trees, pc, job, path, tree>>

TidyTree(t) ==
    /\ pc[Startup] = "tidy" /\ t \in list[Startup]
    /\ list' = [list EXCEPT ![Startup] = @ \ {t}]
    /\ tree' = [tree EXCEPT ![Startup] = t]
    /\ Goes(Startup, "retire")
    /\ UNCHANGED <<current, book, trees, untidied, job, path>>

\* select: the operator goes to a project, or leaves for none.
Select(p) ==
    /\ current' = p
    /\ UNCHANGED <<book, trees, untidied, pc, own>>
-----------------------------------------------------------------------------
\* The trees are what the last process left; nobody holds any.
Init ==
    /\ current = None
    /\ held = [h \in Holders |-> None]
    /\ retired = {}
    /\ trees \in [Trees -> {"absent", "clean", "dirty"}]
    /\ untidied = Isolated
    /\ pc = [s \in Tasks |-> IF s = Startup THEN "tidy" ELSE "none"]
    /\ job = [s \in Tasks |-> NoJob]
    /\ list = [s \in Tasks |-> {}]
    /\ path = [s \in Tasks |-> None]
    /\ tree = [s \in Tasks |-> None]

Claims(s) ==
    \/ Find(s) \/ Refused(s) \/ ListTrees(s) \/ Reuse(s) \/ ReuseNothing(s)
    \/ AddTree(s) \/ Take(s) \/ Started(s) \/ StartFails(s)

Finishes(s) ==
    \/ Edits(s) \/ Ends(s) \/ GiveBack(s) \/ Relist(s)
    \/ PromptAgain(s) \/ EndsAgain(s) \/ Forgotten(s)

Removes(s) == Retire(s) \/ Remove(s) \/ Restore(s)

Tidies == (\E p \in Projects : TidyProject(p)) \/ (\E t \in Trees : TidyTree(t))

Operator == \E p \in Projects \cup {None} : Select(p)

Next ==
    \/ \E s \in Sessions, r \in Roles, w \in Projects \cup {None} : Ask(s, r, w)
    \/ \E s \in Sessions : Claims(s) \/ Finishes(s)
    \/ \E s \in Tasks : Removes(s)
    \/ Tidies \/ Operator

Spec == Init /\ [][Next]_vars
-----------------------------------------------------------------------------
(* Properties. *)

\* Every variable has its type.
TypeOK ==
    /\ current \in Projects \cup {None}
    /\ held \in [Holders -> Trees \cup {None}]
    /\ retired \subseteq Trees
    /\ trees \in [Trees -> {"absent", "clean", "dirty"}]
    /\ untidied \subseteq Isolated
    /\ pc \in [Tasks -> Pc]
    /\ job \in [Tasks -> Job]
    /\ list \in [Tasks -> SUBSET Trees]
    /\ path \in [Tasks -> Trees \cup {None}]
    /\ tree \in [Tasks -> Trees \cup {None}]

\* "Two coding agents must never be handed the same working tree at the same
\* time": no two sessions work in one tree, however claims, finishing turns,
\* removals and the tidying at start interleave.
NoTreeShared ==
    \A s, t \in Sessions :
        pc[s] = "working" /\ pc[t] = "working" /\ path[s] # None /\ path[s] = path[t]
            => s = t

\* The lease book hands a tree to one role at a time.
OneHolderPerTree ==
    \A h, k \in Holders : held[h] # None /\ held[h] = held[k] => h = k

\* What the book says is held is there: a tree is not removed from under the role
\* that holds it, nor while it is being handed over.
HeldTreesExist == \A h \in Holders : held[h] # None => Present(held[h])

\* A session's tree is there for as long as it works in it.
TreeInUseStays ==
    \A s \in Sessions : pc[s] = "working" /\ path[s] # None => Present(path[s])

\* A role that holds a tree has a session that works there, is about to, or is
\* about to give it back: no lease is left over that nobody will return.
LeasesBelongToSomebody ==
    \A h \in Holders : held[h] # None =>
        \E s \in Sessions : /\ pc[s] \in {"start", "working", "ended"}
                            /\ Holder(s) = h

\* A tree set aside is being removed or made anew, or is gone: one that was kept
\* can be handed out again.
SetAsideComesBack ==
    \A t \in retired : Present(t) =>
        \E s \in Tasks : \/ pc[s] \in {"remove", "restore"} /\ tree[s] = t
                         \/ pc[s] = "take" /\ Holder(s) = t

\* "Trees left behind for every role would fill the disk": a clean tree that
\* nobody holds is about to be removed.
NoTreeLeftBehind ==
    \A t \in Trees : trees[t] = "clean" /\ Free(t) =>
        \/ t[1] \in untidied \/ t \in list[Startup]
        \/ \E s \in Tasks : \/ pc[s] \in {"relist", "retire"} /\ tree[s] = t
                            \/ pc[s] = "take" /\ Holder(s) = t
=============================================================================
