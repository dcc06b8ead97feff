------------------------- MODULE WorkingTreesProofs -------------------------
(***************************************************************************)
(* What holds of the lease book for every set of projects, roles and       *)
(* sessions, whatever the callers do and however git fails, as long as git *)
(* does not show a tree before it has been handed out ("listed while       *)
(* adding" is not allowed: a claim whose list shows a tree that is being   *)
(* made takes it for a free one).                                          *)
(*                                                                         *)
(* None of the three properties is inductive.  A claim acts on a list that *)
(* git gave it earlier, so the invariant speaks of what is still known of  *)
(* a tree that has gone (GoneIsSetAside), of a tree that is going          *)
(* (GoingIsSetAside, OneRemoverPerTree) and of a tree that has been made   *)
(* and is not yet in the book (TakerIsAlone).                              *)
(*                                                                         *)
(* What the sessions do with their trees is right only if a role has one   *)
(* session at a time: Callers, in the second half.                         *)
(***************************************************************************)
EXTENDS WorkingTrees, TLAPS

Removing(s) == pc[s] \in {"remove", "restore"}

\* Trees a session or task may still act on without asking git again.
Known(s) == list[s] \cup (IF pc[s] = "retire" THEN {tree[s]} ELSE {})

\* A session that is claiming a tree does so in a project that isolates, and one
\* that gives a tree back knows which.
ClaimingIsPlaced ==
    \A s \in Tasks : pc[s] \in {"list", "book", "add", "take"} => Holder(s) \in Trees
RemovingIsPlaced ==
    \A s \in Tasks : pc[s] \in {"relist", "retire", "remove", "restore"} => tree[s] \in Trees

HeldIsNotSetAside == \A h \in Holders : held[h] \notin retired

GoneIsSetAside ==
    \A s \in Tasks : \A t \in Known(s) : ~Present(t) => t \in retired

GoingIsSetAside ==
    \A s \in Tasks : Removing(s) => tree[s] \in retired /\ Present(tree[s])

OneRemoverPerTree ==
    \A s, u \in Tasks : Removing(s) /\ Removing(u) /\ tree[s] = tree[u] => s = u

\* A tree just made is there, and nobody else holds it, removes it, makes it or
\* may come to it by a list read earlier.
Alone(s) ==
    /\ Present(Holder(s))
    /\ \A h \in Holders : held[h] # Holder(s)
    /\ \A u \in Tasks : /\ Removing(u) => tree[u] # Holder(s)
                        /\ Holder(s) \in Known(u) => Holder(s) \in retired
                        /\ pc[u] = "take" /\ Holder(u) = Holder(s) => u = s

TakerIsAlone == \A s \in Tasks : pc[s] = "take" => Alone(s)

Typed == TypeOK /\ ClaimingIsPlaced /\ RemovingIsPlaced

BookOK ==
    /\ OneHolderPerTree /\ HeldTreesExist /\ SetAsideComesBack
    /\ HeldIsNotSetAside /\ GoneIsSetAside /\ GoingIsSetAside
    /\ OneRemoverPerTree /\ TakerIsAlone
-----------------------------------------------------------------------------
(* Types. *)

\* A session nobody has asked for yet has a job of the right type.
LEMMA NoJobLemma == NoJob \in Job
<1> DEFINE j == [role |-> CHOOSE r \in Roles : TRUE, named |-> None, project |-> None]
<1>1. (CHOOSE r \in Roles : TRUE) \in Roles
  BY ConstantsAssumption
<1>2. j \in Job /\ j.named = None /\ j.project = None
  BY <1>1 DEF Job
<1> QED BY <1>2, Zenon DEF NoJob

\* The jobs the supervisor and the manager write down are jobs.
LEMMA JobLemma ==
    /\ \A r \in Roles, w \in Projects \cup {None} : Asked(r, w) \in Job
    /\ \A j \in Job, p \in Projects \cup {None} :
          Placed(j, p) \in Job /\ Placed(j, p).project = p /\ Placed(j, p).role = j.role
    /\ \A j \in Job : j.role \in Roles /\ j.named \in Projects \cup {None}
                                         /\ j.project \in Projects \cup {None}
BY DEF Asked, Placed, Job

\* What the start of PushOS finds is typed.
LEMMA InitTyped == Init => Typed
BY ConstantsAssumption, NoJobLemma
   DEF Init, Typed, TypeOK, ClaimingIsPlaced, RemovingIsPlaced, Tasks, Pc, Holders

\* No step leaves the types.
LEMMA NextTyped == Typed /\ [Next]_vars => Typed'
<1> SUFFICES ASSUME Typed, [Next]_vars PROVE Typed'
  OBVIOUS
<1> USE ConstantsAssumption, NoJobLemma, JobLemma
<1> USE DEF Typed, TypeOK, ClaimingIsPlaced, RemovingIsPlaced, Holder, Tasks, Pc
<1>1. ASSUME NEW s \in Sessions, NEW r \in Roles, NEW w \in Projects \cup {None}, Ask(s, r, w)
      PROVE  Typed'
  BY <1>1 DEF Ask, Goes, book, own
<1>2. ASSUME NEW s \in Sessions, Find(s) PROVE Typed'
  <2>1. Found(job[s]) \in Projects \cup {None}
    BY DEF Found
  <2>2. TypeOK'
    BY <1>2, <2>1 DEF Find, Goes, book, own
  <2>3. Found(job[s]) \in Isolated => Holder(s)' \in Trees
    <3>1. job' = [job EXCEPT ![s] = Placed(job[s], Found(job[s]))]
      BY <1>2 DEF Find
    <3>2. job[s] \in Job /\ job'[s] = Placed(job[s], Found(job[s]))
      BY <3>1
    <3>3. job'[s].project = Found(job[s]) /\ job'[s].role \in Roles
      <4>1. job[s].role \in Roles
        BY <3>2
      <4>2. Placed(job[s], Found(job[s])) =
              [role |-> job[s].role, named |-> job[s].named, project |-> Found(job[s])]
        BY DEF Placed
      <4> QED BY <3>2, <4>1, <4>2
    <3> QED BY <3>3 DEF Trees
  <2>4. ClaimingIsPlaced'
    BY <1>2, <2>3 DEF Find, Goes
  <2>5. RemovingIsPlaced'
    BY <1>2 DEF Find, Goes
  <2> QED BY <2>2, <2>4, <2>5
<1>3. ASSUME NEW s \in Sessions, Refused(s) PROVE Typed'
  BY <1>3 DEF Refused, Vanishes, Goes, book, own
<1>4. ASSUME NEW s \in Sessions, ListTrees(s) PROVE Typed'
  BY <1>4 DEF ListTrees, Listed, Goes, book, own
<1>5. ASSUME NEW s \in Sessions, Reuse(s) PROVE Typed'
  <2>1. PICK t \in Trees : /\ held' = [held EXCEPT ![Holder(s)] = t]
                          /\ path' = [path EXCEPT ![s] = t]
    <3>1. Holder(s) \in Holders
      BY <1>5, ConstantsAssumption DEF Reuse, Trees, Holders
    <3>2. PICK t \in IF held[Holder(s)] # None THEN {held[Holder(s)]}
                                              ELSE {x \in list[s] : Free(x)} :
            /\ held' = [held EXCEPT ![Holder(s)] = t]
            /\ path' = [path EXCEPT ![s] = t]
      BY <1>5, Zenon DEF Reuse
    <3>3. t \in Trees
      BY <3>1, <3>2
    <3> QED BY <3>2, <3>3
  <2> QED BY <1>5, <2>1 DEF Reuse, Goes
<1>6. ASSUME NEW s \in Sessions, ReuseNothing(s) PROVE Typed'
  BY <1>6 DEF ReuseNothing, Goes, book, own
<1>7. ASSUME NEW s \in Sessions, AddTree(s) PROVE Typed'
  BY <1>7 DEF AddTree, Goes, book, own
<1>8. ASSUME NEW s \in Sessions, Take(s) PROVE Typed'
  BY <1>8 DEF Take, Goes, book, own
<1>9. ASSUME NEW s \in Sessions, Started(s) PROVE Typed'
  BY <1>9 DEF Started, Goes, book, own
<1>10. ASSUME NEW s \in Sessions, StartFails(s) PROVE Typed'
  BY <1>10 DEF StartFails, Vanishes, Goes, book, own
<1>11. ASSUME NEW s \in Sessions, Edits(s) PROVE Typed'
  <2>1. PICK state \in {"clean", "dirty"} : trees' = [trees EXCEPT ![path[s]] = state]
    BY <1>11 DEF Edits
  <2> QED BY <1>11, <2>1 DEF Edits, book, own
<1>12. ASSUME NEW s \in Sessions, Ends(s) PROVE Typed'
  BY <1>12 DEF Ends, Goes, book, own
<1>13. ASSUME NEW s \in Sessions, GiveBack(s) PROVE Typed'
  <2> DEFINE holder == <<Found(job[s]), job[s].role>>
  <2>1. CASE Found(job[s]) # None /\ held[holder] # None
    <3>1. holder \in Holders
      BY <2>1 DEF Found, Holders
    <3>2. held[holder] \in Trees
      BY <2>1, <3>1
    <3>3. /\ held' = [held EXCEPT ![holder] = None]
          /\ tree' = [tree EXCEPT ![s] = held[holder]]
          /\ pc' = [pc EXCEPT ![s] = "relist"]
          /\ UNCHANGED <<current, retired, trees, untidied, job, list, path>>
      BY <1>13, <2>1 DEF GiveBack, Goes
    <3> HIDE DEF holder
    <3> QED BY <3>2, <3>3
  <2>2. CASE ~(Found(job[s]) # None /\ held[holder] # None)
    <3>1. /\ Goes(s, "over") /\ UNCHANGED <<held, tree>>
          /\ UNCHANGED <<current, retired, trees, untidied, job, list, path>>
      BY <1>13, <2>2, Zenon DEF GiveBack
    <3> QED BY <3>1 DEF Goes
  <2> QED BY <2>1, <2>2
<1>14. ASSUME NEW s \in Sessions, Relist(s) PROVE Typed'
  <2>1. CASE Goes(s, "retire") /\ UNCHANGED tree
    BY <1>14, <2>1 DEF Relist, Goes, book
  <2>2. CASE Leaves(s)
    BY <1>14, <2>2 DEF Relist, Leaves, Goes, book
  <2> QED BY <1>14, <2>1, <2>2 DEF Relist
<1>15. ASSUME NEW s \in Sessions, PromptAgain(s) PROVE Typed'
  BY <1>15 DEF PromptAgain, Goes, book, own
<1>16. ASSUME NEW s \in Sessions, EndsAgain(s) PROVE Typed'
  BY <1>16 DEF EndsAgain, Goes, book, own
<1>17. ASSUME NEW s \in Sessions, Forgotten(s) PROVE Typed'
  BY <1>17 DEF Forgotten, Vanishes, Goes, book, own
<1>18. ASSUME NEW s \in Tasks, Retire(s) PROVE Typed'
  <2>1. CASE Free(tree[s])
    <3>1. /\ pc[s] = "retire" /\ retired' = retired \cup {tree[s]}
          /\ Goes(s, "remove") /\ UNCHANGED tree
          /\ UNCHANGED <<current, held, trees, untidied, job, list, path>>
      BY <1>18, <2>1, Zenon DEF Retire
    <3> QED BY <3>1 DEF Goes
  <2>2. CASE ~Free(tree[s])
    <3>1. /\ pc[s] = "retire" /\ Leaves(s) /\ UNCHANGED retired
          /\ UNCHANGED <<current, held, trees, untidied, job, list, path>>
      BY <1>18, <2>2, Zenon DEF Retire
    <3> QED BY <3>1 DEF Leaves, Goes
  <2> QED BY <2>1, <2>2
<1>19. ASSUME NEW s \in Tasks, Remove(s) PROVE Typed'
  <2>1. CASE trees' = [trees EXCEPT ![tree[s]] = "absent"] /\ Leaves(s)
    BY <1>19, <2>1 DEF Remove, Leaves, Goes, book
  <2>2. CASE Goes(s, "restore") /\ UNCHANGED <<trees, tree>>
    BY <1>19, <2>2 DEF Remove, Goes, book
  <2> QED BY <1>19, <2>1, <2>2 DEF Remove
<1>20. ASSUME NEW s \in Tasks, Restore(s) PROVE Typed'
  BY <1>20 DEF Restore, Leaves, Goes, book, own
<1>21. ASSUME NEW p \in Projects, TidyProject(p) PROVE Typed'
  <2>1. PICK found \in SUBSET Trees : list' = [list EXCEPT ![Startup] = found] \/ list' = list
    BY <1>21 DEF TidyProject, Listed
  <2> QED BY <1>21, <2>1 DEF TidyProject, book
<1>22. ASSUME NEW t \in Trees, TidyTree(t) PROVE Typed'
  BY <1>22 DEF TidyTree, Goes, book, own
<1>23. ASSUME NEW p \in Projects \cup {None}, Select(p) PROVE Typed'
  BY <1>23 DEF Select, book, own
<1>24. CASE UNCHANGED vars
  BY <1>24 DEF vars, book, own
<1> QED
  BY <1>1, <1>2, <1>3, <1>4, <1>5, <1>6, <1>7, <1>8, <1>9, <1>10, <1>11, <1>12, <1>13, <1>14, <1>15, <1>16, <1>17, <1>18, <1>19, <1>20, <1>21, <1>22, <1>23, <1>24
     DEF Next, Claims, Finishes, Removes, Tidies, Operator
-----------------------------------------------------------------------------
(* The book. *)

\* The other sessions and tasks are where they were.
OthersStay(s) ==
    \A u \in Tasks \ {s} :
        pc'[u] = pc[u] /\ job'[u] = job[u] /\ tree'[u] = tree[u] /\ list'[u] = list[u]

\* A step of s that neither hands out nor sets aside nor makes nor removes a tree:
\* it may give one back, or learn of trees that are there while none is being
\* made, and s is not making or removing one before or after it.
Quiet(s) ==
    /\ \A h \in Holders : held'[h] \in {held[h], None}
    /\ retired' = retired
    /\ \A t \in Trees : Present(t)' <=> Present(t)
    /\ OthersStay(s)
    /\ \A t \in Known(s)' : t \in Known(s) \/ (Present(t) /\ \A u \in Tasks : pc[u] # "take")
    /\ pc[s] \notin {"take", "remove", "restore"}
    /\ pc'[s] \notin {"take", "remove", "restore"}

\* Trees are told apart from nothing, and are named as their holders are.
LEMMA NoneIsNoTree == None \notin Trees /\ Trees \subseteq Holders
BY ConstantsAssumption DEF Trees, Holders

\* A quiet step keeps the book right.
LEMMA QuietLemma ==
    ASSUME Typed, Typed', BookOK, NEW s \in Tasks, Quiet(s)
    PROVE  BookOK'
<1> USE DEF Typed, Quiet, OthersStay
<1>1. OneHolderPerTree'
  BY DEF BookOK, OneHolderPerTree
<1>2. HeldTreesExist'
  BY DEF BookOK, HeldTreesExist, TypeOK
<1>3. SetAsideComesBack'
  BY DEF BookOK, SetAsideComesBack, TypeOK, Holder
<1>4. HeldIsNotSetAside'
  BY ConstantsAssumption, NoneIsNoTree DEF BookOK, HeldIsNotSetAside, TypeOK
<1>5. GoneIsSetAside'
  BY DEF BookOK, GoneIsSetAside, Known, TypeOK, RemovingIsPlaced
<1>6. GoingIsSetAside'
  BY DEF BookOK, GoingIsSetAside, Removing, RemovingIsPlaced
<1>7. OneRemoverPerTree'
  BY DEF BookOK, OneRemoverPerTree, Removing
<1>8. TakerIsAlone'
  <2> SUFFICES ASSUME NEW u \in Tasks, pc'[u] = "take" PROVE Alone(u)'
    BY DEF TakerIsAlone
  <2>1. u # s /\ pc[u] = "take" /\ Holder(u)' = Holder(u) /\ Holder(u) \in Trees
    <3>1. u # s
      OBVIOUS
    <3>2. pc[u] = "take" /\ job'[u] = job[u]
      BY <3>1
    <3> QED BY <3>1, <3>2 DEF Holder, ClaimingIsPlaced
  <2>2. Alone(u)
    BY <2>1 DEF BookOK, TakerIsAlone
  <2>3. Present(Holder(u))' /\ \A h \in Holders : held'[h] # Holder(u)'
    BY <2>1, <2>2, NoneIsNoTree DEF Alone
  <2>4. ASSUME NEW v \in Tasks
        PROVE  /\ Removing(v)' => tree'[v] # Holder(u)'
               /\ Holder(u)' \in Known(v)' => Holder(u)' \in retired'
               /\ pc'[v] = "take" /\ Holder(v)' = Holder(u)' => v = u
    BY <2>1, <2>2 DEF Alone, Removing, Known, Holder
  <2> QED BY <2>3, <2>4 DEF Alone
<1> QED BY <1>1, <1>2, <1>3, <1>4, <1>5, <1>6, <1>7, <1>8 DEF BookOK

\* Handing out a free tree that is known.
LEMMA HandOutLemma ==
    ASSUME Typed, Typed', BookOK, NEW s \in Tasks,
           NEW t \in Known(s), Free(t), t \in Trees, pc[s] = "book", pc'[s] = "start",
           held' = [held EXCEPT ![Holder(s)] = t], Holder(s) \in Holders,
           retired' = retired, trees' = trees, OthersStay(s),
           list'[s] = {}, job'[s] = job[s], tree'[s] = tree[s]
    PROVE  BookOK'
<1> USE NoneIsNoTree DEF Typed, OthersStay, Present
<1>0. /\ t \notin retired /\ Present(t)
      /\ \A u \in Tasks : pc[u] = "take" => Holder(u) # t
  <2>1. t \in Known(s) /\ t \notin retired
    BY DEF Free, Known
  <2>2. Present(t)
    BY <2>1 DEF BookOK, GoneIsSetAside
  <2>3. ASSUME NEW u \in Tasks, pc[u] = "take" PROVE Holder(u) # t
    BY <2>1, <2>3 DEF BookOK, TakerIsAlone, Alone
  <2> QED BY <2>1, <2>2, <2>3
<1> USE <1>0
<1>1. OneHolderPerTree'
  BY DEF BookOK, OneHolderPerTree, Free, TakerIsAlone, Alone
<1>2. HeldTreesExist'
  BY DEF BookOK, HeldTreesExist, TypeOK, GoneIsSetAside, HeldIsNotSetAside, GoingIsSetAside, TakerIsAlone, Alone
<1>3. SetAsideComesBack'
  BY SMTT(20) DEF BookOK, SetAsideComesBack, TypeOK, Holder, Removing, TakerIsAlone, Alone
<1>4. HeldIsNotSetAside'
  BY DEF BookOK, HeldIsNotSetAside, TypeOK, Free, TakerIsAlone, Alone
<1>5. GoneIsSetAside'
  BY DEF BookOK, GoneIsSetAside, Known, TypeOK, RemovingIsPlaced, GoingIsSetAside, TakerIsAlone, Alone
<1>6. GoingIsSetAside'
  BY DEF BookOK, GoingIsSetAside, Removing, RemovingIsPlaced, OneRemoverPerTree, TakerIsAlone, Alone
<1>7. OneRemoverPerTree'
  BY DEF BookOK, OneRemoverPerTree, Removing, GoingIsSetAside, Free
<1>8. TakerIsAlone'
  <2> SUFFICES ASSUME NEW u \in Tasks, pc'[u] = "take" PROVE Alone(u)'
    BY DEF TakerIsAlone
  <2>1. u # s /\ pc[u] = "take" /\ Holder(u)' = Holder(u) /\ Holder(u) \in Trees
    <3>1. u # s
      OBVIOUS
    <3>2. pc[u] = "take" /\ job'[u] = job[u]
      BY <3>1
    <3> QED BY <3>1, <3>2 DEF Holder, ClaimingIsPlaced
  <2>2. Alone(u)
    BY <2>1 DEF BookOK, TakerIsAlone
  <2>3. Present(Holder(u))' /\ \A h \in Holders : held'[h] # Holder(u)'
    BY <2>1, <2>2, NoneIsNoTree DEF Alone
  <2>4. ASSUME NEW v \in Tasks
        PROVE  /\ Removing(v)' => tree'[v] # Holder(u)'
               /\ Holder(u)' \in Known(v)' => Holder(u)' \in retired'
               /\ pc'[v] = "take" /\ Holder(v)' = Holder(u)' => v = u
    BY <2>1, <2>2 DEF Alone, Removing, Known, Holder
  <2> QED BY <2>3, <2>4 DEF Alone
<1> QED BY <1>1, <1>2, <1>3, <1>4, <1>5, <1>6, <1>7, <1>8 DEF BookOK

\* Making a tree where there is none.
LEMMA MakeLemma ==
    ASSUME Typed, Typed', BookOK, NEW s \in Tasks,
           NEW t \in Trees, t = Holder(s), ~Present(t), pc[s] = "add", pc'[s] = "take",
           trees' = [trees EXCEPT ![t] = "clean"],
           held' = held, retired' = retired, OthersStay(s),
           list'[s] = list[s], job'[s] = job[s], tree'[s] = tree[s]
    PROVE  BookOK'
<1> USE NoneIsNoTree DEF Typed, OthersStay, Present
<1>1. OneHolderPerTree'
  BY DEF BookOK, OneHolderPerTree, Free, TakerIsAlone, Alone
<1>2. HeldTreesExist'
  BY DEF BookOK, HeldTreesExist, TypeOK, GoneIsSetAside, HeldIsNotSetAside, GoingIsSetAside, TakerIsAlone, Alone
<1>3. SetAsideComesBack'
  BY DEF BookOK, SetAsideComesBack, TypeOK, Holder, Removing, TakerIsAlone, Alone
<1>4. HeldIsNotSetAside'
  BY DEF BookOK, HeldIsNotSetAside, TypeOK, Free, TakerIsAlone, Alone
<1>5. GoneIsSetAside'
  BY DEF BookOK, GoneIsSetAside, Known, TypeOK, RemovingIsPlaced, GoingIsSetAside, TakerIsAlone, Alone
<1>6. GoingIsSetAside'
  BY DEF BookOK, GoingIsSetAside, Removing, RemovingIsPlaced, OneRemoverPerTree, TakerIsAlone, Alone
<1>7. OneRemoverPerTree'
  BY DEF BookOK, OneRemoverPerTree, Removing, GoingIsSetAside, Free
<1>8. TakerIsAlone'
  <2>1. ASSUME NEW u \in Tasks, pc'[u] = "take", u # s
        PROVE  Alone(u)'
    <3>1. pc[u] = "take" /\ Holder(u)' = Holder(u) /\ Holder(u) \in Trees
      BY <2>1 DEF Holder, ClaimingIsPlaced
    <3>2. Alone(u) /\ Holder(u) # t
      BY <2>1, <3>1 DEF BookOK, TakerIsAlone, Alone
    <3>3. Present(Holder(u))' /\ \A h \in Holders : held'[h] # Holder(u)'
      BY <3>1, <3>2 DEF Alone
    <3>4. ASSUME NEW v \in Tasks
          PROVE  /\ Removing(v)' => tree'[v] # Holder(u)'
                 /\ Holder(u)' \in Known(v)' => Holder(u)' \in retired'
                 /\ pc'[v] = "take" /\ Holder(v)' = Holder(u)' => v = u
      BY <3>1, <3>2, SMTT(20) DEF Alone, Removing, Known, Holder
    <3> QED BY <3>3, <3>4 DEF Alone
  <2>2. Alone(s)'
    <3>1. Holder(s)' = t
      BY DEF Holder
    <3>2. Present(Holder(s))' /\ \A h \in Holders : held'[h] # Holder(s)'
      BY <3>1 DEF BookOK, HeldTreesExist, TypeOK
    <3>3. ASSUME NEW v \in Tasks
          PROVE  /\ Removing(v)' => tree'[v] # Holder(s)'
                 /\ Holder(s)' \in Known(v)' => Holder(s)' \in retired'
      BY <3>1 DEF BookOK, GoneIsSetAside, GoingIsSetAside, Removing, Known
    <3>4. ASSUME NEW v \in Tasks, pc'[v] = "take", v # s
          PROVE  Holder(v)' # Holder(s)'
      <4>1. pc[v] = "take" /\ Holder(v)' = Holder(v)
        BY <3>4 DEF Holder
      <4>2. Present(Holder(v))
        BY <4>1 DEF BookOK, TakerIsAlone, Alone
      <4> QED BY <3>1, <4>1, <4>2
    <3> QED BY <3>2, <3>3, <3>4 DEF Alone
  <2> QED BY <2>1, <2>2 DEF TakerIsAlone
<1> QED BY <1>1, <1>2, <1>3, <1>4, <1>5, <1>6, <1>7, <1>8 DEF BookOK

\* Writing the tree just made in the book.
LEMMA TakeLemma ==
    ASSUME Typed, Typed', BookOK, NEW s \in Tasks,
           NEW t \in Trees, t = Holder(s), pc[s] = "take", pc'[s] = "start",
           held' = [held EXCEPT ![t] = t], retired' = retired \ {t},
           trees' = trees, OthersStay(s),
           list'[s] = list[s], job'[s] = job[s], tree'[s] = tree[s]
    PROVE  BookOK'
<1> USE NoneIsNoTree DEF Typed, OthersStay, Present
<1>1. OneHolderPerTree'
  BY DEF BookOK, OneHolderPerTree, Free, TakerIsAlone, Alone
<1>2. HeldTreesExist'
  BY DEF BookOK, HeldTreesExist, TypeOK, GoneIsSetAside, HeldIsNotSetAside, GoingIsSetAside, TakerIsAlone, Alone
<1>3. SetAsideComesBack'
  BY DEF BookOK, SetAsideComesBack, TypeOK, Holder, Removing, TakerIsAlone, Alone
<1>4. HeldIsNotSetAside'
  BY DEF BookOK, HeldIsNotSetAside, TypeOK, Free, TakerIsAlone, Alone
<1>5. GoneIsSetAside'
  BY DEF BookOK, GoneIsSetAside, Known, TypeOK, RemovingIsPlaced, GoingIsSetAside, TakerIsAlone, Alone
<1>6. GoingIsSetAside'
  BY DEF BookOK, GoingIsSetAside, Removing, RemovingIsPlaced, OneRemoverPerTree, TakerIsAlone, Alone
<1>7. OneRemoverPerTree'
  BY DEF BookOK, OneRemoverPerTree, Removing, GoingIsSetAside, Free
<1>8. TakerIsAlone'
  <2> SUFFICES ASSUME NEW u \in Tasks, pc'[u] = "take" PROVE Alone(u)'
    BY DEF TakerIsAlone
  <2>1. u # s /\ pc[u] = "take" /\ Holder(u)' = Holder(u) /\ Holder(u) \in Trees
    <3>1. u # s
      OBVIOUS
    <3>2. pc[u] = "take" /\ job'[u] = job[u]
      BY <3>1
    <3> QED BY <3>1, <3>2 DEF Holder, ClaimingIsPlaced
  <2>2. Alone(u)
    BY <2>1 DEF BookOK, TakerIsAlone
  <2>3. Present(Holder(u))' /\ \A h \in Holders : held'[h] # Holder(u)'
    BY <2>1, <2>2, NoneIsNoTree DEF Alone
  <2>4. ASSUME NEW v \in Tasks
        PROVE  /\ Removing(v)' => tree'[v] # Holder(u)'
               /\ Holder(u)' \in Known(v)' => Holder(u)' \in retired'
               /\ pc'[v] = "take" /\ Holder(v)' = Holder(u)' => v = u
    BY <2>1, <2>2, ZenonT(60) DEF Alone, Removing, Known, Holder
  <2> QED BY <2>3, <2>4 DEF Alone
<1> QED BY <1>1, <1>2, <1>3, <1>4, <1>5, <1>6, <1>7, <1>8 DEF BookOK

\* Setting aside a tree nobody holds.
LEMMA RetireLemma ==
    ASSUME Typed, Typed', BookOK, NEW s \in Tasks,
           NEW t \in Trees, t = tree[s], Free(t), pc[s] = "retire", pc'[s] = "remove",
           retired' = retired \cup {t},
           held' = held, trees' = trees, OthersStay(s),
           list'[s] = list[s], job'[s] = job[s], tree'[s] = tree[s]
    PROVE  BookOK'
<1> USE NoneIsNoTree DEF Typed, OthersStay, Present
<1>0. /\ t \notin retired /\ Present(t)
      /\ \A u \in Tasks : pc[u] = "take" => Holder(u) # t
  <2>1. t \in Known(s) /\ t \notin retired
    BY DEF Free, Known
  <2>2. Present(t)
    BY <2>1 DEF BookOK, GoneIsSetAside
  <2>3. ASSUME NEW u \in Tasks, pc[u] = "take" PROVE Holder(u) # t
    BY <2>1, <2>3 DEF BookOK, TakerIsAlone, Alone
  <2> QED BY <2>1, <2>2, <2>3
<1> USE <1>0
<1>1. OneHolderPerTree'
  BY DEF BookOK, OneHolderPerTree, Free, TakerIsAlone, Alone
<1>2. HeldTreesExist'
  BY DEF BookOK, HeldTreesExist, TypeOK, GoneIsSetAside, HeldIsNotSetAside, GoingIsSetAside, TakerIsAlone, Alone
<1>3. SetAsideComesBack'
  BY DEF BookOK, SetAsideComesBack, TypeOK, Holder, Removing, TakerIsAlone, Alone
<1>4. HeldIsNotSetAside'
  BY DEF BookOK, HeldIsNotSetAside, TypeOK, Free, TakerIsAlone, Alone
<1>5. GoneIsSetAside'
  BY DEF BookOK, GoneIsSetAside, Known, TypeOK, RemovingIsPlaced, GoingIsSetAside, TakerIsAlone, Alone
<1>6. GoingIsSetAside'
  BY DEF BookOK, GoingIsSetAside, Removing, RemovingIsPlaced, OneRemoverPerTree, TakerIsAlone, Alone
<1>7. OneRemoverPerTree'
  BY DEF BookOK, OneRemoverPerTree, Removing, GoingIsSetAside, Free
<1>8. TakerIsAlone'
  <2> SUFFICES ASSUME NEW u \in Tasks, pc'[u] = "take" PROVE Alone(u)'
    BY DEF TakerIsAlone
  <2>1. u # s /\ pc[u] = "take" /\ Holder(u)' = Holder(u) /\ Holder(u) \in Trees
    <3>1. u # s
      OBVIOUS
    <3>2. pc[u] = "take" /\ job'[u] = job[u]
      BY <3>1
    <3> QED BY <3>1, <3>2 DEF Holder, ClaimingIsPlaced
  <2>2. Alone(u)
    BY <2>1 DEF BookOK, TakerIsAlone
  <2>3. Present(Holder(u))' /\ \A h \in Holders : held'[h] # Holder(u)'
    BY <2>1, <2>2, NoneIsNoTree DEF Alone
  <2>4. ASSUME NEW v \in Tasks
        PROVE  /\ Removing(v)' => tree'[v] # Holder(u)'
               /\ Holder(u)' \in Known(v)' => Holder(u)' \in retired'
               /\ pc'[v] = "take" /\ Holder(v)' = Holder(u)' => v = u
    BY <2>1, <2>2 DEF Alone, Removing, Known, Holder
  <2> QED BY <2>3, <2>4 DEF Alone
<1> QED BY <1>1, <1>2, <1>3, <1>4, <1>5, <1>6, <1>7, <1>8 DEF BookOK

\* Removing it.
LEMMA RemoveLemma ==
    ASSUME Typed, Typed', BookOK, NEW s \in Tasks,
           NEW t \in Trees, t = tree[s], pc[s] = "remove", pc'[s] \in {"tidy", "over"},
           trees' = [trees EXCEPT ![t] = "absent"],
           held' = held, retired' = retired, OthersStay(s),
           list'[s] = list[s], job'[s] = job[s]
    PROVE  BookOK'
<1> USE NoneIsNoTree DEF Typed, OthersStay, Present
<1>0. /\ t \in retired /\ Present(t)
      /\ \A h \in Holders : held[h] # t
      /\ \A u \in Tasks : pc[u] = "take" => Holder(u) # t
      /\ \A u \in Tasks : Removing(u) /\ tree[u] = t => u = s
  <2>1. t \in retired /\ Present(t)
    BY DEF BookOK, GoingIsSetAside, Removing
  <2>2. ASSUME NEW u \in Tasks, pc[u] = "take" PROVE Holder(u) # t
    BY <2>2 DEF BookOK, TakerIsAlone, Alone, Removing
  <2> QED BY <2>1, <2>2 DEF BookOK, HeldIsNotSetAside, OneRemoverPerTree, Removing
<1> USE <1>0
<1>1. OneHolderPerTree'
  BY DEF BookOK, OneHolderPerTree, Free, TakerIsAlone, Alone
<1>2. HeldTreesExist'
  BY DEF BookOK, HeldTreesExist, TypeOK, GoneIsSetAside, HeldIsNotSetAside, GoingIsSetAside, TakerIsAlone, Alone
<1>3. SetAsideComesBack'
  BY DEF BookOK, SetAsideComesBack, TypeOK, Holder, Removing, TakerIsAlone, Alone
<1>4. HeldIsNotSetAside'
  BY DEF BookOK, HeldIsNotSetAside, TypeOK, Free, TakerIsAlone, Alone
<1>5. GoneIsSetAside'
  BY DEF BookOK, GoneIsSetAside, Known, TypeOK, RemovingIsPlaced, GoingIsSetAside, TakerIsAlone, Alone
<1>6. GoingIsSetAside'
  BY DEF BookOK, GoingIsSetAside, Removing, RemovingIsPlaced, OneRemoverPerTree, TakerIsAlone, Alone
<1>7. OneRemoverPerTree'
  BY DEF BookOK, OneRemoverPerTree, Removing, GoingIsSetAside, Free
<1>8. TakerIsAlone'
  <2> SUFFICES ASSUME NEW u \in Tasks, pc'[u] = "take" PROVE Alone(u)'
    BY DEF TakerIsAlone
  <2>1. u # s /\ pc[u] = "take" /\ Holder(u)' = Holder(u) /\ Holder(u) \in Trees
    <3>1. u # s
      OBVIOUS
    <3>2. pc[u] = "take" /\ job'[u] = job[u]
      BY <3>1
    <3> QED BY <3>1, <3>2 DEF Holder, ClaimingIsPlaced
  <2>2. Alone(u)
    BY <2>1 DEF BookOK, TakerIsAlone
  <2>3. Present(Holder(u))' /\ \A h \in Holders : held'[h] # Holder(u)'
    BY <2>1, <2>2, NoneIsNoTree DEF Alone
  <2>4. ASSUME NEW v \in Tasks
        PROVE  /\ Removing(v)' => tree'[v] # Holder(u)'
               /\ Holder(u)' \in Known(v)' => Holder(u)' \in retired'
               /\ pc'[v] = "take" /\ Holder(v)' = Holder(u)' => v = u
    BY <2>1, <2>2, ZenonT(60) DEF Alone, Removing, Known, Holder
  <2> QED BY <2>3, <2>4 DEF Alone
<1> QED BY <1>1, <1>2, <1>3, <1>4, <1>5, <1>6, <1>7, <1>8 DEF BookOK

\* Failing to.
LEMMA KeepLemma ==
    ASSUME Typed, Typed', BookOK, NEW s \in Tasks,
           pc[s] = "remove", pc'[s] = "restore",
           trees' = trees, held' = held, retired' = retired, OthersStay(s),
           list'[s] = list[s], job'[s] = job[s], tree'[s] = tree[s]
    PROVE  BookOK'
<1> USE NoneIsNoTree DEF Typed, OthersStay, Present
<1>1. OneHolderPerTree'
  BY DEF BookOK, OneHolderPerTree, Free, TakerIsAlone, Alone
<1>2. HeldTreesExist'
  BY DEF BookOK, HeldTreesExist, TypeOK, GoneIsSetAside, HeldIsNotSetAside, GoingIsSetAside, TakerIsAlone, Alone
<1>3. SetAsideComesBack'
  BY DEF BookOK, SetAsideComesBack, TypeOK, Holder, Removing, TakerIsAlone, Alone
<1>4. HeldIsNotSetAside'
  BY DEF BookOK, HeldIsNotSetAside, TypeOK, Free, TakerIsAlone, Alone
<1>5. GoneIsSetAside'
  BY DEF BookOK, GoneIsSetAside, Known, TypeOK, RemovingIsPlaced, GoingIsSetAside, TakerIsAlone, Alone
<1>6. GoingIsSetAside'
  BY DEF BookOK, GoingIsSetAside, Removing, RemovingIsPlaced, OneRemoverPerTree, TakerIsAlone, Alone
<1>7. OneRemoverPerTree'
  BY DEF BookOK, OneRemoverPerTree, Removing, GoingIsSetAside, Free
<1>8. TakerIsAlone'
  <2> SUFFICES ASSUME NEW u \in Tasks, pc'[u] = "take" PROVE Alone(u)'
    BY DEF TakerIsAlone
  <2>1. u # s /\ pc[u] = "take" /\ Holder(u)' = Holder(u) /\ Holder(u) \in Trees
    <3>1. u # s
      OBVIOUS
    <3>2. pc[u] = "take" /\ job'[u] = job[u]
      BY <3>1
    <3> QED BY <3>1, <3>2 DEF Holder, ClaimingIsPlaced
  <2>2. Alone(u)
    BY <2>1 DEF BookOK, TakerIsAlone
  <2>3. Present(Holder(u))' /\ \A h \in Holders : held'[h] # Holder(u)'
    BY <2>1, <2>2, NoneIsNoTree DEF Alone
  <2>4. ASSUME NEW v \in Tasks
        PROVE  /\ Removing(v)' => tree'[v] # Holder(u)'
               /\ Holder(u)' \in Known(v)' => Holder(u)' \in retired'
               /\ pc'[v] = "take" /\ Holder(v)' = Holder(u)' => v = u
    BY <2>1, <2>2 DEF Alone, Removing, Known, Holder
  <2> QED BY <2>3, <2>4 DEF Alone
<1> QED BY <1>1, <1>2, <1>3, <1>4, <1>5, <1>6, <1>7, <1>8 DEF BookOK

\* Putting it back.
LEMMA RestoreLemma ==
    ASSUME Typed, Typed', BookOK, NEW s \in Tasks,
           NEW t \in Trees, t = tree[s], pc[s] = "restore", pc'[s] \in {"tidy", "over"},
           retired' = retired \ {t}, trees' = trees, held' = held, OthersStay(s),
           list'[s] = list[s], job'[s] = job[s]
    PROVE  BookOK'
<1> USE NoneIsNoTree DEF Typed, OthersStay, Present
<1>0. /\ t \in retired /\ Present(t)
      /\ \A h \in Holders : held[h] # t
      /\ \A u \in Tasks : pc[u] = "take" => Holder(u) # t
      /\ \A u \in Tasks : Removing(u) /\ tree[u] = t => u = s
  <2>1. t \in retired /\ Present(t)
    BY DEF BookOK, GoingIsSetAside, Removing
  <2>2. ASSUME NEW u \in Tasks, pc[u] = "take" PROVE Holder(u) # t
    BY <2>2 DEF BookOK, TakerIsAlone, Alone, Removing
  <2> QED BY <2>1, <2>2 DEF BookOK, HeldIsNotSetAside, OneRemoverPerTree, Removing
<1> USE <1>0
<1>1. OneHolderPerTree'
  BY DEF BookOK, OneHolderPerTree, Free, TakerIsAlone, Alone
<1>2. HeldTreesExist'
  BY DEF BookOK, HeldTreesExist, TypeOK, GoneIsSetAside, HeldIsNotSetAside, GoingIsSetAside, TakerIsAlone, Alone
<1>3. SetAsideComesBack'
  BY SMTT(20) DEF BookOK, SetAsideComesBack, TypeOK, Holder, Removing, TakerIsAlone, Alone
<1>4. HeldIsNotSetAside'
  BY DEF BookOK, HeldIsNotSetAside, TypeOK, Free, TakerIsAlone, Alone
<1>5. GoneIsSetAside'
  BY DEF BookOK, GoneIsSetAside, Known, TypeOK, RemovingIsPlaced, GoingIsSetAside, TakerIsAlone, Alone
<1>6. GoingIsSetAside'
  BY DEF BookOK, GoingIsSetAside, Removing, RemovingIsPlaced, OneRemoverPerTree, TakerIsAlone, Alone
<1>7. OneRemoverPerTree'
  BY DEF BookOK, OneRemoverPerTree, Removing, GoingIsSetAside, Free
<1>8. TakerIsAlone'
  <2> SUFFICES ASSUME NEW u \in Tasks, pc'[u] = "take" PROVE Alone(u)'
    BY DEF TakerIsAlone
  <2>1. u # s /\ pc[u] = "take" /\ Holder(u)' = Holder(u) /\ Holder(u) \in Trees
    <3>1. u # s
      OBVIOUS
    <3>2. pc[u] = "take" /\ job'[u] = job[u]
      BY <3>1
    <3> QED BY <3>1, <3>2 DEF Holder, ClaimingIsPlaced
  <2>2. Alone(u)
    BY <2>1 DEF BookOK, TakerIsAlone
  <2>3. Present(Holder(u))' /\ \A h \in Holders : held'[h] # Holder(u)'
    BY <2>1, <2>2, NoneIsNoTree DEF Alone
  <2>4. ASSUME NEW v \in Tasks
        PROVE  /\ Removing(v)' => tree'[v] # Holder(u)'
               /\ Holder(u)' \in Known(v)' => Holder(u)' \in retired'
               /\ pc'[v] = "take" /\ Holder(v)' = Holder(u)' => v = u
    BY <2>1, <2>2, ZenonT(60) DEF Alone, Removing, Known, Holder
  <2> QED BY <2>3, <2>4 DEF Alone
<1> QED BY <1>1, <1>2, <1>3, <1>4, <1>5, <1>6, <1>7, <1>8 DEF BookOK

\* An agent at work takes no tree away, and makes none.
LEMMA EditsLemma ==
    ASSUME Typed, NEW s \in Sessions, Edits(s)
    PROVE  \A t \in Trees : Present(t)' <=> Present(t)
<1>1. trees \in [Trees -> {"absent", "clean", "dirty"}]
  BY DEF Typed, TypeOK
<1>2. trees[path[s]] # "absent"
  BY DEF Edits, Present
<1>3. PICK state \in {"clean", "dirty"} : trees' = [trees EXCEPT ![path[s]] = state]
  BY DEF Edits
<1>4. \A t \in Trees : trees'[t] = IF t = path[s] THEN state ELSE trees[t]
  BY <1>1, <1>3
<1>5. state # "absent"
  BY <1>3
<1> QED
  BY <1>2, <1>4, <1>5, Zenon DEF Present

\* Every step is one of these.
LEMMA NextBook ==
    ASSUME "listed while adding" \notin Allowed, Typed, Typed', BookOK, [Next]_vars
    PROVE  BookOK'
<1> USE ConstantsAssumption, NoneIsNoTree DEF Typed, TypeOK, Tasks, Pc, Goes
<1>1. ASSUME NEW s \in Sessions, NEW r \in Roles, NEW w \in Projects \cup {None}, Ask(s, r, w)
      PROVE  BookOK'
  <2>1. Quiet(s)
    BY <1>1 DEF Ask, Quiet, OthersStay, Known, book, own, Present
  <2> QED BY <2>1, QuietLemma
<1>2. ASSUME NEW s \in Sessions, Find(s) PROVE BookOK'
  <2>1. Quiet(s)
    BY <1>2 DEF Find, Quiet, OthersStay, Known, book, own, Present
  <2> QED BY <2>1, QuietLemma
<1>3. ASSUME NEW s \in Sessions, Refused(s) PROVE BookOK'
  <2>1. Quiet(s)
    BY <1>3 DEF Refused, Vanishes, Quiet, OthersStay, Known, book, own, Present
  <2> QED BY <2>1, QuietLemma
<1>4. ASSUME NEW s \in Sessions, ReuseNothing(s) PROVE BookOK'
  <2>1. Quiet(s)
    BY <1>4 DEF ReuseNothing, Quiet, OthersStay, Known, book, own, Present
  <2> QED BY <2>1, QuietLemma
<1>5. ASSUME NEW s \in Sessions, Started(s) PROVE BookOK'
  <2>1. Quiet(s)
    BY <1>5 DEF Started, Quiet, OthersStay, Known, book, own, Present
  <2> QED BY <2>1, QuietLemma
<1>6. ASSUME NEW s \in Sessions, StartFails(s) PROVE BookOK'
  <2>1. Quiet(s)
    BY <1>6 DEF StartFails, Vanishes, Quiet, OthersStay, Known, book, own, Present
  <2> QED BY <2>1, QuietLemma
<1>7. ASSUME NEW s \in Sessions, Edits(s) PROVE BookOK'
  <2>1. /\ pc[s] = "working" /\ path[s] # None /\ Present(path[s])
        /\ UNCHANGED <<held, retired, pc, job, list, tree>>
    BY <1>7 DEF Edits, book, own
  <2>2. Quiet(s)
    BY <1>7, <2>1, EditsLemma DEF Quiet, OthersStay, Known
  <2> QED BY <2>2, QuietLemma
<1>8. ASSUME NEW s \in Sessions, Ends(s) PROVE BookOK'
  <2>1. Quiet(s)
    BY <1>8 DEF Ends, Quiet, OthersStay, Known, book, own, Present
  <2> QED BY <2>1, QuietLemma
<1>9. ASSUME NEW s \in Sessions, PromptAgain(s) PROVE BookOK'
  <2>1. Quiet(s)
    BY <1>9 DEF PromptAgain, Quiet, OthersStay, Known, book, own, Present
  <2> QED BY <2>1, QuietLemma
<1>10. ASSUME NEW s \in Sessions, EndsAgain(s) PROVE BookOK'
  <2>1. Quiet(s)
    BY <1>10 DEF EndsAgain, Quiet, OthersStay, Known, book, own, Present
  <2> QED BY <2>1, QuietLemma
<1>11. ASSUME NEW s \in Sessions, Forgotten(s) PROVE BookOK'
  <2>1. Quiet(s)
    BY <1>11 DEF Forgotten, Vanishes, Quiet, OthersStay, Known, book, own, Present
  <2> QED BY <2>1, QuietLemma
<1>12. ASSUME NEW s \in Sessions, ListTrees(s) PROVE BookOK'
  <2>1. Quiet(s)
    BY <1>12 DEF ListTrees, MayList, Listed, Quiet, OthersStay, Known, book, own, Present
  <2> QED BY <2>1, QuietLemma
<1>13. ASSUME NEW t \in Trees, TidyTree(t) PROVE BookOK'
  <2>1. Quiet(Startup)
    BY <1>13 DEF TidyTree, Quiet, OthersStay, Known, book, own, Present
  <2> QED BY <2>1, QuietLemma
<1>14. ASSUME NEW s \in Sessions, Relist(s) PROVE BookOK'
  <2>1. Quiet(s)
    BY <1>14, ZenonT(60) DEF Relist, Leaves, MayList, Quiet, OthersStay, Known, book, own, Present
  <2> QED BY <2>1, QuietLemma
<1>15. ASSUME NEW p \in Projects, TidyProject(p) PROVE BookOK'
  <2>1. Listed(p) \subseteq Trees /\ \A t \in Listed(p) : Present(t)
    BY DEF Listed
  <2>2. \/ list' = [list EXCEPT ![Startup] = Listed(p)]
        \/ list' = list
    BY <1>15 DEF TidyProject
  <2>3. /\ pc[Startup] = "tidy" /\ \A t \in Tasks : pc[t] # "take"
        /\ UNCHANGED <<held, retired, trees, pc, job, tree>>
    BY <1>15 DEF TidyProject, MayList, book
  <2>4. \A t \in Known(Startup)' : t \in Known(Startup) \/ Present(t)
    BY <2>1, <2>2, <2>3 DEF Known
  <2>5. Quiet(Startup)
    BY <2>2, <2>3, <2>4 DEF Quiet, OthersStay, Present
  <2> QED BY <2>5, QuietLemma
<1>16. ASSUME NEW s \in Sessions, Reuse(s) PROVE BookOK'
  <2>1. Holder(s) \in Holders /\ pc[s] = "book"
    BY <1>16 DEF Reuse, ClaimingIsPlaced
  <2>2. CASE held[Holder(s)] # None
    <3>1. held' = [held EXCEPT ![Holder(s)] = held[Holder(s)]]
      BY <1>16, <2>2, Zenon DEF Reuse
    <3>2. held' = held
      BY <3>1
    <3>3. Quiet(s)
      BY <1>16, <2>1, <3>2 DEF Reuse, Quiet, OthersStay, Known, Present
    <3> QED BY <3>3, QuietLemma
  <2>3. CASE held[Holder(s)] = None
    <3>1. PICK t \in {x \in list[s] : Free(x)} : held' = [held EXCEPT ![Holder(s)] = t]
      BY <1>16, <2>3, Zenon DEF Reuse
    <3>2. t \in Known(s) /\ Free(t) /\ t \in Trees
      BY <3>1 DEF Known
    <3> QED BY <1>16, <2>1, <3>1, <3>2, HandOutLemma DEF Reuse, OthersStay
  <2> QED BY <2>2, <2>3
<1>17. ASSUME NEW s \in Sessions, GiveBack(s) PROVE BookOK'
  <2> DEFINE holder == <<Found(job[s]), job[s].role>>
  <2>1. /\ pc[s] = "ended" /\ UNCHANGED <<retired, trees, job, list>>
        /\ \/ /\ held' = [held EXCEPT ![holder] = None]
              /\ tree' = [tree EXCEPT ![s] = held[holder]]
              /\ pc' = [pc EXCEPT ![s] = "relist"]
           \/ held' = held /\ tree' = tree /\ pc' = [pc EXCEPT ![s] = "over"]
    BY <1>17, Zenon DEF GiveBack
  <2> HIDE DEF holder
  <2>2. \A h \in Holders : held'[h] \in {held[h], None}
    BY <2>1, ZenonT(60)
  <2>3. Quiet(s)
    BY <2>1, <2>2, ZenonT(60) DEF Quiet, OthersStay, Known, Present
  <2> QED BY <2>3, QuietLemma
<1>18. ASSUME NEW s \in Sessions, AddTree(s) PROVE BookOK'
  <2>1. Holder(s) \in Trees
    BY <1>18 DEF AddTree, ClaimingIsPlaced
  <2> QED BY <1>18, <2>1, MakeLemma DEF AddTree, OthersStay, book, own
<1>19. ASSUME NEW s \in Sessions, Take(s) PROVE BookOK'
  <2>1. Holder(s) \in Trees
    BY <1>19 DEF Take, ClaimingIsPlaced
  <2> QED BY <1>19, <2>1, TakeLemma DEF Take, OthersStay
<1>20. ASSUME NEW s \in Tasks, Retire(s) PROVE BookOK'
  <2>1. tree[s] \in Trees /\ pc[s] = "retire"
    BY <1>20 DEF Retire, RemovingIsPlaced
  <2>2. CASE Free(tree[s])
    <3>1. /\ retired' = retired \cup {tree[s]} /\ pc' = [pc EXCEPT ![s] = "remove"]
          /\ UNCHANGED <<held, trees, job, list, tree>>
      BY <1>20, <2>2, Zenon DEF Retire
    <3> QED BY <2>1, <2>2, <3>1, RetireLemma DEF OthersStay
  <2>3. CASE ~Free(tree[s])
    <3>1. Leaves(s) /\ UNCHANGED <<held, retired, trees, job, list>>
      BY <1>20, <2>3, Zenon DEF Retire
    <3>2. Quiet(s)
      BY <2>1, <3>1 DEF Leaves, Quiet, OthersStay, Known, Present
    <3> QED BY <3>2, QuietLemma
  <2> QED BY <2>2, <2>3
<1>21. ASSUME NEW s \in Tasks, Remove(s) PROVE BookOK'
  <2>1. tree[s] \in Trees /\ pc[s] = "remove"
    BY <1>21 DEF Remove, RemovingIsPlaced
  <2>2. CASE trees' = [trees EXCEPT ![tree[s]] = "absent"] /\ Leaves(s)
    BY <1>21, <2>1, <2>2, RemoveLemma DEF Remove, Leaves, OthersStay, book
  <2>3. CASE Goes(s, "restore") /\ UNCHANGED <<trees, tree>>
    BY <1>21, <2>1, <2>3, KeepLemma DEF Remove, OthersStay, book
  <2> QED BY <1>21, <2>2, <2>3 DEF Remove
<1>22. ASSUME NEW s \in Tasks, Restore(s) PROVE BookOK'
  <2>1. tree[s] \in Trees /\ pc[s] = "restore"
    BY <1>22 DEF Restore, RemovingIsPlaced
  <2> QED BY <1>22, <2>1, RestoreLemma DEF Restore, Leaves, OthersStay
<1>23. ASSUME UNCHANGED <<held, retired, trees, pc, job, list, tree>> PROVE BookOK'
  BY <1>23, ZenonT(60) DEF BookOK, OneHolderPerTree, HeldTreesExist, SetAsideComesBack, HeldIsNotSetAside, GoneIsSetAside, GoingIsSetAside, OneRemoverPerTree, TakerIsAlone, Alone, Known, Removing, Present, Holder
<1>24. ASSUME NEW p \in Projects \cup {None}, Select(p) PROVE BookOK'
  BY <1>23, <1>24 DEF Select, book, own
<1>25. CASE UNCHANGED vars
  BY <1>23, <1>25 DEF vars
<1> QED
  BY <1>1, <1>2, <1>3, <1>4, <1>5, <1>6, <1>7, <1>8, <1>9, <1>10, <1>11, <1>12, <1>13, <1>14, <1>15, <1>16, <1>17, <1>18, <1>19, <1>20, <1>21, <1>22, <1>24, <1>25
     DEF Next, Claims, Finishes, Removes, Tidies, Operator
-----------------------------------------------------------------------------
(* The theorems. *)

\* Every variable keeps its type.
THEOREM TypeCorrect == Spec => []TypeOK
<1>1. Typed => TypeOK
  BY DEF Typed
<1> QED BY InitTyped, NextTyped, <1>1, PTL DEF Spec

\* An empty book is right.
LEMMA InitBook == Init => BookOK
BY NoneIsNoTree
   DEF Init, BookOK, OneHolderPerTree, HeldTreesExist, SetAsideComesBack, HeldIsNotSetAside,
       GoneIsSetAside, GoingIsSetAside, OneRemoverPerTree, TakerIsAlone, Known, Removing

\* The book is right at all times.
LEMMA BookLemma ==
    ASSUME "listed while adding" \notin Allowed
    PROVE  Spec => [](Typed /\ BookOK)
<1>1. Init => Typed /\ BookOK
  BY InitTyped, InitBook
<1>2. Typed /\ BookOK /\ [Next]_vars => (Typed /\ BookOK)'
  BY NextTyped, NextBook
<1> QED BY <1>1, <1>2, PTL DEF Spec

\* The lease book never gives one tree to two roles, however claims, releases,
\* removals and the tidying at start interleave.
THEOREM OneHolder ==
    ASSUME "listed while adding" \notin Allowed
    PROVE  Spec => []OneHolderPerTree
<1>1. Typed /\ BookOK => OneHolderPerTree
  BY DEF BookOK
<1> QED BY BookLemma, <1>1, PTL

\* A tree the book says is held is there: no removal takes it from under its
\* holder, and no claim is answered from a list with a tree that has gone.
THEOREM HeldExist ==
    ASSUME "listed while adding" \notin Allowed
    PROVE  Spec => []HeldTreesExist
<1>1. Typed /\ BookOK => HeldTreesExist
  BY DEF BookOK
<1> QED BY BookLemma, <1>1, PTL

\* A tree that was set aside and is still there is on its way out or in use
\* again: none is refused for ever.
THEOREM ComesBack ==
    ASSUME "listed while adding" \notin Allowed
    PROVE  Spec => []SetAsideComesBack
<1>1. Typed /\ BookOK => SetAsideComesBack
  BY DEF BookOK
<1> QED BY BookLemma, <1>1, PTL
-----------------------------------------------------------------------------
(* Who works where.  The book alone does not keep two sessions apart: it   *)
(* hands a role the tree it holds, however often it asks.  What keeps them *)
(* apart is that a role of a project has one session at a time, from the   *)
(* moment it is asked for until it has given its tree back.                *)

\* A session that fills its role, from being asked for to giving back.
Filling(s) == Starting(s) \/ pc[s] \in {"working", "ended"}

\* One that has been given its place, and has it still.
Settled(s) == pc[s] \in {"start", "working", "ended"}

OnePerRole ==
    \A s, u \in Sessions :
        Filling(s) /\ Filling(u) /\ job[s].role = job[u].role /\ job[s].named = job[u].named
            => s = u

\* It works in the project it was asked for, and knows which.
InItsProject(s) ==
    Filling(s) => /\ job[s].named # None
                  /\ pc[s] # "find" => job[s].project = job[s].named

\* It works in the tree its role holds, where there are trees.
InItsTree(s) ==
    Settled(s) => IF Holder(s) \in Trees THEN held[Holder(s)] = path[s] /\ path[s] # None
                                         ELSE path[s] = None

NoTreeYet(s) ==
    pc[s] \in {"none", "find", "list", "book", "add", "take"} => path[s] = None

\* A tree is made for a role that holds none.
HoldsNothing(s) == pc[s] \in {"add", "take"} => held[Holder(s)] = None

PlacedWell(s) == InItsProject(s) /\ InItsTree(s) /\ NoTreeYet(s) /\ HoldsNothing(s)

Callers == OnePerRole /\ \A s \in Sessions : PlacedWell(s)

\* A role is asked for when nobody fills it, for a project, and what is over is
\* over; git shows no tree before it is handed out.
OneSessionARole ==
    Allowed \cap {"fleet", "asked again", "prompted again", "released again", "unqualified",
                  "listed while adding"} = {}

LEMMA OneSessionWords ==
    ASSUME OneSessionARole
    PROVE  /\ "fleet" \notin Allowed /\ "asked again" \notin Allowed
           /\ "prompted again" \notin Allowed /\ "released again" \notin Allowed
           /\ "unqualified" \notin Allowed /\ "listed while adding" \notin Allowed
BY Zenon DEF OneSessionARole

\* A step of one session, which changes no lease but its own, and fills a role
\* only if it filled it before or nobody else does.
LEMMA CallersStep ==
    ASSUME Typed, Typed', Callers, NEW s \in Tasks,
           \A u \in Sessions \ {s} : pc'[u] = pc[u] /\ job'[u] = job[u] /\ path'[u] = path[u],
           s \in Sessions /\ Filling(s)' =>
               \A u \in Sessions \ {s} :
                   ~(Filling(u) /\ job[u].role = job'[s].role /\ job[u].named = job'[s].named),
           \A h \in Holders : held'[h] # held[h] =>
               s \in Sessions /\ Filling(s) /\ pc[s] # "find" /\ h = Holder(s),
           s \in Sessions => PlacedWell(s)'
    PROVE  Callers'
<1> USE DEF PlacedWell
<1>1. \A u \in Sessions \ {s} : Filling(u)' <=> Filling(u)
  BY DEF Filling, Starting
<1>2. OnePerRole'
  <2> SUFFICES ASSUME NEW u \in Sessions, NEW v \in Sessions, Filling(u)', Filling(v)',
                      job'[u].role = job'[v].role, job'[u].named = job'[v].named
               PROVE  u = v
    BY DEF OnePerRole
  <2>1. CASE u # s /\ v # s
    BY <1>1, <2>1 DEF Callers, OnePerRole
  <2>2. CASE u = s /\ v # s
    BY <1>1, <2>2
  <2>3. CASE v = s /\ u # s
    BY <1>1, <2>3
  <2> QED
    BY <2>1, <2>2, <2>3
<1>3. ASSUME NEW u \in Sessions, u # s, Filling(u), pc[u] # "find", Holder(u) \in Holders
      PROVE  held'[Holder(u)] = held[Holder(u)]
  <2> SUFFICES ASSUME held'[Holder(u)] # held[Holder(u)] PROVE FALSE
    OBVIOUS
  <2>1. s \in Sessions /\ Filling(s) /\ pc[s] # "find" /\ Holder(u) = Holder(s)
    BY <1>3
  <2>2. job[u].project = job[s].project /\ job[u].role = job[s].role
    BY <2>1 DEF Holder
  <2>3. job[u].named = job[s].named
    BY <1>3, <2>1, <2>2 DEF Callers, InItsProject
  <2> QED
    BY <1>3, <2>1, <2>2, <2>3 DEF Callers, OnePerRole
<1>4. ASSUME NEW u \in Sessions, u # s PROVE PlacedWell(u)'
  <2>1. InItsProject(u)' /\ NoTreeYet(u)'
    BY <1>1, <1>4 DEF Callers, InItsProject, NoTreeYet
  <2>2. ASSUME Settled(u)', Holder(u) \in Trees
        PROVE  held'[Holder(u)] = path[u] /\ path[u] # None
    <3>1. held[Holder(u)] = path[u] /\ path[u] # None
      BY <1>4, <2>2 DEF Callers, InItsTree, Settled
    <3>2. Filling(u) /\ pc[u] # "find"
      BY <1>4, <2>2 DEF Settled, Filling, Starting
    <3> QED
      BY <1>3, <1>4, <2>2, <3>1, <3>2, NoneIsNoTree
  <2>3. Settled(u)' /\ Holder(u) \notin Trees => path[u] = None
    BY <1>4 DEF Callers, InItsTree, Settled
  <2>4. Holder(u)' = Holder(u) /\ path'[u] = path[u]
    BY <1>4 DEF Holder
  <2>5. HoldsNothing(u)'
    <3> SUFFICES ASSUME pc[u] \in {"add", "take"} PROVE held'[Holder(u)] = None
      BY <1>4, <2>4 DEF HoldsNothing
    <3>1. Filling(u) /\ pc[u] # "find" /\ Holder(u) \in Holders
      BY NoneIsNoTree DEF Filling, Starting, Typed, ClaimingIsPlaced, Tasks
    <3>2. held[Holder(u)] = None
      BY DEF Callers, HoldsNothing
    <3> QED
      BY <1>3, <1>4, <3>1, <3>2
  <2> QED
    BY <2>1, <2>2, <2>3, <2>4, <2>5 DEF InItsTree
<1> QED
  BY <1>2, <1>4 DEF Callers

\* A session that goes on filling its role for the same project.
LEMMA StillFilling ==
    ASSUME Callers, NEW s \in Sessions, Filling(s),
           job'[s].role = job[s].role, job'[s].named = job[s].named
    PROVE  \A u \in Sessions \ {s} :
               ~(Filling(u) /\ job[u].role = job'[s].role /\ job[u].named = job'[s].named)
BY DEF Callers, OnePerRole

\* The holder of a placed session.
LEMMA HolderLemma ==
    ASSUME Typed, NEW s \in Tasks
    PROVE  /\ job[s] \in Job /\ job[s].role \in Roles
           /\ Holder(s) \in Trees <=> job[s].project \in Isolated
           /\ job[s].project \in Projects => Holder(s) \in Holders
BY JobLemma DEF Typed, TypeOK, Holder, Trees, Holders

\* Every step keeps the sessions of a role one at a time.
LEMMA NextCallers ==
    ASSUME OneSessionARole, Typed, Typed', BookOK, Callers, [Next]_vars
    PROVE  Callers'
<1> USE ConstantsAssumption, NoneIsNoTree DEF Typed, TypeOK, Tasks, Goes
<1> USE DEF Filling, Starting, PlacedWell
<1> DEFINE Moves(s, from, to) == pc[s] \in from /\ pc' = [pc EXCEPT ![s] = to]
           Clear(s) == \A u \in Sessions \ {s} :
               ~(Filling(u) /\ job[u].role = job'[s].role /\ job[u].named = job'[s].named)
\* A step that changes no lease and takes no session to its place.
<1>0. ASSUME NEW s \in Tasks, held' = held,
             \A u \in Sessions \ {s} :
                 pc'[u] = pc[u] /\ job'[u] = job[u] /\ path'[u] = path[u],
             s \in Sessions =>
                 /\ Filling(s)' => /\ Filling(s) /\ job'[s] = job[s] /\ path'[s] = path[s]
                                   /\ pc'[s] # "find" => pc[s] # "find"
                 /\ Settled(s)' => Settled(s)
                 /\ NoTreeYet(s)'
                 /\ pc'[s] \in {"add", "take"} => pc[s] \in {"add", "take"} \/ held[Holder(s)] = None
      PROVE  Callers'
  <2>1. ASSUME s \in Sessions PROVE InItsProject(s)'
    BY <1>0, <2>1 DEF Callers, InItsProject
  <2>2. ASSUME s \in Sessions, Settled(s)'
        PROVE  Settled(s) /\ Holder(s)' = Holder(s) /\ path'[s] = path[s]
    <3>1. Settled(s) /\ Filling(s)'
      BY <1>0, <2>2 DEF Settled
    <3> QED
      BY <1>0, <2>2, <3>1 DEF Holder
  <2>3. ASSUME s \in Sessions PROVE InItsTree(s)'
    BY <1>0, <2>2, <2>3 DEF Callers, InItsTree
  <2>4. ASSUME s \in Sessions, Filling(s)' PROVE Clear(s)
    BY <1>0, <2>4, StillFilling
  <2>5. ASSUME s \in Sessions, pc'[s] \in {"add", "take"} PROVE held'[Holder(s)'] = None
    <3>1. Holder(s)' = Holder(s)
      BY <1>0, <2>5 DEF Holder
    <3> QED
      BY <1>0, <2>5, <3>1 DEF Callers, HoldsNothing
  <2>6. s \in Sessions => HoldsNothing(s)'
    BY <2>5 DEF HoldsNothing
  <2> QED
    BY <1>0, <2>1, <2>3, <2>4, <2>6, CallersStep
<1>1. ASSUME NEW s \in Sessions, NEW r \in Roles, NEW w \in Projects \cup {None}, Ask(s, r, w)
      PROVE  Callers'
  <2>1. /\ pc[s] = "none" /\ w # None /\ AbsentRole(s, r, w)
        /\ \A u \in Sessions : ~(pc[u] = "ended" /\ job[u].role = r)
    BY <1>1, OneSessionWords, Zenon DEF Ask
  <2>2. /\ job' = [job EXCEPT ![s] = Asked(r, w)] /\ pc' = [pc EXCEPT ![s] = "find"]
        /\ UNCHANGED <<held, path>>
    BY <1>1 DEF Ask, book
  <2>3. job'[s] = Asked(r, w)
    BY <2>2
  <2>4. job'[s].role = r /\ job'[s].named = w
    BY <2>3 DEF Asked
  <2>5. ASSUME NEW u \in Sessions \ {s}
        PROVE  ~(Filling(u) /\ job[u].role = r /\ job[u].named = w)
    BY <2>1 DEF AbsentRole
  <2>6. InItsProject(s)' /\ InItsTree(s)'
    BY <2>1, <2>2, <2>4 DEF InItsProject, InItsTree, Settled
  <2>7. NoTreeYet(s)' /\ HoldsNothing(s)'
    BY <2>1, <2>2 DEF Callers, NoTreeYet, HoldsNothing
  <2> QED
    BY <2>2, <2>4, <2>5, <2>6, <2>7, CallersStep
<1>2. ASSUME NEW s \in Sessions, Find(s) PROVE Callers'
  <2>1. /\ pc[s] = "find" /\ job' = [job EXCEPT ![s] = Placed(job[s], Found(job[s]))]
        /\ UNCHANGED <<held, path>>
    BY <1>2 DEF Find, book
  <2>2. pc' = [pc EXCEPT ![s] = IF Found(job[s]) \in Isolated THEN "list" ELSE "start"]
    BY <1>2 DEF Find
  <2>3. job'[s] = Placed(job[s], Found(job[s])) /\ job[s] \in Job
    BY <2>1
  <2>4. job[s].named # None
    BY <2>1 DEF Callers, InItsProject
  <2>5. Found(job[s]) = job[s].named /\ job[s].named \in Projects
    BY <2>3, <2>4, JobLemma DEF Found
  <2>6. /\ job'[s].role = job[s].role /\ job'[s].named = job[s].named
        /\ job'[s].project = job[s].named
    BY <2>3, <2>5 DEF Placed
  <2>7. InItsProject(s)' /\ NoTreeYet(s)' /\ HoldsNothing(s)'
    BY <2>1, <2>2, <2>4, <2>6 DEF Callers, InItsProject, NoTreeYet, HoldsNothing
  <2>8. Holder(s)' \in Trees <=> job'[s].project \in Isolated
    <3>1. job'[s].role \in Roles
      BY <2>3, <2>6, JobLemma
    <3> QED
      BY <3>1 DEF Holder, Trees
  <2>9. Settled(s)' => Holder(s)' \notin Trees /\ path'[s] = None
    BY <2>1, <2>2, <2>5, <2>6, <2>8 DEF Callers, NoTreeYet, Settled
  <2>10. InItsTree(s)'
    BY <2>9 DEF InItsTree
  <2>11. Clear(s)
    BY <2>1, <2>6, StillFilling
  <2> QED
    BY <2>1, <2>2, <2>7, <2>10, <2>11, CallersStep
<1>3. ASSUME NEW s \in Sessions, Vanishes(s), held' = held PROVE Callers'
  <2>1. pc' = [pc EXCEPT ![s] = "none"] /\ job' = [job EXCEPT ![s] = NoJob]
        /\ path' = [path EXCEPT ![s] = None]
    BY <1>3 DEF Vanishes
  <2> QED
    BY <1>0, <1>3, <2>1 DEF NoTreeYet, Settled
<1>4. ASSUME NEW s \in Sessions, Refused(s) PROVE Callers'
  BY <1>3, <1>4 DEF Refused, book
<1>5. ASSUME NEW s \in Sessions, ListTrees(s) PROVE Callers'
  BY <1>0, <1>5 DEF ListTrees, book, NoTreeYet, Settled, Callers
<1>6. ASSUME NEW s \in Sessions, NEW t \in Trees, pc[s] \in {"book", "take"},
             pc' = [pc EXCEPT ![s] = "start"], job' = job,
             held' = [held EXCEPT ![Holder(s)] = t], path' = [path EXCEPT ![s] = t]
      PROVE  Callers'
  <2>1. Holder(s) \in Trees
    BY <1>6 DEF ClaimingIsPlaced
  <2>2. held'[Holder(s)] = t /\ path'[s] = t /\ Holder(s)' = Holder(s)
    BY <1>6, <2>1 DEF Holder
  <2>3. InItsTree(s)'
    BY <2>1, <2>2 DEF InItsTree
  <2>4. InItsProject(s)' /\ NoTreeYet(s)' /\ HoldsNothing(s)'
    BY <1>6 DEF Callers, InItsProject, NoTreeYet, HoldsNothing
  <2>5. Clear(s)
    BY <1>6, StillFilling
  <2>6. \A h \in Holders : held'[h] # held[h] => h = Holder(s)
    BY <1>6
  <2> QED
    BY <1>6, <2>3, <2>4, <2>5, <2>6, CallersStep
<1>7. ASSUME NEW s \in Sessions, Reuse(s) PROVE Callers'
  <2>1. Holder(s) \in Holders
    BY <1>7 DEF Reuse, ClaimingIsPlaced
  <2>2. PICK t \in IF held[Holder(s)] # None THEN {held[Holder(s)]}
                                            ELSE {x \in list[s] : Free(x)} :
            /\ held' = [held EXCEPT ![Holder(s)] = t]
            /\ path' = [path EXCEPT ![s] = t]
    BY <1>7, Zenon DEF Reuse
  <2>3. t \in Trees
    BY <2>1, <2>2
  <2> QED
    BY <1>6, <1>7, <2>2, <2>3 DEF Reuse
<1>8. ASSUME NEW s \in Sessions, ReuseNothing(s) PROVE Callers'
  BY <1>0, <1>8 DEF ReuseNothing, book, NoTreeYet, Settled, Callers
<1>9. ASSUME NEW s \in Sessions, AddTree(s) PROVE Callers'
  BY <1>0, <1>9 DEF AddTree, book, own, NoTreeYet, Settled, Callers
<1>10. ASSUME NEW s \in Sessions, Take(s) PROVE Callers'
  <2>1. Holder(s) \in Trees
    BY <1>10 DEF Take, ClaimingIsPlaced
  <2> QED
    BY <1>6, <1>10, <2>1 DEF Take
<1>11. ASSUME NEW s \in Sessions, Started(s) PROVE Callers'
  BY <1>0, <1>11 DEF Started, book, own, NoTreeYet, Settled, Callers
<1>12. ASSUME NEW s \in Sessions, StartFails(s) PROVE Callers'
  BY <1>3, <1>12 DEF StartFails, book
<1>13. ASSUME NEW s \in Sessions, Edits(s) PROVE Callers'
  BY <1>0, <1>13 DEF Edits, book, own, NoTreeYet, Settled, Callers
<1>14. ASSUME NEW s \in Sessions, Ends(s) PROVE Callers'
  BY <1>0, <1>14 DEF Ends, book, own, NoTreeYet, Settled, Callers
<1>15. ASSUME NEW s \in Sessions, GiveBack(s) PROVE Callers'
  <2> DEFINE holder == <<Found(job[s]), job[s].role>>
  <2>1. /\ pc[s] = "ended" /\ UNCHANGED <<job, path>>
        /\ \/ held' = [held EXCEPT ![holder] = None] /\ pc' = [pc EXCEPT ![s] = "relist"]
           \/ held' = held /\ pc' = [pc EXCEPT ![s] = "over"]
    BY <1>15, Zenon DEF GiveBack
  <2>2. holder = Holder(s)
    BY <2>1 DEF Callers, InItsProject, Found, Holder
  <2> HIDE DEF holder
  <2>3. \A h \in Holders : held'[h] # held[h] => h = Holder(s)
    BY <2>1, <2>2
  <2>4. pc'[s] \in {"relist", "over"}
    BY <2>1
  <2>5. PlacedWell(s)'
    BY <2>4 DEF InItsProject, InItsTree, NoTreeYet, HoldsNothing, Settled
  <2> QED
    BY <2>1, <2>3, <2>4, <2>5, CallersStep
\* A removal goes on: no session is at work there.
<1>16. ASSUME NEW s \in Tasks, pc[s] \in {"relist", "retire", "remove", "restore"},
              \/ pc' = [pc EXCEPT ![s] = "retire"] \/ pc' = [pc EXCEPT ![s] = "remove"]
              \/ pc' = [pc EXCEPT ![s] = "restore"] \/ Leaves(s),
              UNCHANGED <<held, job, path>>
       PROVE  Callers'
  <2>1. PICK to \in {"retire", "remove", "restore", "tidy", "over"} : pc' = [pc EXCEPT ![s] = to]
    BY <1>16 DEF Leaves
  <2> QED
    BY <1>0, <1>16, <2>1 DEF NoTreeYet, Settled
<1>17. ASSUME NEW s \in Sessions, Relist(s) PROVE Callers'
  BY <1>16, <1>17 DEF Relist, book
<1>18. ASSUME NEW s \in Sessions, PromptAgain(s) \/ EndsAgain(s) PROVE Callers'
  BY <1>18, OneSessionWords, Zenon DEF PromptAgain, EndsAgain
<1>19. ASSUME NEW s \in Sessions, Forgotten(s) PROVE Callers'
  BY <1>3, <1>19 DEF Forgotten, book
<1>20. ASSUME NEW s \in Tasks, Retire(s) PROVE Callers'
  <2>1. /\ pc[s] = "retire" /\ UNCHANGED <<held, job, path>>
        /\ Goes(s, "remove") \/ Leaves(s)
    BY <1>20, Zenon DEF Retire
  <2> QED
    BY <1>16, <2>1
<1>21. ASSUME NEW s \in Tasks, Remove(s) PROVE Callers'
  BY <1>16, <1>21 DEF Remove, book
<1>22. ASSUME NEW s \in Tasks, Restore(s) PROVE Callers'
  BY <1>16, <1>22 DEF Restore, book
<1>23. ASSUME UNCHANGED <<held, job, path>>,
              pc' = pc \/ (\E t \in Trees : pc' = [pc EXCEPT ![Startup] = "retire"])
       PROVE  Callers'
  <2>1. \A u \in Sessions : pc'[u] = pc[u]
    BY <1>23
  <2> QED
    BY <1>0, <1>23, <2>1
<1>24. ASSUME Tidies \/ Operator \/ UNCHANGED vars PROVE Callers'
  BY <1>23, <1>24 DEF Tidies, TidyProject, TidyTree, Operator, Select, book, own, vars
<1> QED
  BY <1>1, <1>2, <1>4, <1>5, <1>7, <1>8, <1>9, <1>10, <1>11, <1>12, <1>13, <1>14, <1>15,
     <1>17, <1>18, <1>19, <1>20, <1>21, <1>22, <1>24, Zenon DEF Next, Claims, Finishes, Removes

\* A session whose tree is not there cannot start, and none is.
LEMMA TheTreeIsThere ==
    ASSUME Typed, BookOK, Callers, NEW s \in Sessions, Settled(s), path[s] # None
    PROVE  Holder(s) \in Trees /\ held[Holder(s)] = path[s] /\ Present(path[s])
<1>1. Holder(s) \in Trees /\ held[Holder(s)] = path[s]
  BY DEF Callers, PlacedWell, InItsTree
<1> QED
  BY <1>1, NoneIsNoTree DEF BookOK, HeldTreesExist
-----------------------------------------------------------------------------
(* Every lease has a session that will return it. *)

AgentsStart == "start fails" \notin Allowed

\* A step of one session that takes a lease for itself, or returns its own.
LEMMA LeasesStep ==
    ASSUME LeasesBelongToSomebody, NEW s \in Tasks,
           \A u \in Sessions \ {s} : pc'[u] = pc[u] /\ job'[u] = job[u],
           \A h \in Holders : held'[h] # None /\ held[h] = None =>
               s \in Sessions /\ Settled(s)' /\ Holder(s)' = h,
           s \in Sessions /\ Settled(s) =>
               \/ Settled(s)' /\ job'[s] = job[s]
               \/ \A h \in Holders : h = Holder(s) => held'[h] = None
    PROVE  LeasesBelongToSomebody'
<1> SUFFICES ASSUME NEW h \in Holders, held'[h] # None
             PROVE  \E u \in Sessions : Settled(u)' /\ Holder(u)' = h
  BY DEF LeasesBelongToSomebody, Settled
<1>1. CASE held[h] = None
  BY <1>1
<1>2. CASE held[h] # None
  <2>1. PICK u \in Sessions : Settled(u) /\ Holder(u) = h
    BY <1>2 DEF LeasesBelongToSomebody, Settled
  <2>2. Settled(u)' /\ job'[u] = job[u]
    BY <2>1 DEF Settled
  <2> QED
    BY <2>1, <2>2 DEF Holder
<1> QED
  BY <1>1, <1>2

\* Every step keeps the leases somebody's.
LEMMA NextLeases ==
    ASSUME OneSessionARole, AgentsStart, Typed, BookOK, Callers, LeasesBelongToSomebody,
           [Next]_vars
    PROVE  LeasesBelongToSomebody'
<1> USE ConstantsAssumption, NoneIsNoTree DEF Typed, TypeOK, Tasks, Goes
<1> USE DEF Settled
\* A step that leaves the leases alone, and keeps those at their places there.
<1>0. ASSUME NEW s \in Tasks, held' = held,
             \A u \in Sessions \ {s} : pc'[u] = pc[u] /\ job'[u] = job[u],
             s \in Sessions => ~Settled(s) \/ (Settled(s)' /\ job'[s] = job[s])
      PROVE  LeasesBelongToSomebody'
  BY <1>0, LeasesStep
<1>1. ASSUME NEW s \in Sessions, NEW r \in Roles, NEW w \in Projects \cup {None}, Ask(s, r, w)
      PROVE  LeasesBelongToSomebody'
  BY <1>0, <1>1 DEF Ask, book
<1>2. ASSUME NEW s \in Sessions, Find(s) PROVE LeasesBelongToSomebody'
  BY <1>0, <1>2 DEF Find, book
<1>3. ASSUME NEW s \in Sessions, Vanishes(s), held' = held, ~Settled(s)
      PROVE  LeasesBelongToSomebody'
  BY <1>0, <1>3 DEF Vanishes
<1>4. ASSUME NEW s \in Sessions, Refused(s) PROVE LeasesBelongToSomebody'
  BY <1>3, <1>4 DEF Refused, book
<1>5. ASSUME NEW s \in Sessions, ListTrees(s) PROVE LeasesBelongToSomebody'
  BY <1>0, <1>5 DEF ListTrees, book
<1>6. ASSUME NEW s \in Sessions, NEW t \in Trees, pc[s] \in {"book", "take"},
             pc' = [pc EXCEPT ![s] = "start"], job' = job,
             held' = [held EXCEPT ![Holder(s)] = t]
      PROVE  LeasesBelongToSomebody'
  <2>1. Settled(s)' /\ Holder(s)' = Holder(s)
    BY <1>6 DEF Holder
  <2>2. \A h \in Holders : held'[h] # held[h] => h = Holder(s)
    BY <1>6
  <2> QED
    BY <1>6, <2>1, <2>2, LeasesStep
<1>7. ASSUME NEW s \in Sessions, Reuse(s) PROVE LeasesBelongToSomebody'
  <2>1. Holder(s) \in Holders
    BY <1>7 DEF Reuse, ClaimingIsPlaced
  <2>2. PICK t \in IF held[Holder(s)] # None THEN {held[Holder(s)]}
                                            ELSE {x \in list[s] : Free(x)} :
            held' = [held EXCEPT ![Holder(s)] = t]
    BY <1>7, Zenon DEF Reuse
  <2>3. t \in Trees
    BY <2>1, <2>2
  <2> QED
    BY <1>6, <1>7, <2>2, <2>3 DEF Reuse
<1>8. ASSUME NEW s \in Sessions, ReuseNothing(s) PROVE LeasesBelongToSomebody'
  BY <1>0, <1>8 DEF ReuseNothing, book
<1>9. ASSUME NEW s \in Sessions, AddTree(s) PROVE LeasesBelongToSomebody'
  BY <1>0, <1>9 DEF AddTree, book, own
<1>10. ASSUME NEW s \in Sessions, Take(s) PROVE LeasesBelongToSomebody'
  <2>1. Holder(s) \in Trees
    BY <1>10 DEF Take, ClaimingIsPlaced
  <2> QED
    BY <1>6, <1>10, <2>1 DEF Take
<1>11. ASSUME NEW s \in Sessions, Started(s) PROVE LeasesBelongToSomebody'
  BY <1>0, <1>11 DEF Started, book, own
<1>12. ASSUME NEW s \in Sessions, StartFails(s) PROVE LeasesBelongToSomebody'
  <2>1. pc[s] = "start" /\ path[s] # None /\ ~Present(path[s])
    BY <1>12, Zenon DEF StartFails, AgentsStart
  <2> QED
    BY <2>1, TheTreeIsThere
<1>13. ASSUME NEW s \in Sessions, Edits(s) PROVE LeasesBelongToSomebody'
  BY <1>0, <1>13 DEF Edits, book, own
<1>14. ASSUME NEW s \in Sessions, Ends(s) PROVE LeasesBelongToSomebody'
  BY <1>0, <1>14 DEF Ends, book, own
<1>15. ASSUME NEW s \in Sessions, GiveBack(s) PROVE LeasesBelongToSomebody'
  <2> DEFINE holder == <<Found(job[s]), job[s].role>>
  <2>1. pc[s] = "ended" /\ UNCHANGED job
    BY <1>15 DEF GiveBack
  <2>2. holder = Holder(s) /\ Found(job[s]) # None
    BY <2>1 DEF Callers, PlacedWell, InItsProject, Filling, Starting, Found, Holder
  <2>3. \/ held' = [held EXCEPT ![holder] = None] /\ pc' = [pc EXCEPT ![s] = "relist"]
        \/ held' = held /\ held[holder] = None /\ pc' = [pc EXCEPT ![s] = "over"]
    BY <1>15, <2>2, Zenon DEF GiveBack
  <2> HIDE DEF holder
  <2>4. \A h \in Holders : IF h = Holder(s) THEN held'[h] = None ELSE held'[h] = held[h]
    BY <2>2, <2>3
  <2> QED
    BY <2>1, <2>3, <2>4, LeasesStep
<1>16. ASSUME NEW s \in Tasks, pc[s] \in {"relist", "retire", "remove", "restore"},
              \/ pc' = [pc EXCEPT ![s] = "retire"] \/ pc' = [pc EXCEPT ![s] = "remove"]
              \/ pc' = [pc EXCEPT ![s] = "restore"] \/ Leaves(s),
              UNCHANGED <<held, job>>
       PROVE  LeasesBelongToSomebody'
  BY <1>0, <1>16 DEF Leaves
<1>17. ASSUME NEW s \in Sessions, Relist(s) PROVE LeasesBelongToSomebody'
  BY <1>16, <1>17 DEF Relist, book
<1>18. ASSUME NEW s \in Sessions, PromptAgain(s) \/ EndsAgain(s) PROVE LeasesBelongToSomebody'
  BY <1>18, OneSessionWords, Zenon DEF PromptAgain, EndsAgain
<1>19. ASSUME NEW s \in Sessions, Forgotten(s) PROVE LeasesBelongToSomebody'
  BY <1>3, <1>19 DEF Forgotten, book
<1>20. ASSUME NEW s \in Tasks, Retire(s) PROVE LeasesBelongToSomebody'
  <2>1. /\ pc[s] = "retire" /\ UNCHANGED <<held, job>>
        /\ Goes(s, "remove") \/ Leaves(s)
    BY <1>20, Zenon DEF Retire
  <2> QED
    BY <1>16, <2>1
<1>21. ASSUME NEW s \in Tasks, Remove(s) PROVE LeasesBelongToSomebody'
  BY <1>16, <1>21 DEF Remove, book
<1>22. ASSUME NEW s \in Tasks, Restore(s) PROVE LeasesBelongToSomebody'
  BY <1>16, <1>22 DEF Restore, book
<1>23. ASSUME UNCHANGED <<held, job>>,
              pc' = pc \/ (\E t \in Trees : pc' = [pc EXCEPT ![Startup] = "retire"])
       PROVE  LeasesBelongToSomebody'
  <2>1. \A u \in Sessions : pc'[u] = pc[u]
    BY <1>23
  <2> QED
    BY <1>0, <1>23, <2>1
<1>24. ASSUME Tidies \/ Operator \/ UNCHANGED vars PROVE LeasesBelongToSomebody'
  BY <1>23, <1>24 DEF Tidies, TidyProject, TidyTree, Operator, Select, book, own, vars
<1> QED
  BY <1>1, <1>2, <1>4, <1>5, <1>7, <1>8, <1>9, <1>10, <1>11, <1>12, <1>13, <1>14, <1>15,
     <1>17, <1>18, <1>19, <1>20, <1>21, <1>22, <1>24, Zenon DEF Next, Claims, Finishes, Removes
-----------------------------------------------------------------------------
(* No tree is left over.  One that was kept because of what is in it is     *)
(* still as it was when it is put back, for nobody works in it.            *)

GitWorks == "git fails" \notin Allowed

KeptIsDirty == \A s \in Tasks : pc[s] = "restore" => trees[tree[s]] = "dirty"

\* A tree somebody will look after.
SeenTo(t) ==
    \/ t[1] \in untidied \/ t \in list[Startup]
    \/ \E s \in Tasks : \/ pc[s] \in {"relist", "retire"} /\ tree[s] = t
                        \/ pc[s] = "take" /\ Holder(s) = t

\* A clean tree that anybody might take.
Left(t) == trees[t] = "clean" /\ Free(t)

NothingLeft == KeptIsDirty /\ NoTreeLeftBehind

\* A step that leaves no tree, and forgets none that is left.
LEMMA LeftStep ==
    ASSUME NoTreeLeftBehind,
           \A t \in Trees : Left(t)' => Left(t) \/ SeenTo(t)',
           \A t \in Trees : Left(t)' /\ SeenTo(t) => SeenTo(t)'
    PROVE  NoTreeLeftBehind'
BY DEF NoTreeLeftBehind, Left, SeenTo

\* A step of one task that is not seeing to a tree.
LEMMA SeenToStays ==
    ASSUME NEW s \in Tasks,
           \A u \in Tasks \ {s} : pc'[u] = pc[u] /\ job'[u] = job[u] /\ tree'[u] = tree[u],
           untidied' = untidied, list'[Startup] = list[Startup],
           pc[s] \notin {"relist", "retire", "take"}
    PROVE  \A t : SeenTo(t) => SeenTo(t)'
<1> SUFFICES ASSUME NEW t, SeenTo(t), t[1] \notin untidied, t \notin list[Startup]
             PROVE  SeenTo(t)'
  BY DEF SeenTo
<1>1. PICK u \in Tasks : \/ pc[u] \in {"relist", "retire"} /\ tree[u] = t
                         \/ pc[u] = "take" /\ Holder(u) = t
  BY DEF SeenTo
<1>2. u \in Tasks \ {s}
  BY <1>1
<1>3. pc'[u] = pc[u] /\ tree'[u] = tree[u] /\ Holder(u)' = Holder(u)
  BY <1>2 DEF Holder
<1> QED
  BY <1>1, <1>3 DEF SeenTo

\* Every step leaves no tree behind.
LEMMA NextLeft ==
    ASSUME OneSessionARole, GitWorks, Typed, Typed', BookOK, Callers, NothingLeft, [Next]_vars
    PROVE  NothingLeft'
<1> USE ConstantsAssumption, NoneIsNoTree DEF Typed, TypeOK, Tasks, Goes, Left
\* A step that changes no tree and no lease, and sees to what was seen to.
<1>0. ASSUME UNCHANGED <<held, retired, trees>>, \A t \in Trees : SeenTo(t) => SeenTo(t)',
             \A s \in Tasks : pc'[s] = "restore" => pc[s] = "restore" /\ tree'[s] = tree[s]
      PROVE  NothingLeft'
  <2>1. \A t \in Trees : Left(t)' => Left(t)
    BY <1>0 DEF Free
  <2>2. NoTreeLeftBehind'
    BY <1>0, <2>1, LeftStep DEF NothingLeft
  <2>3. KeptIsDirty'
    BY <1>0 DEF NothingLeft, KeptIsDirty
  <2> QED
    BY <2>2, <2>3 DEF NothingLeft
\* The same of a session that is not seeing to a tree.
<1>1. ASSUME NEW s \in Sessions, UNCHANGED <<held, retired, trees, untidied, tree>>,
             list'[Startup] = list[Startup],
             \A u \in Tasks \ {s} : pc'[u] = pc[u] /\ job'[u] = job[u],
             pc[s] \notin {"relist", "retire", "take"}, pc'[s] # "restore"
      PROVE  NothingLeft'
  <2>1. \A t : SeenTo(t) => SeenTo(t)'
    BY <1>1, SeenToStays
  <2>2. \A u \in Tasks : pc'[u] = "restore" => pc[u] = "restore" /\ tree'[u] = tree[u]
    BY <1>1
  <2> QED
    BY <1>0, <1>1, <2>1, <2>2
<1>2. ASSUME NEW s \in Sessions, NEW r \in Roles, NEW w \in Projects \cup {None}, Ask(s, r, w)
      PROVE  NothingLeft'
  BY <1>1, <1>2 DEF Ask, book
<1>3. ASSUME NEW s \in Sessions, Find(s) PROVE NothingLeft'
  BY <1>1, <1>3 DEF Find, book
<1>4. ASSUME NEW s \in Sessions, Refused(s) PROVE NothingLeft'
  BY <1>1, <1>4 DEF Refused, Vanishes, book
<1>5. ASSUME NEW s \in Sessions, ListTrees(s) PROVE NothingLeft'
  BY <1>1, <1>5 DEF ListTrees, book
<1>6. ASSUME NEW s \in Sessions, ReuseNothing(s) PROVE NothingLeft'
  BY <1>1, <1>6 DEF ReuseNothing, book
<1>7. ASSUME NEW s \in Sessions, Started(s) PROVE NothingLeft'
  BY <1>1, <1>7 DEF Started, book, own
<1>8. ASSUME NEW s \in Sessions, StartFails(s) PROVE NothingLeft'
  BY <1>1, <1>8 DEF StartFails, Vanishes, book
<1>9. ASSUME NEW s \in Sessions, Ends(s) PROVE NothingLeft'
  BY <1>1, <1>9 DEF Ends, book, own
<1>10. ASSUME NEW s \in Sessions, Forgotten(s) PROVE NothingLeft'
  BY <1>1, <1>10 DEF Forgotten, Vanishes, book
<1>11. ASSUME NEW s \in Sessions, PromptAgain(s) \/ EndsAgain(s) PROVE NothingLeft'
  BY <1>11, OneSessionWords, Zenon DEF PromptAgain, EndsAgain
<1>12. CASE Operator \/ UNCHANGED vars
  <2>1. UNCHANGED <<held, retired, trees, untidied, pc, job, list, tree>>
    BY <1>12 DEF Operator, Select, book, own, vars
  <2>2. \A t : SeenTo(t) => SeenTo(t)'
    BY <2>1 DEF SeenTo, Holder
  <2> QED
    BY <1>0, <2>1, <2>2
\* A tree handed out is not left, and no other is.
<1>13. ASSUME NEW s \in Sessions, NEW t \in Trees, pc[s] \in {"book", "take"},
              pc' = [pc EXCEPT ![s] = "start"],
              UNCHANGED <<trees, untidied, job, tree>>, list'[Startup] = list[Startup],
              held' = [held EXCEPT ![Holder(s)] = t], held[Holder(s)] \in {None, t},
              retired' \in {retired, retired \ {t}},
              pc[s] = "take" => t = Holder(s)
       PROVE  NothingLeft'
  <2>1. Holder(s) \in Holders
    BY <1>13 DEF ClaimingIsPlaced
  <2>2. held'[Holder(s)] = t /\ \A h \in Holders : h # Holder(s) => held'[h] = held[h]
    BY <1>13, <2>1
  <2>3. ~Free(t)'
    BY <2>1, <2>2 DEF Free
  <2>4. ASSUME NEW x \in Trees, x # t PROVE Free(x)' => Free(x)
    <3>1. x \in retired => x \in retired'
      BY <1>13, <2>4
    <3>2. \A h \in Holders : held[h] = x => held'[h] = x
      BY <1>13, <2>2, <2>4
    <3> QED
      BY <3>1, <3>2 DEF Free
  <2>5. ASSUME NEW x \in Trees, x # t, SeenTo(x) PROVE SeenTo(x)'
    <3>1. \A u \in Tasks : u # s => pc'[u] = pc[u]
      BY <1>13
    <3>2. \A u \in Tasks : tree'[u] = tree[u] /\ Holder(u)' = Holder(u)
      BY <1>13 DEF Holder
    <3>3. s \in Tasks /\ pc[s] \notin {"relist", "retire"} /\ ~(pc[s] = "take" /\ Holder(s) = x)
      BY <1>13, <2>5
    <3> QED
      BY <1>13, <2>5, <3>1, <3>2, <3>3 DEF SeenTo
  <2>6. \A x \in Trees : Left(x)' => Left(x) \/ SeenTo(x)'
    BY <1>13, <2>3, <2>4
  <2>7. \A x \in Trees : Left(x)' /\ SeenTo(x) => SeenTo(x)'
    BY <2>3, <2>5
  <2>8. NoTreeLeftBehind'
    BY <2>6, <2>7, LeftStep DEF NothingLeft
  <2>9. KeptIsDirty'
    BY <1>13 DEF NothingLeft, KeptIsDirty
  <2> QED
    BY <2>8, <2>9 DEF NothingLeft
<1>14. ASSUME NEW s \in Sessions, Reuse(s) PROVE NothingLeft'
  <2>1. Holder(s) \in Holders
    BY <1>14 DEF Reuse, ClaimingIsPlaced
  <2>2. PICK t \in IF held[Holder(s)] # None THEN {held[Holder(s)]}
                                            ELSE {x \in list[s] : Free(x)} :
            held' = [held EXCEPT ![Holder(s)] = t]
    BY <1>14, Zenon DEF Reuse
  <2>3. t \in Trees /\ held[Holder(s)] \in {None, t}
    BY <2>1, <2>2
  <2> QED
    BY <1>13, <1>14, <2>2, <2>3 DEF Reuse
<1>15. ASSUME NEW s \in Sessions, Take(s) PROVE NothingLeft'
  <2>1. Holder(s) \in Trees
    BY <1>15 DEF Take, ClaimingIsPlaced
  <2>2. held[Holder(s)] = None
    BY <1>15 DEF Take, Callers, PlacedWell, HoldsNothing
  <2> QED
    BY <1>13, <1>15, <2>1, <2>2 DEF Take
\* Whoever makes a tree sees to it.
<1>16. ASSUME NEW s \in Sessions, AddTree(s) PROVE NothingLeft'
  <2>1. /\ pc[s] = "add" /\ pc' = [pc EXCEPT ![s] = "take"] /\ Holder(s) \in Trees
        /\ ~Present(Holder(s))
        /\ trees' = [trees EXCEPT ![Holder(s)] = "clean"]
        /\ UNCHANGED <<held, retired, untidied, job, list, tree>>
    BY <1>16 DEF AddTree, ClaimingIsPlaced, book, own
  <2>2. \A t : SeenTo(t) => SeenTo(t)'
    BY <2>1, SeenToStays
  <2>3. ASSUME NEW t \in Trees, t = Holder(s) PROVE SeenTo(t)'
    <3>1. pc'[s] = "take" /\ Holder(s)' = t
      BY <2>1, <2>3 DEF Holder
    <3> QED
      BY <3>1 DEF SeenTo
  <2>4. \A t \in Trees : t # Holder(s) => (Left(t)' => Left(t))
    BY <2>1 DEF Free
  <2>5. NoTreeLeftBehind'
    BY <2>2, <2>3, <2>4, LeftStep DEF NothingLeft
  <2>6. ASSUME NEW u \in Tasks, pc'[u] = "restore" PROVE trees'[tree'[u]] = "dirty"
    <3>1. pc[u] = "restore" /\ trees[tree[u]] = "dirty" /\ tree[u] \in Trees
      BY <2>1, <2>6 DEF NothingLeft, KeptIsDirty, RemovingIsPlaced
    <3>2. tree[u] # Holder(s)
      BY <2>1, <3>1 DEF Present
    <3> QED
      BY <2>1, <3>1, <3>2
  <2>7. KeptIsDirty'
    BY <2>6 DEF KeptIsDirty
  <2> QED
    BY <2>5, <2>7 DEF NothingLeft
\* A tree that is worked in is held.
<1>17. ASSUME NEW s \in Sessions, Edits(s) PROVE NothingLeft'
  <2>1. pc[s] = "working" /\ path[s] # None /\ UNCHANGED <<held, retired, untidied, pc, job, list, tree>>
    BY <1>17 DEF Edits, book, own
  <2>2. PICK state \in {"clean", "dirty"} : trees' = [trees EXCEPT ![path[s]] = state]
    BY <1>17 DEF Edits
  <2>3. Holder(s) \in Holders /\ held[Holder(s)] = path[s]
    BY <2>1, TheTreeIsThere DEF Settled
  <2>4. path[s] \in Trees /\ path[s] \notin retired /\ \A t : t = path[s] => ~Free(t)'
    BY <2>1, <2>3 DEF Free, BookOK, HeldIsNotSetAside
  <2>5. \A t \in Trees : t # path[s] => (Left(t)' => Left(t))
    BY <2>1, <2>2 DEF Free
  <2>6. \A t : SeenTo(t) => SeenTo(t)'
    BY <2>1 DEF SeenTo, Holder
  <2>7. NoTreeLeftBehind'
    BY <2>4, <2>5, <2>6, LeftStep DEF NothingLeft
  <2>8. ASSUME NEW u \in Tasks, pc'[u] = "restore" PROVE trees'[tree'[u]] = "dirty"
    <3>1. pc[u] = "restore" /\ trees[tree[u]] = "dirty" /\ tree[u] \in retired /\ tree'[u] = tree[u]
      BY <2>1, <2>8 DEF NothingLeft, KeptIsDirty, BookOK, GoingIsSetAside, Removing
    <3> QED
      BY <2>2, <2>4, <3>1
  <2>9. KeptIsDirty'
    BY <2>8 DEF KeptIsDirty
  <2> QED
    BY <2>7, <2>9 DEF NothingLeft
\* Whoever gives a tree back goes on to remove it.
<1>18. ASSUME NEW s \in Sessions, GiveBack(s) PROVE NothingLeft'
  <2> DEFINE holder == <<Found(job[s]), job[s].role>>
  <2>1. /\ pc[s] = "ended" /\ UNCHANGED <<retired, trees, untidied, job, list>>
        /\ \/ /\ held' = [held EXCEPT ![holder] = None]
              /\ tree' = [tree EXCEPT ![s] = held[holder]]
              /\ pc' = [pc EXCEPT ![s] = "relist"]
           \/ held' = held /\ tree' = tree /\ pc' = [pc EXCEPT ![s] = "over"]
    BY <1>18, Zenon DEF GiveBack
  <2> HIDE DEF holder
  <2>2. \A t : SeenTo(t) => SeenTo(t)'
    BY <2>1, SeenToStays
  <2>3. \A u \in Tasks : pc'[u] = "restore" => pc[u] = "restore" /\ tree'[u] = tree[u]
    BY <2>1
  <2>4. ASSUME NEW t \in Trees, Left(t)', ~Left(t) PROVE SeenTo(t)'
    <3>1. Free(t)' /\ ~Free(t)
      BY <2>1, <2>4
    <3>2. PICK h \in Holders : held[h] = t /\ held'[h] # t
      BY <2>1, <3>1 DEF Free
    <3>3. h = holder
      BY <2>1, <3>2
    <3>4. pc'[s] = "relist" /\ tree'[s] = t
      BY <2>1, <3>2, <3>3
    <3> QED
      BY <3>4 DEF SeenTo
  <2>5. NoTreeLeftBehind'
    BY <2>2, <2>4, LeftStep DEF NothingLeft
  <2>6. KeptIsDirty'
    BY <2>1, <2>3 DEF NothingLeft, KeptIsDirty
  <2> QED
    BY <2>5, <2>6 DEF NothingLeft
\* A tree that is not seen to any longer has gone, is held, or is set aside.
<1>19. ASSUME NEW s \in Tasks, pc[s] \in {"relist", "retire"},
              UNCHANGED <<held, trees, untidied, job, list>>,
              retired \subseteq retired',
              \A u \in Tasks \ {s} : pc'[u] = pc[u] /\ tree'[u] = tree[u], pc'[s] # "restore",
              \/ pc'[s] = "retire" /\ tree'[s] = tree[s]
              \/ \A t \in Trees : t = tree[s] => ~Left(t)'
       PROVE  NothingLeft'
  <2>1. \A t \in Trees : Left(t)' => Left(t)
    BY <1>19 DEF Free
  <2>2. ASSUME NEW t \in Trees, Left(t)', SeenTo(t), t[1] \notin untidied, t \notin list[Startup]
        PROVE  SeenTo(t)'
    <3>1. PICK u \in Tasks : \/ pc[u] \in {"relist", "retire"} /\ tree[u] = t
                             \/ pc[u] = "take" /\ Holder(u) = t
      BY <2>2 DEF SeenTo
    <3>2. CASE u = s
      <4>1. tree[s] = t
        BY <1>19, <3>1, <3>2
      <4>2. pc'[s] = "retire" /\ tree'[s] = t
        BY <1>19, <2>2, <4>1
      <4> QED
        BY <4>2 DEF SeenTo
    <3>3. CASE u # s
      <4>1. pc'[u] = pc[u] /\ tree'[u] = tree[u] /\ Holder(u)' = Holder(u)
        BY <1>19, <3>3 DEF Holder
      <4> QED
        BY <3>1, <4>1 DEF SeenTo
    <3> QED
      BY <3>2, <3>3
  <2>3. \A t \in Trees : Left(t)' /\ SeenTo(t) => SeenTo(t)'
    BY <1>19, <2>2 DEF SeenTo
  <2>4. NoTreeLeftBehind'
    BY <2>1, <2>3, LeftStep DEF NothingLeft
  <2>5. KeptIsDirty'
    BY <1>19 DEF NothingLeft, KeptIsDirty
  <2> QED
    BY <2>4, <2>5 DEF NothingLeft
<1>20. ASSUME NEW s \in Sessions, Relist(s) PROVE NothingLeft'
  <2>1. pc[s] = "relist" /\ UNCHANGED <<held, retired, trees, untidied, job, list>>
    BY <1>20 DEF Relist, book
  <2>2. \/ pc' = [pc EXCEPT ![s] = "retire"] /\ tree' = tree
        \/ ~Present(tree[s]) /\ Leaves(s)
    BY <1>20, Zenon DEF Relist, GitWorks
  <2>3. CASE pc' = [pc EXCEPT ![s] = "retire"] /\ tree' = tree
    BY <1>19, <2>1, <2>3
  <2>4. CASE ~Present(tree[s]) /\ Leaves(s)
    <3>1. \A t \in Trees : t = tree[s] => ~Left(t)'
      BY <2>1, <2>4 DEF Present
    <3> QED
      BY <1>19, <2>1, <2>4, <3>1 DEF Leaves
  <2> QED
    BY <2>2, <2>3, <2>4
<1>21. ASSUME NEW s \in Tasks, Retire(s) PROVE NothingLeft'
  <2>1. pc[s] = "retire" /\ UNCHANGED <<held, trees, untidied, job, list>>
    BY <1>21, Zenon DEF Retire
  <2>2. CASE Free(tree[s])
    <3>1. /\ retired' = retired \cup {tree[s]} /\ pc' = [pc EXCEPT ![s] = "remove"]
          /\ tree' = tree
      BY <1>21, <2>2, Zenon DEF Retire
    <3>2. \A t \in Trees : t = tree[s] => ~Left(t)'
      BY <3>1 DEF Free
    <3> QED
      BY <1>19, <2>1, <3>1, <3>2
  <2>3. CASE ~Free(tree[s])
    <3>1. Leaves(s) /\ retired' = retired
      BY <1>21, <2>3, Zenon DEF Retire
    <3>2. \A t \in Trees : t = tree[s] => ~Left(t)'
      BY <2>1, <2>3, <3>1 DEF Free
    <3> QED
      BY <1>19, <2>1, <3>1, <3>2 DEF Leaves
  <2> QED
    BY <2>2, <2>3
\* What is not removed is put back, unless there is work in it.
<1>22. ASSUME NEW s \in Tasks, Remove(s) PROVE NothingLeft'
  <2>1. /\ pc[s] = "remove" /\ tree[s] \in Trees
        /\ UNCHANGED <<held, retired, untidied, job, list>>
    BY <1>22 DEF Remove, RemovingIsPlaced, book
  <2>2. CASE trees' = [trees EXCEPT ![tree[s]] = "absent"] /\ Leaves(s)
    <3>1. \A u \in Tasks \ {s} : pc'[u] = pc[u] /\ tree'[u] = tree[u]
      BY <2>2 DEF Leaves
    <3>2. \A t : SeenTo(t) => SeenTo(t)'
      BY <2>1, <3>1, SeenToStays
    <3>3. \A t \in Trees : Left(t)' => Left(t)
      BY <2>1, <2>2 DEF Free
    <3>4. NoTreeLeftBehind'
      BY <3>2, <3>3, LeftStep DEF NothingLeft
    <3>5. ASSUME NEW u \in Tasks, pc'[u] = "restore" PROVE trees'[tree'[u]] = "dirty"
      <4>1. u # s
        BY <2>2, <3>5 DEF Leaves
      <4>2. pc[u] = "restore" /\ tree'[u] = tree[u] /\ trees[tree[u]] = "dirty"
        BY <3>1, <3>5, <4>1 DEF NothingLeft, KeptIsDirty
      <4>3. tree[u] # tree[s]
        BY <2>1, <4>1, <4>2 DEF BookOK, OneRemoverPerTree, Removing
      <4>4. tree[u] \in Trees
        BY <4>2 DEF RemovingIsPlaced
      <4> QED
        BY <2>2, <4>2, <4>3, <4>4
    <3>6. KeptIsDirty'
      BY <3>5 DEF KeptIsDirty
    <3> QED
      BY <3>4, <3>6 DEF NothingLeft
  <2>3. CASE trees[tree[s]] = "dirty" /\ pc' = [pc EXCEPT ![s] = "restore"]
             /\ UNCHANGED <<trees, tree>>
    <3>1. \A t : SeenTo(t) => SeenTo(t)'
      BY <2>1, <2>3, SeenToStays
    <3>2. \A t \in Trees : Left(t)' => Left(t)
      BY <2>1, <2>3 DEF Free
    <3>3. NoTreeLeftBehind'
      BY <3>1, <3>2, LeftStep DEF NothingLeft
    <3>4. KeptIsDirty'
      BY <2>3 DEF NothingLeft, KeptIsDirty
    <3> QED
      BY <3>3, <3>4 DEF NothingLeft
  <2> QED
    BY <1>22, <2>2, <2>3, Zenon DEF Remove, GitWorks
<1>23. ASSUME NEW s \in Tasks, Restore(s) PROVE NothingLeft'
  <2>1. /\ pc[s] = "restore" /\ retired' = retired \ {tree[s]} /\ Leaves(s)
        /\ UNCHANGED <<held, trees, untidied, job, list>>
    BY <1>23 DEF Restore
  <2>2. \A u \in Tasks \ {s} : pc'[u] = pc[u] /\ tree'[u] = tree[u]
    BY <2>1 DEF Leaves
  <2>3. \A t : SeenTo(t) => SeenTo(t)'
    BY <2>1, <2>2, SeenToStays
  <2>4. trees[tree[s]] = "dirty"
    BY <2>1 DEF NothingLeft, KeptIsDirty
  <2>5. \A t \in Trees : Left(t)' => Left(t)
    BY <2>1, <2>4 DEF Free
  <2>6. NoTreeLeftBehind'
    BY <2>3, <2>5, LeftStep DEF NothingLeft
  <2>7. pc'[s] # "restore"
    BY <2>1 DEF Leaves
  <2>8. KeptIsDirty'
    BY <2>1, <2>2, <2>7 DEF NothingLeft, KeptIsDirty
  <2> QED
    BY <2>6, <2>8 DEF NothingLeft
<1>24. ASSUME NEW p \in Projects, TidyProject(p) PROVE NothingLeft'
  <2>1. /\ list[Startup] = {} /\ untidied' = untidied \ {p}
        /\ list' = [list EXCEPT ![Startup] = Listed(p)]
        /\ UNCHANGED <<held, retired, trees, pc, job, tree>>
    BY <1>24, Zenon DEF TidyProject, GitWorks, book
  <2>2. list'[Startup] = Listed(p)
    BY <2>1
  <2>3. ASSUME NEW t \in Trees, Left(t)', SeenTo(t) PROVE SeenTo(t)'
    <3>1. CASE t[1] = p
      <4>1. t \in list'[Startup]
        BY <2>1, <2>2, <2>3, <3>1 DEF Listed, Present
      <4> QED
        BY <4>1 DEF SeenTo
    <3>2. CASE t[1] # p
      BY <2>1, <2>3, <3>2 DEF SeenTo, Holder
    <3> QED
      BY <3>1, <3>2
  <2>4. \A t \in Trees : Left(t)' => Left(t)
    BY <2>1 DEF Free
  <2>5. NoTreeLeftBehind'
    BY <2>3, <2>4, LeftStep DEF NothingLeft
  <2>6. KeptIsDirty'
    BY <2>1 DEF NothingLeft, KeptIsDirty
  <2> QED
    BY <2>5, <2>6 DEF NothingLeft
<1>25. ASSUME NEW t \in Trees, TidyTree(t) PROVE NothingLeft'
  <2>1. /\ pc[Startup] = "tidy" /\ list' = [list EXCEPT ![Startup] = list[Startup] \ {t}]
        /\ tree' = [tree EXCEPT ![Startup] = t] /\ pc' = [pc EXCEPT ![Startup] = "retire"]
        /\ UNCHANGED <<held, retired, trees, untidied, job>>
    BY <1>25 DEF TidyTree, book
  <2>2. SeenTo(t)'
    <3>1. Startup \in Tasks /\ pc'[Startup] = "retire" /\ tree'[Startup] = t
      BY <2>1
    <3> QED
      BY <3>1 DEF SeenTo
  <2>3. ASSUME NEW x \in Trees, SeenTo(x), x # t PROVE SeenTo(x)'
    <3>1. CASE x[1] \in untidied \/ x \in list[Startup]
      BY <2>1, <2>3, <3>1 DEF SeenTo
    <3>2. CASE ~(x[1] \in untidied \/ x \in list[Startup])
      <4>1. PICK u \in Tasks : \/ pc[u] \in {"relist", "retire"} /\ tree[u] = x
                               \/ pc[u] = "take" /\ Holder(u) = x
        BY <2>3, <3>2 DEF SeenTo
      <4>2. u # Startup
        BY <2>1, <4>1
      <4>3. pc'[u] = pc[u] /\ tree'[u] = tree[u] /\ Holder(u)' = Holder(u)
        BY <2>1, <4>2 DEF Holder
      <4> QED
        BY <4>1, <4>3 DEF SeenTo
    <3> QED
      BY <3>1, <3>2
  <2>4. \A x \in Trees : SeenTo(x) => SeenTo(x)'
    BY <2>2, <2>3
  <2>5. \A u \in Tasks : pc'[u] = "restore" => pc[u] = "restore" /\ tree'[u] = tree[u]
    BY <2>1
  <2> QED
    BY <1>0, <2>1, <2>4, <2>5
<1> QED
  BY <1>2, <1>3, <1>4, <1>5, <1>6, <1>7, <1>8, <1>9, <1>10, <1>11, <1>12, <1>14, <1>15, <1>16,
     <1>17, <1>18, <1>20, <1>21, <1>22, <1>23, <1>24, <1>25, Zenon
     DEF Next, Claims, Finishes, Removes, Tidies
-----------------------------------------------------------------------------
(* What holds while a role has one session at a time. *)

\* Nobody has asked for anything, and every project is yet to be tidied.
LEMMA InitWell ==
    Init => Callers /\ LeasesBelongToSomebody /\ NothingLeft
<1> SUFFICES ASSUME Init PROVE Callers /\ LeasesBelongToSomebody /\ NothingLeft
  OBVIOUS
<1> USE ConstantsAssumption, NoneIsNoTree DEF Tasks
<1>1. /\ \A s \in Sessions : pc[s] = "none" /\ path[s] = None
      /\ \A s \in Tasks : pc[s] # "restore"
      /\ \A h \in Holders : held[h] = None
      /\ untidied = Isolated
  BY DEF Init
<1>2. Callers
  BY <1>1 DEF Callers, PlacedWell, OnePerRole, InItsProject, InItsTree, NoTreeYet, HoldsNothing,
              Filling, Starting, Settled
<1>3. LeasesBelongToSomebody
  BY <1>1 DEF LeasesBelongToSomebody
<1>4. \A t \in Trees : t[1] \in Isolated
  BY DEF Trees
<1>5. NothingLeft
  BY <1>1, <1>4 DEF NothingLeft, KeptIsDirty, NoTreeLeftBehind
<1> QED
  BY <1>2, <1>3, <1>5

LEMMA CallersInvariant ==
    ASSUME OneSessionARole PROVE Spec => [](Typed /\ BookOK /\ Callers)
<1>1. Init => Typed /\ BookOK /\ Callers
  BY InitTyped, InitBook, InitWell
<1>2. Typed /\ BookOK /\ Callers /\ [Next]_vars => Typed' /\ BookOK' /\ Callers'
  BY NextTyped, NextBook, NextCallers, OneSessionWords
<1> QED
  BY <1>1, <1>2, PTL DEF Spec

\* "Two coding agents must never be handed the same working tree at the same
\* time" (leases.rs): no two sessions work in one, however their claims, turns
\* and removals interleave and however git or a start fails, as long as a role
\* has one session at a time, which takes no prompt once it has finished, and git
\* shows no tree before it is handed out.
THEOREM TreesAreNotShared ==
    ASSUME OneSessionARole PROVE Spec => []NoTreeShared
<1>1. Typed /\ BookOK /\ Callers => NoTreeShared
  <2> SUFFICES ASSUME Typed, BookOK, Callers, NEW s \in Sessions, NEW u \in Sessions,
                      pc[s] = "working", pc[u] = "working", path[s] # None, path[s] = path[u]
               PROVE  s = u
    BY DEF NoTreeShared
  <2>1. Settled(s) /\ Settled(u) /\ Filling(s) /\ Filling(u)
    BY DEF Settled, Filling
  <2>2. /\ Holder(s) \in Holders /\ Holder(u) \in Holders
        /\ held[Holder(s)] = path[s] /\ held[Holder(u)] = path[s]
    BY <2>1, TheTreeIsThere, NoneIsNoTree
  <2>3. Holder(s) = Holder(u)
    BY <2>2 DEF BookOK, OneHolderPerTree
  <2>4. job[s].project = job[u].project /\ job[s].role = job[u].role
    BY <2>3 DEF Holder
  <2>5. job[s].named = job[u].named
    BY <2>1, <2>4 DEF Callers, PlacedWell, InItsProject
  <2> QED
    BY <2>1, <2>4, <2>5 DEF Callers, OnePerRole
<1> QED
  BY <1>1, CallersInvariant, PTL

\* Nothing is removed under an agent that works there (WorkspaceManager::release
\* and tidy, WorktreeLeases::is_free), under the same conditions.
THEOREM TreesInUseStay ==
    ASSUME OneSessionARole PROVE Spec => []TreeInUseStays
<1>1. Typed /\ BookOK /\ Callers => TreeInUseStays
  BY TheTreeIsThere DEF TreeInUseStays, Settled
<1> QED
  BY <1>1, CallersInvariant, PTL

\* No lease is left over that nobody will return (WorkspaceManager::claim and
\* release): beyond the same conditions an agent that was given a tree starts.
THEOREM LeasesAreReturned ==
    ASSUME OneSessionARole, "start fails" \notin Allowed
    PROVE  Spec => []LeasesBelongToSomebody
<1>1. AgentsStart
  BY DEF AgentsStart
<1>2. Init => LeasesBelongToSomebody
  BY InitWell
<1>3. Typed /\ BookOK /\ Callers /\ LeasesBelongToSomebody /\ [Next]_vars
        => LeasesBelongToSomebody'
  BY <1>1, NextLeases
<1> QED
  BY <1>2, <1>3, CallersInvariant, PTL DEF Spec

\* "Trees left behind for every role would fill the disk" (manager.rs): a clean
\* tree that nobody holds is about to be removed, if git does what it is asked
\* for; a session that does not start leaves its tree with its role.
THEOREM NoTreeIsLeft ==
    ASSUME OneSessionARole, "git fails" \notin Allowed
    PROVE  Spec => []NoTreeLeftBehind
<1>1. GitWorks
  BY DEF GitWorks
<1>2. Init => NothingLeft
  BY InitWell
<1>3. Typed /\ BookOK /\ Callers /\ NothingLeft /\ [Next]_vars => NothingLeft'
  BY <1>1, NextTyped, NextLeft
<1>4. NothingLeft => NoTreeLeftBehind
  BY DEF NothingLeft
<1> QED
  BY <1>2, <1>3, <1>4, CallersInvariant, PTL DEF Spec
=============================================================================
