------------------------------ MODULE Bindings ------------------------------
(***************************************************************************)
(* What a binding applies to, which of several wins, and which sets of     *)
(* them are refused: pushos-domain/src/binding.rs and pushos-bindings'     *)
(* resolver.rs, table.rs and validation.rs, as operators on sets.          *)
(***************************************************************************)
EXTENDS Integers

CONSTANTS
    Ids,         \* what bindings are called
    Controls,    \* every control of the surface
    Pads,        \* those that report how hard they were hit
    Pages,       \* the pages a configuration may have
    Workspaces,  \* the projects it declares
    None         \* a scope, a page or a force that is not given

ASSUME PadsAssumption == Pads \subseteq Controls
ASSUME NoneAssumption == None \notin Pages \cup Workspaces \cup {"soft", "firm", "hard"}

Gestures == {"press", "release", "tap", "hold", "turn_left", "turn_right", "turn"}
Forces   == {"soft", "firm", "hard"}

\* pushos_domain::binding::Binding.  halts stands for the action: whether its
\* selector stops work.
Binding == [id : Ids, control : Controls, gesture : Gestures, force : Forces \cup {None},
            page : Pages \cup {None}, workspace : Workspaces \cup {None},
            priority : Nat, halts : BOOLEAN]

Context == [page : Pages \cup {None}, workspace : Workspaces \cup {None}]

-----------------------------------------------------------------------------
(* Precedence. *)

\* BindingScope::specificity
Specificity(b) == (IF b.workspace = None THEN 0 ELSE 2) + (IF b.page = None THEN 0 ELSE 1)

\* BindingScope::applies_to
AppliesTo(b, context) == /\ b.page # None => context.page = b.page
                         /\ b.workspace # None => context.workspace = b.workspace

\* Binding::accepts_force
AcceptsForce(b, struck) == b.force # None => struck = b.force

Banded(b) == b.force # None

\* Binding::precedence, compared as the tuple is: scope, then force, then priority.
Precedes(a, b) ==
    \/ Specificity(a) > Specificity(b)
    \/ /\ Specificity(a) = Specificity(b)
       /\ Banded(a) /\ ~Banded(b)
    \/ /\ Specificity(a) = Specificity(b)
       /\ Banded(a) <=> Banded(b)
       /\ a.priority > b.priority

-----------------------------------------------------------------------------
(* Resolution. *)

\* The candidates of a key that apply here and accept the strike.
Candidates(S, control, gesture, struck, context) ==
    {b \in S : /\ b.control = control /\ b.gesture = gesture
               /\ AppliesTo(b, context) /\ AcceptsForce(b, struck)}

\* What may be first in the order the table keeps candidates in.
Winners(C) == {b \in C : \A a \in C : ~Precedes(a, b)}

\* BindingResolver::resolve_struck: the bindings it may answer with.  A turn
\* one way that nothing is bound to is a turn.
Resolve(S, strike, context) ==
    LET of(gesture) == Candidates(S, strike.control, gesture, strike.force, context)
    IN IF strike.gesture \in {"turn_left", "turn_right"} /\ of(strike.gesture) = {}
       THEN Winners(of("turn"))
       ELSE Winners(of(strike.gesture))

-----------------------------------------------------------------------------
(* Refusal. *)

\* The type Contested: what two bindings must agree on for nothing to part them.
Contested(b) == <<b.control, b.gesture, b.force, b.page, b.workspace, b.priority>>

\* Mutant: two bindings are told apart by what they are called.
AmbiguousByName(S) == \E a, b \in S : a # b /\ a.id = b.id /\ Contested(a) = Contested(b)

\* find_conflicts
Ambiguous(S) == \E a, b \in S : a # b /\ Contested(a) = Contested(b)

\* Gesture::carries_force, of the gestures above: shift_press and double_tap,
\* which carry it too, are no different to bind.
CarriesForce(gesture) == gesture \in {"press", "tap"}

\* find_force_faults
ForceFault(b) == Banded(b) /\ (b.control \notin Pads \/ ~CarriesForce(b.gesture) \/ b.halts)

=============================================================================
