-------------------------- MODULE MCWorkflowEngine --------------------------
(***************************************************************************)
(* Instances of WorkflowEngine for TLC: the workflows, the sets and the    *)
(* symmetries the configurations name.                                     *)
(***************************************************************************)
EXTENDS WorkflowEngine, TLC

CONSTANTS s1, p1, r1, r2, t1, t2, t3

Node(kind, next, alt) ==
    [kind |-> kind, next |-> next, alt |-> alt, worker |-> None,
     check |-> "succeeded", limit |-> 0, outcome |-> "succeeded"]

With(node, worker) == [node EXCEPT !.worker = worker]

\* Plan, test, retry a few times, ask, ship: every kind of step that waits.
ShipNodes == {"plan", "tests", "retry", "ask", "shipped", "gave up"}
Ship == [n \in ShipNodes |->
    CASE n = "plan"    -> With(Node("agent", "tests", "gave up"), s1)
      [] n = "tests"   -> With(Node("terminal", "ask", "retry"), p1)
      [] n = "retry"   -> [Node("condition", "plan", "gave up")
                              EXCEPT !.check = "attempts", !.limit = 3]
      [] n = "ask"     -> Node("approval", "shipped", "tests")
      [] n = "shipped" -> Node("end", "shipped", "shipped")
      [] n = "gave up" -> [Node("end", "gave up", "gave up") EXCEPT !.outcome = "failed"]]

\* Say so, wait, act, and go round again until it worked: every kind that Ship
\* does not have, in a loop only the limits stop.
NightlyNodes == {"say", "wait", "act", "worked", "done"}
Nightly == [n \in NightlyNodes |->
    CASE n = "say"    -> Node("emit", "wait", "wait")
      [] n = "wait"   -> Node("delay", "act", "act")
      [] n = "act"    -> Node("action", "worked", "worked")
      [] n = "worked" -> [Node("condition", "say", "done") EXCEPT !.check = "failed"]
      [] n = "done"   -> Node("end", "done", "done")]
NightlyEditions == {NightlyNodes, NightlyNodes \ {"act"}, {}}

\* Work for an agent, and the run is over.
WorkNodes == {"work", "worked", "failed"}
Work == [n \in WorkNodes |->
    CASE n = "work"   -> With(Node("agent", "worked", "failed"), s1)
      [] n = "worked" -> Node("end", "worked", "worked")
      [] n = "failed" -> [Node("end", "failed", "failed") EXCEPT !.outcome = "failed"]]
WorkEditions == {WorkNodes}

Tasks2 == {t1, t2}
Tasks3 == {t1, t2, t3}
Runs2  == {r1, r2}
Symmetry2 == Permutations(Tasks2)
BothSymmetries3 == Permutations(Tasks3) \cup Permutations(Runs2)

\* After a restart the workflow is as it was, without its tests, or gone.
ShipEditions == {ShipNodes, ShipNodes \ {"ask"}, {}}
=============================================================================
