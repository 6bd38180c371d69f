--------------------------- MODULE HasCycleSearch ---------------------------
(***************************************************************************)
(* The depth-first search of mixer.cpp that decides whether a graph of     *)
(* routes has a cycle, one step per call, return and iteration.  Nodes are *)
(* marked visited when a call enters them and finished when it leaves      *)
(* them; meeting a node that is visited and not finished ends the search.  *)
(* The outer loop and the loops over children take their elements in any   *)
(* order, where the code takes the order of the ids.                       *)
(***************************************************************************)
EXTENDS IoGraph, Naturals, Sequences

CONSTANT Node

VARIABLES
    children,   \* the graph
    visited,
    finished,
    todo,       \* nodes that the outer loop has not come to
    stack,      \* the calls in progress, each with the children it has not
                \* come to
    result      \* "unknown" until there is an answer: "cyclic" or "acyclic"

searchVars == <<children, visited, finished, todo, stack, result>>

SearchInit ==
    /\ children \in [Node -> SUBSET Node]
    /\ visited = {}
    /\ finished = {}
    /\ todo = Node
    /\ stack = <<>>
    /\ result = "unknown"

-----------------------------------------------------------------------------
\* Mutant of Frame: only one of a node's children is looked at.
FrameOneChild(n) ==
    [node |-> n, rest |-> IF children[n] = {} THEN {}
                          ELSE {CHOOSE c \in children[n] : TRUE}]

Frame(n) == [node |-> n, rest |-> children[n]]

\* has_cycle(g, n), called with the stack s of callers.
Call(n, s) ==
    \/ /\ n \in finished
       /\ stack' = s
       /\ UNCHANGED <<visited, result>>
    \/ /\ n \in visited \ finished
       /\ result' = "cyclic"
       /\ stack' = s
       /\ UNCHANGED visited
    \/ /\ n \notin visited
       /\ visited' = visited \cup {n}
       /\ stack' = Append(s, Frame(n))
       /\ UNCHANGED result

SearchFrom(n) ==
    /\ result = "unknown" /\ stack = <<>>
    /\ n \in todo
    /\ todo' = todo \ {n}
    /\ Call(n, stack)
    /\ UNCHANGED <<children, finished>>

Top == stack[Len(stack)]

\* The stack s, after the loop of its last call has come to the child c.
Advanced(s, c) ==
    LET top == s[Len(s)] IN
    [s EXCEPT ![Len(s)] = [node |-> top.node, rest |-> top.rest \ {c}]]

\* Mutant of Follow: the loop over the children does not advance.
FollowAgain(c) ==
    /\ result = "unknown" /\ stack # <<>>
    /\ c \in Top.rest
    /\ Call(c, stack)
    /\ UNCHANGED <<children, finished, todo>>

Follow(c) ==
    /\ result = "unknown" /\ stack # <<>>
    /\ c \in Top.rest
    /\ Call(c, Advanced(stack, c))
    /\ UNCHANGED <<children, finished, todo>>

Finish ==
    /\ result = "unknown" /\ stack # <<>>
    /\ Top.rest = {}
    /\ finished' = finished \cup {Top.node}
    /\ stack' = SubSeq(stack, 1, Len(stack) - 1)
    /\ UNCHANGED <<children, visited, todo, result>>

NoneFound ==
    /\ result = "unknown" /\ stack = <<>>
    /\ todo = {}
    /\ result' = "acyclic"
    /\ UNCHANGED <<children, visited, finished, todo, stack>>

SearchNext ==
    \/ \E n \in Node : SearchFrom(n) \/ Follow(n)
    \/ Finish
    \/ NoneFound

SearchSpec == SearchInit /\ [][SearchNext]_searchVars
FairSearchSpec == SearchSpec /\ WF_searchVars(SearchNext)

-----------------------------------------------------------------------------
\* The type of each variable.
SearchTypeOK ==
    /\ children \in [Node -> SUBSET Node]
    /\ visited \subseteq Node
    /\ finished \subseteq Node
    /\ todo \subseteq Node
    /\ stack \in Seq([node : Node, rest : SUBSET Node])
    /\ result \in {"unknown", "cyclic", "acyclic"}

\* The nodes that are visited and not finished are the ones being searched,
\* and everything below a finished node is finished: without the second, the
\* early return for a finished node would be wrong.
MarksAreRight ==
    result = "unknown" =>
        /\ finished \subseteq visited
        /\ visited \ finished = {stack[i].node : i \in DOMAIN stack}
        /\ \A n \in finished : children[n] \subseteq finished

\* The search answers true exactly for the graphs with a cycle.
AnswersHasCycle == result # "unknown" => (result = "cyclic" <=> HasCycle(children))

\* The recursion ends, also on a cyclic graph.
Answers == <>(result # "unknown")
=============================================================================
