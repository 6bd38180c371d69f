------------------------------ MODULE IoGraph ------------------------------
(***************************************************************************)
(* The graph that the routes of the mixer channels form.  A channel is a   *)
(* record with a bus_type and two addresses, in and out; channels is a     *)
(* function from the ids that exist.  A channel n feeds c when c takes its *)
(* input from n, or when n sends to c and c mixes what is sent to it,      *)
(* which it does only while its own input is the default.                  *)
(***************************************************************************)

Mixes(channels, c, default) == channels[c].in = default

IoChildren(channels, default) ==
    [n \in DOMAIN channels |->
        {c \in DOMAIN channels :
            \/ channels[c].in = n
            \/ channels[n].out = c /\ Mixes(channels, c, default)}]

\* A graph is a function from its nodes to the sets of their children.
IsGraph(children) == \A n \in DOMAIN children : children[n] \subseteq DOMAIN children

\* Every node of S can be left without leaving S.
Circles(children, S) == S # {} /\ \A n \in S : children[n] \cap S # {}

HasCycle(children) == \E S \in SUBSET DOMAIN children : Circles(children, S)
=============================================================================
