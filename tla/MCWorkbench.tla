----------------------------- MODULE MCWorkbench -----------------------------
EXTENDS Workbench

TwoSubgraphs == <<"sdl", "sdl">>

\* A workspace as it comes from a link or a file: three query tabs, the second
\* one active, inputs of its own.
Sent == {[id |-> NoId, subgraphs |-> Array(0, <<"sdl">>), activeSubgraph |-> 1,
          queryTabs |-> <<"", "q", "">>, activeQueryTab |-> 2, inputs |-> 1]}

\* Every increasing sequence of positions, for as many tabs as there can be.
AllSelections ==
  [n \in 0 .. 5 |->
     UNION {{kept \in [1 .. m -> 1 .. n] : \A j, k \in 1 .. m : j < k => kept[j] < kept[k]}
            : m \in 0 .. n}]
=============================================================================
