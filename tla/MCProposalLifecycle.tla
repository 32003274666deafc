-------------------------- MODULE MCProposalLifecycle --------------------------
(* The instances of ProposalLifecycle that TLC checks.                      *)
EXTENDS ProposalLifecycle, TLC

\* Two ticks of the signal loop run beside each other or beside a monitor and a tab, not
\* both: a bound on the search.
TicksRaceAlone ==
  Cardinality({g \in Generators : pc[g] # "idle"}) > 1
    => \A a \in Monitors \cup Tabs : pc[a] = "idle"

Symmetry == Permutations(Generators) \cup Permutations(Proposals) \cup Permutations(Positions)
              \cup Permutations(Orders) \cup Permutations(Signatures)
================================================================================
