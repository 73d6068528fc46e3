---------------------------- MODULE MCOperations ----------------------------
(* Two requests at a time; a small register of each kind. *)
EXTENDS Operations, TLC
CONSTANTS c1, c2, x1, m1, m2

MCInspections ==
    {[inspection_date |-> 1, result |-> "ADVISORY", next_due_date |-> due] : due \in {None, 2}}
    \union {[inspection_date |-> 2, result |-> "SATISFACTORY", next_due_date |-> 3]}

MCStatusConfig(n) == [due_soon_days |-> n, never_assessed_grace_days |-> n]
MCStatusConfigs == {MCStatusConfig(0), MCStatusConfig(1)}
MCDefaultStatusConfig == MCStatusConfig(0)

MCHazardRule(w) == [window_months |-> w, threshold |-> 2 - w]
MCHazardRules == {MCHazardRule(1), MCHazardRule(0)}
MCDefaultHazardRule == MCHazardRule(1)

\* Model m2 is installed nowhere.
MCModelOf == [x \in {x1} |-> m1]
MCRepairRule(p, x, base) ==
    [property_window |-> p, property_threshold |-> 2, component_window |-> x,
     component_threshold |-> 2, ratio |-> 15, min_installed_base |-> base]
MCRepairRules == {MCRepairRule(1, 2, 1), MCRepairRule(2, 0, 0)}
MCDefaultRepairRules == MCRepairRule(1, 2, 1)

MCMaxRequests == [compliance |-> 5, hazards |-> 6, repairs |-> 4]

MCClerks == {c1, c2}
Symmetry == Permutations(MCClerks)
=============================================================================
