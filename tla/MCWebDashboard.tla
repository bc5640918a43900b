--------------------------- MODULE MCWebDashboard ---------------------------
(* An instance of WebDashboard whose keys, derivations, sessions and       *)
(* transfers are interchangeable.                                          *)
EXTENDS WebDashboard, TLC

Symmetry ==
    Permutations(Keys) \union Permutations(Jobs)
        \union Permutations(Engines) \union Permutations(Sends)

=============================================================================
