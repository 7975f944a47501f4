---------------------------- MODULE MCGroupTest -----------------------------
(***************************************************************************)
(* TLC instances of GroupTest: a group nested in another, one nested in    *)
(* two, and a cycle; a request may name a nested group as well, or a node. *)
(***************************************************************************)
EXTENDS GroupTest

CONSTANTS vpn, fast, backup, near, far

MCGroups   == {vpn, fast, backup}
MCNodes    == {near, far}
MCUrlTests == {vpn, fast}

Tree   == (vpn :> <<far, fast>>) @@ (fast :> <<far, near>>) @@ (backup :> <<fast, far>>)
Shared == (vpn :> <<fast, backup>>) @@ (backup :> <<fast>>) @@ (fast :> <<far, near>>)
Cycle  == (vpn :> <<fast, near>>) @@ (fast :> <<vpn, far>>) @@ (backup :> <<far>>)

MCGraphs == {Tree, Shared, Cycle}

MCLatencies == {(near :> 1) @@ (far :> 2), (near :> 0) @@ (far :> 1)}

MCRequests == {<<fast, vpn>>, <<far>>}

NoSelection  == <<>>
OneSelection == (fast :> far)

Symmetry == Permutations(Tests)

=============================================================================
