------------------------------- MODULE Paths -------------------------------
(***************************************************************************)
(* Relations without loops, as searches upward along them keep them.       *)
(***************************************************************************)

(* Sets that are left by no edge. *)
Closed(S, E) == \A e \in E : e[1] \in S => e[2] \in S

(* What a search from m along the edges of E finds among the nodes N. *)
Above(m, E, N) == {x \in N : \A S \in SUBSET N : m \in S /\ Closed(S, E) => x \in S}

(* From no set of nodes can one walk for ever inside the set. *)
Acyclic(E, N) == \A S \in SUBSET N : S # {} => \E x \in S : \A y \in S : <<x, y>> \notin E
=============================================================================
