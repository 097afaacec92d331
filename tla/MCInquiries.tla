----------------------------- MODULE MCInquiries -----------------------------
(***************************************************************************)
(* Instances of Inquiries for TLC.                                         *)
(***************************************************************************)
EXTENDS Inquiries, TLC

(* No definition chooses among items, consignments, quotations or requests. *)
Symmetry ==
    Permutations(Items) \cup Permutations(Inqs) \cup Permutations(Quotes) \cup Permutations(Txns)
=============================================================================
