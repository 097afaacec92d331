-------------------------- MODULE MCCorrespondence --------------------------
(* Instances of Correspondence for TLC. *)
EXTENDS Correspondence, TLC

Mail == [from |-> "supplier", who |-> "li", reply |-> TRUE, coded |-> TRUE, body |-> {}, subject |-> {},
         attached |-> FALSE, text |-> "offer", id |-> TRUE]

(* Li's offer for the first line, one without a Message-ID, and a letter about both lines with a sheet. *)
Offer == [Mail EXCEPT !.body = {1}]
Bare == [Mail EXCEPT !.body = {1}, !.id = FALSE]
Sheet == [Mail EXCEPT !.text = "blank", !.attached = TRUE, !.subject = {1}]
(* An offer that only an RFQ or a live line ties to the consignment; a stranger's; our answer and our own letter. *)
Untied == [Mail EXCEPT !.coded = FALSE]
Stranger == [Mail EXCEPT !.who = "unknown", !.coded = FALSE, !.subject = {2}]
Answer == [Mail EXCEPT !.from = "us", !.subject = {1}]
Letter == [Answer EXCEPT !.reply = FALSE]

AllKinds == [m \in Mails |-> IF m = 1 THEN {Offer, Bare, Sheet} ELSE {Offer, Untied, Stranger, Answer, Letter}]
AllStarts == {[live |-> Lines, asked |-> {}], [live |-> {1}, asked |-> {<<1, "li">>}]}
RequestSymmetry == Permutations(Requests)
=============================================================================
