------------------------ MODULE MCRequestPreparation ------------------------
(* An instance of RequestPreparation for TLC: one contact whose evidence   *)
(* names two companies.                                                    *)
EXTENDS RequestPreparation

CONSTANTS c1, x1, x2, d1, t1

TwoMatches == {<<c1, x1>>, <<c1, x2>>}
OnlyContact == [cy \in Cycles |-> c1]
FirstDepartment == [cy \in Cycles |-> d1]

NoLinks == [c \in Contacts |-> [x \in Companies |-> "none"]]
NoRules == [d \in Departments |-> <<>>]

Unlinked == {NoLinks}

(* Nothing yet, or a link that is confirmed; nothing yet, or a rule.       *)
Links == {NoLinks, [NoLinks EXCEPT ![c1][x1] = "confirmed"]}
Rules ==
    {NoRules, [NoRules EXCEPT ![d1] = <<[target |-> t1, state |-> "active"]>>]}

AnyWorker == Permutations(Workers)
=============================================================================
