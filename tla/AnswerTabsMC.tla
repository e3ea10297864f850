----------------------------- MODULE AnswerTabsMC -----------------------------
EXTENDS AnswerTabs, TLC

(* A required rating whose branch holds one required field.                *)
FormMC ==
    1 :> [ord |-> 0, choice |-> TRUE, req |-> TRUE, vis |-> TRUE,
          parent |-> NoField, cond |-> {"a"}, mode |-> "show"]
    @@ 2 :> [ord |-> 1, choice |-> TRUE, req |-> TRUE, vis |-> TRUE,
             parent |-> 1, cond |-> {}, mode |-> "show"]
=============================================================================
