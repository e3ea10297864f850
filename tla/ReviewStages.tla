---------------------------- MODULE ReviewStages ----------------------------
(***************************************************************************)
(* What a review session promises its reviewers, with nothing of how it is *)
(* kept: the five stages and the moves between them, and that a response   *)
(* is written only while the review is "ready", a stage no move leaves     *)
(* while a write is under way.  SessionLifecycle implements it, alone and  *)
(* with the observers of SessionObservers.                                 *)
(***************************************************************************)
CONSTANT Reviewers

VARIABLES
  stage,    \* the session's stage
  writing   \* the reviewers whose write is under way

stageVars == <<stage, writing>>

Stages == {"draft", "validated", "ready", "expired", "archived"}

(* The moves session_lifecycle.py names. *)
Moves ==
  {<<"draft", "validated">>,      \* mark_validated
   <<"validated", "draft">>,      \* invalidate
   <<"validated", "ready">>,      \* activate_session
   <<"ready", "expired">>,        \* expire_session, observe_deadline
   <<"ready", "draft">>,          \* revert_session_to_draft
   <<"expired", "draft">>,
   <<"archived", "draft">>}       \* unarchive_session
  \cup ((Stages \ {"archived"}) \X {"archived"})   \* archive_session

Init == stage \in {"draft", "ready"} /\ writing = {}

Move ==
  /\ writing = {}
  /\ \E m \in Moves : stage = m[1] /\ stage' = m[2]
  /\ UNCHANGED writing

BeginWrite ==
  /\ stage = "ready"
  /\ \E w \in Reviewers \ writing : writing' = writing \cup {w}
  /\ UNCHANGED stage

EndWrite ==
  /\ \E w \in writing : writing' = writing \ {w}
  /\ UNCHANGED stage

Next == Move \/ BeginWrite \/ EndWrite

Spec == Init /\ [][Next]_stageVars
=============================================================================
