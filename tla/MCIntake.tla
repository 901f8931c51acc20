------------------------------ MODULE MCIntake ------------------------------
(***************************************************************************)
(* Intake for TLC: one GitRepo per line of MCConfigs, and pull requests    *)
(* whose branches collide, are too long, or do neither.                    *)
(***************************************************************************)
EXTENDS Intake

MCDigits == <<<<"1">>, <<"2">>>>

MCUrl == <<"a", "/", "B">>

Anyone == [allowed |-> {}, label |-> None, commentTrigger |-> FALSE, commenters |-> {}]

Policies ==
    { Anyone,
      [Anyone EXCEPT !.label = "deploy", !.commentTrigger = TRUE],
      [Anyone EXCEPT !.allowed = {"OWNER"}, !.commentTrigger = TRUE, !.commenters = {"ann"}],
      [Anyone EXCEPT !.label = "deploy", !.commentTrigger = TRUE, !.commenters = {"*"}] }

MCConfigs == [platform : Platforms, policy : Policies, template : {"number", "repo-branch"}]

MCProfiles ==
    { [association |-> "MEMBER", clone |-> Upstream, branch |-> <<"a", "/", "b">>],
      [association |-> "OWNER",  clone |-> "fork",   branch |-> <<"a", "_", "B">>],
      [association |-> "NONE",   clone |-> "fork",   branch |-> <<"a", "b", "a", "b", "/", "a">>] }

MCCommenters ==
    { [login |-> "ann", association |-> "NONE"], [login |-> "bob", association |-> "MEMBER"] }

ShortWords == UNION {[1..n -> {"a", "B", "-", "/"}] : n \in 0..3}
MCWords == ShortWords \cup {w \o <<"a", ".">> \o w : w \in ShortWords}
=============================================================================
