---------------------------- MODULE TrustPolicy -----------------------------
(***************************************************************************)
(* policy.EvaluatePR: does an event of the platform trigger a deployment?  *)
(* Associations, labels and names are compared without regard to case, so  *)
(* each value here stands for all its spellings.                           *)
(***************************************************************************)
EXTENDS WebhookPayload

\* A policy has the fields of PRPolicySpec: the allowed associations, the required
\* label or None, whether comments trigger, and the commenters; {} if not given.
DefaultAllowedAssociations == {"OWNER", "MEMBER", "COLLABORATOR"}

AssociationAllowed(policy, association) ==
    association \in IF policy.allowed = {} THEN DefaultAllowedAssociations ELSE policy.allowed

HasLabel(labels, label) == label \in labels

\* Defect: a commenter on the list must have an allowed association too.
EvaluateCommentBoth(policy, event) ==
    /\ policy.commentTrigger
    /\ event.phrase
    /\ policy.commenters # {} => {"*", event.commenter} \cap policy.commenters # {}
    /\ AssociationAllowed(policy, event.commenterAssociation)

\* The list of commenters takes precedence over the associations.
EvaluateComment(policy, event) ==
    /\ policy.commentTrigger
    /\ event.phrase
    /\ IF policy.commenters # {}
       THEN {"*", event.commenter} \cap policy.commenters # {}
       ELSE AssociationAllowed(policy, event.commenterAssociation)

EvaluatePR(policy, event) ==
    IF event.action = "comment" THEN EvaluateComment(policy, event)
    ELSE /\ AssociationAllowed(policy, event.association)
         /\ policy.label # None => HasLabel(event.labels, policy.label)
=============================================================================
