--------------------------- MODULE WebhookPayload ---------------------------
(***************************************************************************)
(* The parsers: what a payload of GitHub, GitLab or Gitea (Forgejo) becomes *)
(* as a PREvent, and what the answer of the same platform's list of open   *)
(* pull requests becomes in a poll pass.  A payload is a pull request as it *)
(* was when the platform posted it, with what happened to it.              *)
(***************************************************************************)
EXTENDS Naturals

CONSTANTS
    None,       \* a field the event does not have
    Upstream    \* the URL of the watched repository

Platforms == {"github", "gitlab", "gitea"}

\* A PREvent without any field; returned for a payload to be skipped.
Skip == [ action |-> "skip", number |-> 0, branch |-> None, headSHA |-> None, cloneURL |-> None,
          association |-> None, labels |-> {},
          phrase |-> FALSE, commenter |-> None, commenterAssociation |-> None ]

\* The platform's word for what happened to a pull request, and the PREvent's.
GitHubActions ==
    [ opened |-> "opened", reopened |-> "opened", synchronize |-> "synchronize",
      closed |-> "closed", labeled |-> "labeled", unlabeled |-> "unlabeled" ]

\* GitLab has one word for a push, a change of labels and an edit.
GitLabActions ==
    [ open |-> "opened", reopen |-> "opened", update |-> "synchronize",
      close |-> "closed", merge |-> "closed" ]

\* Defect: the words that GitHub has for a change of labels.
GiteaActionsOfGitHub ==
    [ opened |-> "opened", reopened |-> "opened", synchronized |-> "synchronize",
      closed |-> "closed", labeled |-> "labeled", unlabeled |-> "unlabeled" ]

GiteaActions ==
    [ opened |-> "opened", reopened |-> "opened", synchronized |-> "synchronize",
      closed |-> "closed", label_updated |-> "labeled" ]

ActionsOf(platform) ==
    CASE platform = "github" -> GitHubActions
      [] platform = "gitlab" -> GitLabActions
      [] platform = "gitea"  -> GiteaActions

\* Only GitHub tells how an author relates to the repository.
Association(platform, association) ==
    IF platform = "github" THEN association ELSE "MEMBER"

\* Only GitHub's payloads name the repository of the head.
HeadClone(platform, clone) == IF platform = "github" THEN clone ELSE None

PullEvent(platform, p) ==
    [Skip EXCEPT !.action = ActionsOf(platform)[p.action], !.number = p.number,
                 !.branch = p.pull.branch, !.headSHA = p.pull.headSHA,
                 !.cloneURL = HeadClone(platform, p.pull.clone),
                 !.association = Association(platform, p.pull.association),
                 !.labels = p.pull.labels]

\* phrase: the body contains the trigger phrase.
Commented(platform, p) ==
    [Skip EXCEPT !.action = "comment", !.number = p.number, !.phrase = p.phrase,
                 !.commenter = p.commenter,
                 !.commenterAssociation = Association(platform, p.commenterAssociation)]

\* GitLab's notes carry the head of the merge request but no labels.
NoteEvent(p) ==
    [Commented("gitlab", p) EXCEPT !.branch = p.pull.branch, !.headSHA = p.pull.headSHA]

\* The comments of the others carry the labels but no head.
IssueCommentEvent(platform, p) == [Commented(platform, p) EXCEPT !.labels = p.pull.labels]

CommentEvent(platform, p) ==
    IF platform = "gitlab" THEN NoteEvent(p) ELSE IssueCommentEvent(platform, p)

\* Only comments on pull requests, and only new ones; GitLab's parser does not ask
\* which of them a note is.
NewComment(platform, p) ==
    p.kind = "comment" /\ (platform = "gitlab" \/ p.action = "created")

\* parsePlatformEvent: events of another kind, comments on issues and unknown actions
\* are skipped.
ParsePlatformEvent(platform, p) ==
    CASE p.kind = "pull" /\ p.action \in DOMAIN ActionsOf(platform) -> PullEvent(platform, p)
      [] NewComment(platform, p) -> CommentEvent(platform, p)
      [] OTHER -> Skip

-----------------------------------------------------------------------------
(* The same pull request in the answers of the platform's API *)

\* An openPR of fetchOpenPRs, as the event that poll makes of it.
OpenPREvent(platform, number, pull) ==
    [Skip EXCEPT !.action = "opened", !.number = number, !.branch = pull.branch,
                 !.headSHA = pull.headSHA, !.cloneURL = HeadClone(platform, pull.clone),
                 !.association = Association(platform, pull.association),
                 !.labels = pull.labels]

\* The repository a fetched head is built from: where the answer does not name it, the
\* watched one is assumed.
HeadRepository(platform, clone) == IF platform = "github" THEN clone ELSE Upstream

\* Defect: the commit is not taken from the answer.
WithPRHeadBranch(platform, event, pull) ==
    [event EXCEPT !.branch = pull.branch, !.cloneURL = HeadRepository(platform, pull.clone)]

\* fetchPRHead, for a comment without a head.
WithPRHead(platform, event, pull) ==
    [event EXCEPT !.headSHA = pull.headSHA, !.branch = pull.branch,
                  !.cloneURL = HeadRepository(platform, pull.clone)]
=============================================================================
