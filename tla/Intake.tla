------------------------------- MODULE Intake -------------------------------
(***************************************************************************)
(* From what happens to pull requests to the set of previews: the platform *)
(* posts payloads, parsePlatformEvent makes events of them, EvaluatePR     *)
(* judges them, HandleEvent creates, updates and deletes PRDeployments     *)
(* under the names that AppName gives them.  Deliveries are served one     *)
(* after another, in order and without failures: what goes wrong between   *)
(* two of them is in module Preview.                                       *)
(***************************************************************************)
EXTENDS TrustPolicy, Naming

CONSTANTS
    PRs,        \* pull request numbers
    SHAs,       \* head commits
    Url,        \* the path of the watched repository, a word
    Profiles,   \* what a pull request may be: association, clone URL, branch
    Configs,    \* the GitRepos looked at: platform, policy, name template
    Commenters, \* users who comment: login, association
    Words,      \* words the naming laws are checked for
    MaxMoves    \* bound on what happens to the pull requests

\* A pull request on the platform; a PRDeployment.
Pulls == [ state : {"new", "open", "closed"}, headSHA : SHAs, labels : SUBSET {"deploy"},
           association : {p.association : p \in Profiles}, clone : {p.clone : p \in Profiles},
           branch : {p.branch : p \in Profiles} ]

PRDs == [number : PRs, headSHA : SHAs, cloneURL : {p.clone : p \in Profiles} \cup {Upstream, None}]

ASSUME IntakeAssumption ==
    /\ PRs \subseteq DOMAIN Digits
    /\ Url \in Seq(Characters) /\ Words \subseteq Seq(Characters)
    /\ \A p \in Profiles : p.branch \in Seq(Characters)
    /\ SHAs # {} /\ None \notin SHAs /\ None \notin PRDs
    /\ MaxMoves \in Nat
    /\ \A c \in Configs : c.platform \in Platforms /\ c.template \in Templates

VARIABLES
    config,     \* the GitRepo, chosen at the start
    pulls,      \* the pull requests on the platform
    inbox,      \* payloads posted and not served yet, in order
    previews,   \* per name: the PRDeployment, or None
    asked,      \* history: pull requests a comment asked for, see Comment and Relabel
    uninvited,  \* history: those a comment asked for that should not have counted
    late,       \* history: closed pull requests that something happened to
    moves

vars == <<config, pulls, inbox, previews, asked, uninvited, late, moves>>

-----------------------------------------------------------------------------
\* AppName for this repository and its branches, as a table.
AppNames ==
    [template \in Templates |-> [number \in PRs |-> [branch \in {p.branch : p \in Profiles} |->
       AppName(template, Url, number, branch)]]]

NameFor(number, branch) == AppNames[config.template][number][branch]

IsOpen(pr) == pulls[pr].state = "open"

NameOf(pr) == NameFor(pr, pulls[pr].branch)
Names == DOMAIN previews

\* The words of all platforms for what happens to pull requests and comments.
PlatformWords ==
    { "opened", "reopened", "synchronize", "synchronized", "closed", "labeled", "unlabeled",
      "label_updated", "open", "reopen", "update", "close", "created", "edited" }

\* What the platform posts: a pull request as it is then, or a comment on it.
Payloads == [ kind : {"pull", "comment"}, action : PlatformWords, number : PRs, pull : Pulls,
              phrase : BOOLEAN, commenter : {u.login : u \in Commenters} \cup {None},
              commenterAssociation : {u.association : u \in Commenters} \cup {None} ]

TypeOK ==
    /\ config \in Configs
    /\ pulls \in [PRs -> Pulls] /\ inbox \in Seq(Payloads)
    /\ Names = {NameOf(pr) : pr \in PRs}
    /\ previews \in [Names -> PRDs \cup {None}]
    /\ asked \subseteq PRs /\ uninvited \subseteq PRs
    /\ late \subseteq {pr \in PRs : pulls[pr].state = "closed"}
    /\ moves \in 0..MaxMoves /\ Len(inbox) <= moves

NewPull(profile) ==
    [ state |-> "new", headSHA |-> CHOOSE sha \in SHAs : TRUE, labels |-> {},
      association |-> profile.association, clone |-> profile.clone, branch |-> profile.branch ]

Init ==
    /\ config \in Configs
    /\ pulls \in [PRs -> {NewPull(profile) : profile \in Profiles}]
    /\ previews = [name \in {NameOf(pr) : pr \in PRs} |-> None]
    /\ inbox = <<>> /\ asked = {} /\ uninvited = {} /\ late = {} /\ moves = 0

-----------------------------------------------------------------------------
(* HandleWebhookEvent, HandleEvent *)

\* createOrUpdatePRDeployment: the PRDeployment is found by its name alone.  Kubernetes
\* refuses to create one under an invalid name.
CreateOrUpdate(e) ==
    LET name == NameFor(e.number, e.branch)
        old == previews[name]
        new == [ number |-> e.number, headSHA |-> e.headSHA, cloneURL |-> e.cloneURL ]
    IN  IF old = None
        THEN [previews EXCEPT ![name] = IF ValidName(name) THEN new ELSE None]
        ELSE [previews EXCEPT ![name].headSHA = e.headSHA,
                              ![name].cloneURL = IF e.cloneURL = None THEN @ ELSE e.cloneURL]

\* deletePRDeployment: those that carry the number as a label.
Delete(number) ==
    [name \in Names |-> IF previews[name] # None /\ previews[name].number = number
                        THEN None ELSE previews[name]]

\* Defect: a change of labels that fails the policy is ignored like the other events.
HandleEventKeeping(e) ==
    CASE e.action = "closed"                     -> Delete(e.number)
      [] e.action \notin {"closed", "skip"} /\ EvaluatePR(config.policy, e)
           -> CreateOrUpdate(IF e.headSHA = None
                             THEN WithPRHead(config.platform, e, pulls[e.number]) ELSE e)
      [] OTHER                                   -> previews

HandleEvent(e) ==
    CASE e.action = "skip"   -> previews
      [] e.action = "closed" -> Delete(e.number)
      [] e.action \in {"opened", "synchronize"} /\ EvaluatePR(config.policy, e)
           -> CreateOrUpdate(e)
      [] e.action \in {"labeled", "unlabeled"}
           -> IF EvaluatePR(config.policy, e) THEN CreateOrUpdate(e) ELSE Delete(e.number)
      [] e.action = "comment" /\ EvaluatePR(config.policy, e)
           -> CreateOrUpdate(IF e.headSHA = None
                             THEN WithPRHead(config.platform, e, pulls[e.number]) ELSE e)
      [] OTHER               -> previews

Serve ==
    /\ inbox # <<>>
    /\ previews' = HandleEvent(ParsePlatformEvent(config.platform, Head(inbox)))
    /\ inbox' = Tail(inbox)
    /\ UNCHANGED <<config, pulls, asked, uninvited, late, moves>>

-----------------------------------------------------------------------------
(* poll *)

\* Defect: the repository is taken from the answer too.
MovedCloning(old, pull) ==
    [old EXCEPT !.headSHA = pull.headSHA, !.cloneURL = HeadClone(config.platform, pull.clone)]

\* Of what is there, only the head is updated, and no policy is asked.
Moved(old, pull) == [old EXCEPT !.headSHA = pull.headSHA]

\* What a pass would make of the previews: it updates those of open pull requests, creates
\* one for each other that the policy lets, and deletes the rest, unless no pull request is
\* open.  Creating is refused under an invalid name and under one that is taken; of two new
\* pull requests with one name the newer comes first in the list.
Polled ==
    LET open == {pr \in PRs : IsOpen(pr)}
        Answer(pr) == OpenPREvent(config.platform, pr, pulls[pr])
        Found(name) == {pr \in open : NameOf(pr) = name /\ EvaluatePR(config.policy, Answer(pr))}
        First(name) == Answer(CHOOSE pr \in Found(name) : \A other \in Found(name) : other <= pr)
    IN  [name \in Names |->
          LET old == previews[name]
          IN  CASE old # None /\ old.number \in open -> Moved(old, pulls[old.number])
                [] old # None /\ old.number \notin open -> IF open = {} THEN old ELSE None
                [] old = None /\ Found(name) # {} /\ ValidName(name) ->
                     [ number |-> First(name).number, headSHA |-> First(name).headSHA,
                       cloneURL |-> First(name).cloneURL ]
                [] OTHER -> None]

-----------------------------------------------------------------------------
(* The platform *)

\* Its word for what happened.
Word(what) ==
    CASE config.platform = "github" -> what
      [] config.platform = "gitlab" ->
           (CASE what = "opened"   -> "open"
              [] what = "reopened" -> "reopen"
              [] what = "closed"   -> "close"
              [] OTHER             -> "update")
      [] config.platform = "gitea"  ->
           (CASE what \in {"labeled", "unlabeled"} -> "label_updated"
              [] what = "synchronize"              -> "synchronized"
              [] OTHER                             -> what)

Payload(kind, action, pr, pull) ==
    [ kind |-> kind, action |-> action, number |-> pr, pull |-> pull,
      phrase |-> kind = "comment", commenter |-> None, commenterAssociation |-> None ]

Happens(pr, what, pull) ==
    /\ moves < MaxMoves /\ moves' = moves + 1
    /\ pulls' = [pulls EXCEPT ![pr] = pull]
    /\ inbox' = Append(inbox, Payload("pull", Word(what), pr, pull))
    /\ UNCHANGED <<config, previews>>

\* Labels, edits and comments are possible after the end of a pull request too.
Exists(pr) == pulls[pr].state # "new"
Noted(pr) == late' = IF IsOpen(pr) THEN late ELSE late \cup {pr}

Open(pr) ==
    /\ ~IsOpen(pr)
    /\ Happens(pr, IF Exists(pr) THEN "reopened" ELSE "opened", [pulls[pr] EXCEPT !.state = "open"])
    /\ late' = late \ {pr} /\ UNCHANGED <<asked, uninvited>>

Close(pr) ==
    /\ IsOpen(pr)
    /\ Happens(pr, "closed", [pulls[pr] EXCEPT !.state = "closed"])
    /\ asked' = asked \ {pr} /\ uninvited' = uninvited \ {pr} /\ UNCHANGED late

Push(pr) ==
    /\ IsOpen(pr)
    /\ \E sha \in SHAs \ {pulls[pr].headSHA} :
         Happens(pr, "synchronize", [pulls[pr] EXCEPT !.headSHA = sha])
    /\ UNCHANGED <<asked, uninvited, late>>

\* Where a change of labels is an event of its own, it is judged by itself, and what a
\* comment asked for before does not count any more.
Relabel(pr) ==
    /\ Exists(pr)
    /\ IF pulls[pr].labels = {}
       THEN Happens(pr, "labeled", [pulls[pr] EXCEPT !.labels = {"deploy"}])
       ELSE Happens(pr, "unlabeled", [pulls[pr] EXCEPT !.labels = {}])
    /\ IF config.platform = "gitlab" THEN UNCHANGED <<asked, uninvited>>
       ELSE asked' = asked \ {pr} /\ uninvited' = uninvited \ {pr}
    /\ Noted(pr)

\* The title or the description.
Edit(pr) ==
    Exists(pr) /\ Happens(pr, "edited", pulls[pr]) /\ Noted(pr) /\ UNCHANGED <<asked, uninvited>>

\* What the documentation calls a member of the repository, on every platform.
Member(association) == association \in {"OWNER", "MEMBER", "COLLABORATOR"}

\* The associations a policy trusts.  Where the platform does not tell them,
\* example-complex.md:56 has an outsider mapped to NONE.
Trusts(association) ==
    /\ AssociationAllowed(config.policy, Association(config.platform, association))
    /\ config.platform = "github" \/ Member(association)

\* What the documentation says of comments: the list of commenters takes precedence
\* over the associations (example-complex.md:71), and "*" on it is any member of the
\* repository (example-complex.md:73, types.go:118).
MayAsk(user) ==
    /\ config.policy.commentTrigger
    /\ IF config.policy.commenters = {}
       THEN Trusts(user.association)
       ELSE \/ user.login \in config.policy.commenters
            \/ "*" \in config.policy.commenters /\ Member(user.association)

\* What it does not say, and EvaluateComment does: "*" is anybody, and so is a member
\* where the platform does not tell who is one.
Uninvited(user) ==
    /\ config.policy.commentTrigger /\ ~MayAsk(user)
    /\ IF config.policy.commenters = {}
       THEN config.platform # "github" /\ AssociationAllowed(config.policy, "MEMBER")
       ELSE "*" \in config.policy.commenters

\* On GitLab an edited comment is as good as a new one.
Comment(pr, user, action) ==
    /\ Exists(pr)
    /\ moves < MaxMoves /\ moves' = moves + 1
    /\ inbox' = Append(inbox, [Payload("comment", action, pr, pulls[pr]) EXCEPT
                                 !.commenter = user.login,
                                 !.commenterAssociation = user.association])
    /\ LET new == action = "created" \/ config.platform = "gitlab"
       IN  /\ asked' = IF new /\ MayAsk(user) THEN asked \cup {pr} ELSE asked
           /\ uninvited' = IF new /\ Uninvited(user) THEN uninvited \cup {pr} ELSE uninvited
    /\ Noted(pr)
    /\ UNCHANGED <<config, previews, pulls>>

-----------------------------------------------------------------------------
Next ==
    \/ Serve
    \/ \E pr \in PRs :
         \/ Open(pr) \/ Close(pr) \/ Push(pr) \/ Relabel(pr) \/ Edit(pr)
         \/ \E user \in Commenters, action \in {"created", "edited"} : Comment(pr, user, action)

Spec == Init /\ [][Next]_vars

-----------------------------------------------------------------------------
(* Safety: once everything that was posted has been served *)

Served == inbox = <<>>

\* A name of its own that Kubernetes accepts.
WellNamed(pr) == ValidName(NameOf(pr)) /\ \A other \in PRs \ {pr} : NameOf(other) # NameOf(pr)

Preview(pr) == previews[NameOf(pr)]

\* The conditions of example-complex.md:57-65, on what the platform tells: the author's
\* association is allowed and the required label is there.
Eligible(pr) ==
    /\ AssociationAllowed(config.policy, Association(config.platform, pulls[pr].association))
    /\ config.policy.label \in {None} \cup pulls[pr].labels

\* "When a PR is opened by a trusted author with the label" (example-complex.md:171): an
\* open and eligible pull request has a preview of its present head, from the repository
\* of its head where the platform tells, whatever sequence of pushes, labels, comments and
\* reopenings led there.
EligibleIsDeployed ==
    Served => \A pr \in PRs : IsOpen(pr) /\ Eligible(pr) /\ WellNamed(pr) =>
      /\ Preview(pr) # None
      /\ Preview(pr).headSHA = pulls[pr].headSHA
      /\ config.platform = "github" => Preview(pr).cloneURL = pulls[pr].clone

\* And nothing else has one: the pull request of a preview is open, has the label and an
\* author the policy trusts, or a comment asked for it that may.  The exceptions are those
\* the code makes against its documentation: a closed pull request that got a label or a
\* comment, since no parser looks at the state; on GitLab the label, whose removal is an
\* update like any other; on GitLab and Gitea an outsider, who should be mapped to NONE
\* (example-complex.md:56) and is taken for a MEMBER; and a comment of somebody who is let
\* in by "*" or as such a member, and should not be.
PreviewIsWanted ==
    Served => \A name \in Names : previews[name] # None =>
      LET pr == previews[name].number
      IN  /\ IsOpen(pr) \/ pr \in late
          /\ \/ Eligible(pr) /\ Trusts(pulls[pr].association)
             \/ pr \in asked
             \/ config.platform = "gitlab" /\ config.policy.label # None
             \/ config.platform # "github" /\ Eligible(pr) /\ ~Member(pulls[pr].association)
             \/ pr \in uninvited

\* docs/example-complex.md:67, "Allow /deploy comments to trigger or re-trigger": what a
\* comment of somebody who may ask asked for is there, and survives the pushes of an author
\* who is not trusted.
AskedIsDeployed ==
    Served => \A pr \in asked : IsOpen(pr) /\ WellNamed(pr) => Preview(pr) # None

\* A GitRepo that is switched from webhooks to polling finds in its first pass what the
\* webhooks left: the pass judges other answers of the platform, updates nothing but heads
\* and creates without looking at what is there, and yet, of the pull requests that are
\* open and either eligible or without a preview, it changes none.  Of the others, those a
\* comment asked for, it takes the head to the last push, which a webhook would not.
PollConfirms ==
    Served => \A pr \in PRs : IsOpen(pr) /\ WellNamed(pr) /\ (Eligible(pr) \/ Preview(pr) = None) =>
      Polled[NameOf(pr)] = Preview(pr)

-----------------------------------------------------------------------------
(* Naming *)

\* app.go:258, "converts a string into a valid lowercase k8s/DNS name segment": a slug is
\* the letters and digits in order, with a dash where other characters stood between two of
\* them, so it is a valid name unless it is empty or was cut behind a dash; and under the
\* GitRepo's template a branch and its slug have one name, though AppName slugifies twice
\* and may cut twice.  Looked at where nothing has happened yet: names do not change later.
NameLaws ==
    moves = 0 => \A w \in Words :
      /\ IsSlugOf(Clean(w), w)
      /\ IsPrefix(Slugify(w), Clean(w)) /\ Len(Slugify(w)) <= MaxName
      /\ Len(Clean(w)) <= MaxName /\ Clean(w) # <<>> => ValidName(Slugify(w))
      /\ \A pr \in PRs : AppName(config.template, Url, pr, Slugify(w)) =
                         AppName(config.template, Url, pr, w)
=============================================================================
