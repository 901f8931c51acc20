---------------------------- MODULE IntakeProofs ----------------------------
(***************************************************************************)
(* Proofs about Intake: its states are well typed, and what is true of the *)
(* previews once every payload has been served.                            *)
(***************************************************************************)
EXTENDS Intake, NamingProofs

(* Payloads in a queue.  The last word on a pull request is a good payload behind  *)
(* which there is no bad one; when there is none, nothing bad may be in the queue. *)
Coming(q, good, bad) ==
    \E i \in 1..Len(q) : q[i] \in good /\ \A j \in 1..Len(q) : j > i => q[j] \notin bad

Undisturbed(q, bad) == \A j \in 1..Len(q) : q[j] \notin bad

LEMMA Posted ==
  ASSUME NEW S, NEW q \in Seq(S), NEW p \in S, NEW good, NEW bad
  PROVE  /\ Append(q, p) \in Seq(S) /\ Len(Append(q, p)) = Len(q) + 1
         /\ p \in good => Coming(Append(q, p), good, bad)
         /\ p \notin bad /\ Coming(q, good, bad) => Coming(Append(q, p), good, bad)
         /\ p \notin bad /\ Undisturbed(q, bad) => Undisturbed(Append(q, p), bad)
  <1> DEFINE r == Append(q, p)
  <1>1. /\ r \in Seq(S) /\ Len(q) \in Nat /\ Len(r) = Len(q) + 1 /\ r[Len(q) + 1] = p
        /\ \A i \in 1..Len(q) : r[i] = q[i]
    BY AppendProperties, LenProperties
  <1> HIDE DEF r
  <1>2. ASSUME p \in good PROVE Coming(r, good, bad)
    BY <1>1, <1>2 DEF Coming
  <1>3. ASSUME p \notin bad, Coming(q, good, bad) PROVE Coming(r, good, bad)
    <2>1. PICK i \in 1..Len(q) : q[i] \in good /\ \A j \in 1..Len(q) : j > i => q[j] \notin bad
      BY <1>3 DEF Coming
    <2>2. i \in 1..Len(r) /\ r[i] \in good
      BY <1>1, <2>1
    <2>3. ASSUME NEW j \in 1..Len(r), j > i PROVE r[j] \notin bad
      BY <1>1, <1>3, <2>1, <2>3
    <2> QED
      BY <2>2, <2>3 DEF Coming
  <1>4. ASSUME p \notin bad, Undisturbed(q, bad) PROVE Undisturbed(r, bad)
    BY <1>1, <1>4 DEF Undisturbed
  <1> QED
    BY <1>1, <1>2, <1>3, <1>4 DEF r

LEMMA Taken ==
  ASSUME NEW S, NEW q \in Seq(S), q # <<>>, NEW good, NEW bad
  PROVE  /\ Head(q) \in S /\ Tail(q) \in Seq(S) /\ Len(Tail(q)) = Len(q) - 1
         /\ Coming(q, good, bad) =>
              \/ Coming(Tail(q), good, bad)
              \/ Head(q) \in good /\ Undisturbed(Tail(q), bad)
         /\ Undisturbed(q, bad) => Head(q) \notin bad /\ Undisturbed(Tail(q), bad)
  <1> DEFINE t == Tail(q)
  <1>1. /\ t \in Seq(S) /\ Len(q) \in Nat \ {0} /\ Len(t) = Len(q) - 1 /\ Head(q) = q[1]
        /\ Head(q) \in S /\ \A i \in 1..Len(t) : t[i] = q[i + 1]
    BY HeadTailProperties, EmptySeq, LenProperties
  <1> HIDE DEF t
  <1>2. ASSUME Coming(q, good, bad), ~Coming(t, good, bad)
        PROVE  Head(q) \in good /\ Undisturbed(t, bad)
    <2>1. PICK i \in 1..Len(q) : q[i] \in good /\ \A j \in 1..Len(q) : j > i => q[j] \notin bad
      BY <1>2 DEF Coming
    <2>2. i = 1
      <3>1. SUFFICES ASSUME i # 1 PROVE FALSE
        OBVIOUS
      <3>2. i - 1 \in 1..Len(t) /\ t[i - 1] = q[i]
        BY <1>1, <3>1
      <3>3. ASSUME NEW j \in 1..Len(t), j > i - 1 PROVE t[j] \notin bad
        BY <1>1, <2>1, <3>3
      <3> QED
        BY <1>2, <2>1, <3>2, <3>3 DEF Coming
    <2> QED
      BY <1>1, <2>1, <2>2 DEF Undisturbed
  <1>3. ASSUME Undisturbed(q, bad) PROVE Head(q) \notin bad /\ Undisturbed(t, bad)
    BY <1>1, <1>3 DEF Undisturbed
  <1> QED
    BY <1>1, <1>2, <1>3 DEF t

LEMMA EmptyQueue ==
  ASSUME NEW good, NEW bad
  PROVE  ~Coming(<<>>, good, bad) /\ Undisturbed(<<>>, bad)
  BY DEF Coming, Undisturbed

-----------------------------------------------------------------------------
(* Events *)

Event(p) == ParsePlatformEvent(config.platform, p)

\* The actions whose event is applied when it passes the policy.
Applied == {"opened", "synchronize", "labeled", "unlabeled", "comment"}

\* Payloads that create or update the PRDeployment of pr, and those that delete it.
Deploying(pr) ==
    {p \in Payloads : /\ p.number = pr
                      /\ Event(p).action \in Applied /\ EvaluatePR(config.policy, Event(p))}
Removing(pr) ==
    {p \in Payloads : /\ p.number = pr
                      /\ \/ Event(p).action = "closed"
                         \/ /\ Event(p).action \in {"labeled", "unlabeled"}
                            /\ ~EvaluatePR(config.policy, Event(p))}

\* A head that a push has replaced.
Stale(pr) == {p \in Payloads : Event(p).headSHA \notin {None, pulls[pr].headSHA}}

\* The policy's verdict on a pull request as it is in a payload.
Passes(pull) ==
    /\ AssociationAllowed(config.policy, Association(config.platform, pull.association))
    /\ config.policy.label \in {None} \cup pull.labels

Happenings == {"opened", "reopened", "closed", "synchronize", "labeled", "unlabeled", "edited"}

\* What an event of the platform is to the parser.
LEMMA WordActions ==
  ASSUME config.platform \in Platforms, NEW what \in Happenings
  PROVE  LET actions == ActionsOf(config.platform)
         IN  /\ Word(what) \in PlatformWords
             /\ Word(what) \in DOMAIN actions <=> (what = "edited" => config.platform = "gitlab")
             /\ what \in {"opened", "reopened"} => actions[Word(what)] = "opened"
             /\ what = "closed" => actions[Word(what)] = "closed"
             /\ what = "synchronize" => actions[Word(what)] = "synchronize"
             /\ what \in {"labeled", "unlabeled"} =>
                  IF config.platform = "gitlab" THEN actions[Word(what)] = "synchronize"
                  ELSE actions[Word(what)] \in {"labeled", "unlabeled"}
             /\ what = "edited" /\ config.platform = "gitlab" =>
                  actions[Word(what)] = "synchronize"
  <1>1. CASE config.platform = "github"
    BY <1>1 DEF Word, ActionsOf, GitHubActions, Happenings, PlatformWords
  <1>2. CASE config.platform = "gitlab"
    BY <1>2 DEF Word, ActionsOf, GitLabActions, Happenings, PlatformWords
  <1>3. CASE config.platform = "gitea"
    BY <1>3 DEF Word, ActionsOf, GiteaActions, Happenings, PlatformWords
  <1> QED
    BY <1>1, <1>2, <1>3 DEF Platforms

LEMMA ConfigType == TypeOK => config.platform \in Platforms
  BY IntakeAssumption DEF TypeOK

\* The event of a payload about the pull request itself.
LEMMA PullEventFields ==
  ASSUME NEW platform, NEW p
  PROVE  LET e == PullEvent(platform, p)
         IN  /\ e.action = ActionsOf(platform)[p.action] /\ e.number = p.number
             /\ e.branch = p.pull.branch /\ e.headSHA = p.pull.headSHA
             /\ e.cloneURL = HeadClone(platform, p.pull.clone)
             /\ e.association = Association(platform, p.pull.association)
             /\ e.labels = p.pull.labels
  BY DEF PullEvent, Skip

LEMMA CommentEventFields ==
  ASSUME NEW platform, NEW p
  PROVE  LET e == CommentEvent(platform, p)
         IN  /\ e.action = "comment" /\ e.number = p.number /\ e.phrase = p.phrase
             /\ e.commenter = p.commenter
             /\ e.commenterAssociation = Association(platform, p.commenterAssociation)
             /\ platform = "gitlab" => e.branch = p.pull.branch /\ e.headSHA = p.pull.headSHA
             /\ platform # "gitlab" => e.headSHA = None
             /\ e.cloneURL = None
  BY DEF CommentEvent, NoteEvent, IssueCommentEvent, Commented, Skip

\* Which payloads about a pull request deploy or remove it.
LEMMA PullPosted ==
  ASSUME TypeOK, NEW pr \in PRs, NEW pull \in Pulls, NEW what \in Happenings,
         NEW p, p = Payload("pull", Word(what), pr, pull)
  PROVE  /\ p \in Payloads /\ p.number = pr /\ p.pull = pull
         /\ p \in Deploying(pr) <=>
              Passes(pull) /\ what # "closed" /\ (what = "edited" => config.platform = "gitlab")
         /\ p \in Removing(pr) <=>
              \/ what = "closed"
              \/ /\ what \in {"labeled", "unlabeled"} /\ config.platform # "gitlab"
                 /\ ~Passes(pull)
         /\ Event(p).headSHA \in {None, pull.headSHA}
  <1> DEFINE actions == ActionsOf(config.platform)
  <1>1. config.platform \in Platforms
    BY ConfigType
  <1>2. /\ p \in Payloads /\ p.number = pr /\ p.pull = pull
        /\ p.kind = "pull" /\ p.action = Word(what)
    BY <1>1, WordActions DEF Payload, Payloads
  <1>3. CASE Word(what) \in DOMAIN actions
    <2>1. Event(p) = PullEvent(config.platform, p)
      BY <1>2, <1>3 DEF Event, ParsePlatformEvent, NewComment
    <2>2. /\ Event(p).action = actions[Word(what)] /\ Event(p).headSHA = pull.headSHA
          /\ Event(p).association = Association(config.platform, pull.association)
          /\ Event(p).labels = pull.labels
      BY <1>2, <2>1, PullEventFields
    <2>3. actions[Word(what)] \in {"opened", "closed", "synchronize", "labeled", "unlabeled"}
      BY <1>1, <1>3, WordActions DEF Happenings
    <2>4. EvaluatePR(config.policy, Event(p)) <=> Passes(pull)
      BY <2>2, <2>3 DEF EvaluatePR, Passes, HasLabel
    <2> QED
      BY <1>1, <1>2, <1>3, <2>2, <2>3, <2>4, WordActions
      DEF Deploying, Removing, Applied, Happenings
  <1>4. CASE Word(what) \notin DOMAIN actions
    <2>1. Event(p).action = "skip" /\ Event(p).headSHA = None
      BY <1>2, <1>4 DEF Event, ParsePlatformEvent, NewComment, Skip
    <2> QED
      BY <1>1, <1>2, <1>4, <2>1, WordActions DEF Deploying, Removing, Applied
  <1> QED
    BY <1>3, <1>4

CommentPayload(pr, user, action) ==
    [Payload("comment", action, pr, pulls[pr]) EXCEPT !.commenter = user.login,
                                                      !.commenterAssociation = user.association]

\* A comment deploys when its author may ask, or should not and may; it removes nothing.
LEMMA CommentPosted ==
  ASSUME TypeOK, NEW pr \in PRs, NEW user \in Commenters, NEW action \in {"created", "edited"},
         NEW p, p = CommentPayload(pr, user, action)
  PROVE  /\ p \in Payloads /\ p.number = pr /\ p.pull = pulls[pr]
         /\ p \in Deploying(pr) <=>
              /\ MayAsk(user) \/ Uninvited(user)
              /\ action = "created" \/ config.platform = "gitlab"
         /\ p \notin Removing(pr)
         /\ Event(p).headSHA \in {None, pulls[pr].headSHA}
  <1>1. pulls[pr] \in Pulls
    BY DEF TypeOK
  <1>2. /\ p \in Payloads /\ p.number = pr /\ p.pull = pulls[pr] /\ p.kind = "comment"
        /\ p.action = action /\ p.phrase = TRUE
        /\ p.commenter = user.login /\ p.commenterAssociation = user.association
    BY <1>1 DEF CommentPayload, Payload, Payloads, PlatformWords
  <1>3. CASE action = "created" \/ config.platform = "gitlab"
    <2>1. Event(p) = CommentEvent(config.platform, p)
      BY <1>2, <1>3 DEF Event, ParsePlatformEvent, NewComment
    <2>2. /\ Event(p).action = "comment" /\ Event(p).phrase = TRUE
          /\ Event(p).commenter = user.login
          /\ Event(p).commenterAssociation = Association(config.platform, user.association)
          /\ Event(p).headSHA \in {None, pulls[pr].headSHA}
      BY <1>2, <2>1, CommentEventFields
    <2>3. EvaluatePR(config.policy, Event(p)) <=> MayAsk(user) \/ Uninvited(user)
      <3>1. config.platform # "github" =>
              Association(config.platform, user.association) = "MEMBER"
        BY DEF Association
      <3> QED
        BY <2>2, <3>1 DEF EvaluatePR, EvaluateComment, MayAsk, Uninvited, Trusts
    <2> QED
      BY <1>2, <1>3, <2>2, <2>3 DEF Deploying, Removing, Applied
  <1>4. CASE ~(action = "created" \/ config.platform = "gitlab")
    <2>1. Event(p).action = "skip" /\ Event(p).headSHA = None
      BY <1>2, <1>4 DEF Event, ParsePlatformEvent, NewComment, Skip
    <2> QED
      BY <1>2, <1>4, <2>1 DEF Deploying, Removing, Applied
  <1> QED
    BY <1>3, <1>4

-----------------------------------------------------------------------------
(* Types, and what a payload says of its pull request for ever *)

\* What never changes of a pull request is in each payload about it, and a PRDeployment
\* is found under the name of its pull request.
PayloadsKnown ==
    \A i \in 1..Len(inbox) :
      LET p == inbox[i]
      IN  /\ p.pull.branch = pulls[p.number].branch
          /\ p.pull.clone = pulls[p.number].clone

PreviewsNamed == \A name \in Names : previews[name] # None => NameOf(previews[name].number) = name

\* Only GitHub tells the repository of the head, and a name of its own has no other.
PreviewsCloned ==
    config.platform = "github" =>
      \A pr \in PRs : WellNamed(pr) /\ Preview(pr) # None =>
                        Preview(pr).cloneURL = pulls[pr].clone

Typed == TypeOK /\ PayloadsKnown /\ PreviewsNamed /\ PreviewsCloned

LEMMA NamesOwned ==
  ASSUME TypeOK, NEW pr \in PRs
  PROVE  NameOf(pr) \in Names /\ Names = DOMAIN previews
  BY DEF TypeOK, Names

LEMMA IntakeInit == Init => Typed /\ \A pr \in PRs : pulls[pr].state = "new"
  <1> SUFFICES ASSUME Init PROVE Typed /\ \A pr \in PRs : pulls[pr].state = "new"
    OBVIOUS
  <1>1. (CHOOSE sha \in SHAs : TRUE) \in SHAs
    BY IntakeAssumption
  <1>2. \A profile \in Profiles : NewPull(profile) \in Pulls /\ NewPull(profile).state = "new"
    BY <1>1 DEF NewPull, Pulls
  <1>3. pulls \in [PRs -> Pulls] /\ \A pr \in PRs : pulls[pr].state = "new"
    BY <1>2 DEF Init
  <1>4. inbox \in Seq(Payloads) /\ Len(inbox) = 0
    BY EmptySeq DEF Init
  <1>5. /\ Names = {NameOf(pr) : pr \in PRs} /\ previews \in [Names -> PRDs \cup {None}]
        /\ \A name \in Names : previews[name] = None
    BY DEF Init, Names
  <1>6. /\ config \in Configs /\ asked = {} /\ uninvited = {} /\ late = {} /\ moves = 0
    BY DEF Init
  <1>7. /\ asked \subseteq PRs /\ uninvited \subseteq PRs
        /\ late \subseteq {pr \in PRs : pulls[pr].state = "closed"}
    BY <1>6
  <1>8. moves \in 0..MaxMoves /\ Len(inbox) <= moves
    BY <1>4, <1>6, IntakeAssumption
  <1>9. TypeOK
    BY <1>3, <1>4, <1>5, <1>6, <1>7, <1>8 DEF TypeOK
  <1>10. PayloadsKnown /\ PreviewsNamed
    BY <1>4, <1>5 DEF PayloadsKnown, PreviewsNamed
  <1>11. PreviewsCloned
    BY <1>5, <1>9, NamesOwned DEF PreviewsCloned, Preview
  <1> QED
    BY <1>3, <1>9, <1>10, <1>11 DEF Typed

-----------------------------------------------------------------------------
(* A payload is served *)

Clones == {p.clone : p \in Profiles} \cup {Upstream, None}

\* What a deploying payload applies: an event that names its pull request, with the head
\* it carries or the present one.
Applies(e, p) ==
    LET pr == p.number
    IN  /\ e.number = pr /\ NameFor(pr, e.branch) = NameOf(pr)
        /\ e.headSHA \in SHAs
        /\ e.headSHA = IF Event(p).headSHA = None THEN pulls[pr].headSHA ELSE Event(p).headSHA
        /\ e.cloneURL \in Clones
        /\ config.platform = "github" => e.cloneURL = pulls[pr].clone

LEMMA DeployingServed ==
  ASSUME Typed, NEW p \in Payloads, p \in Deploying(p.number),
         p.pull.branch = pulls[p.number].branch, p.pull.clone = pulls[p.number].clone
  PROVE  \E e : Applies(e, p) /\ HandleEvent(Event(p)) = CreateOrUpdate(e)
  <1> DEFINE pr == p.number
  <1>1. /\ pr \in PRs /\ pulls[pr] \in Pulls /\ p.pull \in Pulls
        /\ config.platform \in Platforms /\ None \notin SHAs
    BY ConfigType, IntakeAssumption DEF Typed, TypeOK, Payloads
  <1>2. Event(p).action \in Applied /\ EvaluatePR(config.policy, Event(p))
    BY DEF Deploying
  <1>3. CASE p.kind = "pull" /\ p.action \in DOMAIN ActionsOf(config.platform)
    <2>1. Event(p) = PullEvent(config.platform, p)
      BY <1>3 DEF Event, ParsePlatformEvent, NewComment
    <2>2. Event(p).action # "comment"
      <3>1. Event(p).action = ActionsOf(config.platform)[p.action]
        BY <2>1, PullEventFields
      <3> QED
        BY <1>1, <1>3, <3>1 DEF ActionsOf, GitHubActions, GitLabActions, GiteaActions, Platforms
    <2>3. HandleEvent(Event(p)) = CreateOrUpdate(Event(p))
      BY <1>2, <2>2 DEF HandleEvent, Applied
    <2>4. Applies(Event(p), p)
      <3>1. /\ Event(p).number = pr /\ Event(p).branch = pulls[pr].branch
            /\ Event(p).headSHA = p.pull.headSHA
            /\ Event(p).cloneURL = HeadClone(config.platform, pulls[pr].clone)
        BY <2>1, PullEventFields
      <3>2. p.pull.headSHA \in SHAs /\ pulls[pr].clone \in {x.clone : x \in Profiles}
        BY <1>1 DEF Pulls
      <3> QED
        BY <1>1, <3>1, <3>2 DEF Applies, HeadClone, NameOf, Clones
    <2> QED
      BY <2>3, <2>4
  <1>4. CASE NewComment(config.platform, p)
    <2>1. Event(p) = CommentEvent(config.platform, p)
      BY <1>4 DEF Event, ParsePlatformEvent, NewComment
    <2>2. Event(p).action = "comment" /\ Event(p).number = pr /\ Event(p).cloneURL = None
      BY <2>1, CommentEventFields
    <2>3. CASE config.platform = "gitlab"
      <3>1. Event(p).branch = p.pull.branch /\ Event(p).headSHA = p.pull.headSHA
        BY <2>1, <2>3, CommentEventFields
      <3>2. p.pull.headSHA \in SHAs
        BY <1>1 DEF Pulls
      <3>3. HandleEvent(Event(p)) = CreateOrUpdate(Event(p))
        BY <1>1, <1>2, <2>2, <3>1, <3>2 DEF HandleEvent
      <3>4. Applies(Event(p), p)
        BY <1>1, <2>2, <2>3, <3>1, <3>2 DEF Applies, NameOf, Clones
      <3> QED
        BY <3>3, <3>4
    <2>4. CASE config.platform # "gitlab"
      <3> DEFINE e == WithPRHead(config.platform, Event(p), pulls[pr])
      <3>1. Event(p).headSHA = None
        BY <2>1, <2>4, CommentEventFields
      <3>2. HandleEvent(Event(p)) = CreateOrUpdate(e)
        BY <1>2, <2>2, <3>1 DEF HandleEvent
      <3>3. /\ e.number = pr /\ e.branch = pulls[pr].branch /\ e.headSHA = pulls[pr].headSHA
            /\ e.cloneURL = HeadRepository(config.platform, pulls[pr].clone)
        BY <2>1, <2>2 DEF WithPRHead, CommentEvent, NoteEvent, IssueCommentEvent, Commented, Skip
      <3>4. pulls[pr].headSHA \in SHAs /\ pulls[pr].clone \in {x.clone : x \in Profiles}
        BY <1>1 DEF Pulls
      <3>5. Applies(e, p)
        BY <1>1, <2>4, <3>1, <3>3, <3>4 DEF Applies, NameOf, HeadRepository, Clones
      <3> QED
        BY <3>2, <3>5
    <2> QED
      BY <2>3, <2>4
  <1>5. CASE ~(p.kind = "pull" /\ p.action \in DOMAIN ActionsOf(config.platform))
             /\ ~NewComment(config.platform, p)
    BY <1>2, <1>5 DEF Event, ParsePlatformEvent, Skip, Applied
  <1> QED
    BY <1>3, <1>4, <1>5

LEMMA RemovingServed ==
  ASSUME NEW p \in Payloads, p \in Removing(p.number)
  PROVE  HandleEvent(Event(p)) = Delete(p.number)
  <1>1. Event(p).action # "skip" => Event(p).number = p.number
    <2>1. CASE Event(p) = PullEvent(config.platform, p)
      BY <2>1, PullEventFields
    <2>2. CASE Event(p) = CommentEvent(config.platform, p)
      BY <2>2, CommentEventFields
    <2>3. CASE Event(p) = Skip
      BY <2>3 DEF Skip
    <2> QED
      BY <2>1, <2>2, <2>3 DEF Event, ParsePlatformEvent
  <1> QED
    BY <1>1 DEF Removing, HandleEvent

LEMMA OtherServed ==
  ASSUME NEW p \in Payloads, p \notin Deploying(p.number), p \notin Removing(p.number)
  PROVE  HandleEvent(Event(p)) = previews
  BY DEF Deploying, Removing, Applied, HandleEvent

\* createOrUpdatePRDeployment for the pull request of p, and deletePRDeployment.
LEMMA Updated ==
  ASSUME Typed, NEW p \in Payloads, NEW e, Applies(e, p), previews' = CreateOrUpdate(e),
         NEW name, name = NameOf(p.number), NEW old, old = previews[name]
  PROVE  /\ name \in Names /\ previews' \in [Names -> PRDs \cup {None}]
         /\ \A other \in Names \ {name} : previews'[other] = previews[other]
         /\ old = None /\ ~ValidName(name) => previews'[name] = None
         /\ old = None /\ ValidName(name) =>
              /\ previews'[name] # None /\ previews'[name].number = p.number
              /\ previews'[name].headSHA = e.headSHA /\ previews'[name].cloneURL = e.cloneURL
         /\ old # None =>
              /\ previews'[name] # None /\ previews'[name].number = old.number
              /\ previews'[name].headSHA = e.headSHA
              /\ previews'[name].cloneURL = IF e.cloneURL = None THEN old.cloneURL
                                            ELSE e.cloneURL
  <1>1. /\ p.number \in PRs /\ name \in Names /\ Names = DOMAIN previews
        /\ previews \in [Names -> PRDs \cup {None}] /\ None \notin PRDs
    BY NamesOwned, IntakeAssumption DEF Typed, TypeOK, Payloads
  <1>2. /\ e.number = p.number /\ NameFor(e.number, e.branch) = name
        /\ e.headSHA \in SHAs /\ e.cloneURL \in Clones
    BY DEF Applies
  <1>3. ASSUME NEW value \in PRDs \cup {None}, previews' = [previews EXCEPT ![name] = value]
        PROVE  /\ previews' \in [Names -> PRDs \cup {None}] /\ previews'[name] = value
               /\ \A other \in Names \ {name} : previews'[other] = previews[other]
    BY <1>1, <1>3
  <1>4. CASE old = None
    <2> DEFINE new == [number |-> e.number, headSHA |-> e.headSHA, cloneURL |-> e.cloneURL]
               value == IF ValidName(name) THEN new ELSE None
    <2>1. /\ new \in PRDs /\ new.number = p.number
          /\ new.headSHA = e.headSHA /\ new.cloneURL = e.cloneURL
      BY <1>1, <1>2 DEF PRDs, Clones
    <2>2. previews' = [previews EXCEPT ![name] = value]
      BY <1>2, <1>4 DEF CreateOrUpdate
    <2> HIDE DEF new
    <2>3. /\ previews' \in [Names -> PRDs \cup {None}] /\ previews'[name] = value
          /\ \A other \in Names \ {name} : previews'[other] = previews[other]
      BY <1>3, <2>1, <2>2
    <2> QED
      BY <1>1, <1>4, <2>1, <2>3
  <1>5. CASE old # None
    <2> DEFINE new == [old EXCEPT !.headSHA = e.headSHA,
                                  !.cloneURL = IF e.cloneURL = None THEN @ ELSE e.cloneURL]
    <2>1. old \in PRDs
      BY <1>1, <1>5
    <2>2. /\ new \in PRDs /\ new.number = old.number /\ new.headSHA = e.headSHA
          /\ new.cloneURL = IF e.cloneURL = None THEN old.cloneURL ELSE e.cloneURL
      BY <1>2, <2>1 DEF PRDs, Clones
    <2>3. previews' = [previews EXCEPT ![name] = new]
      BY <1>1, <1>2, <1>5 DEF CreateOrUpdate
    <2> HIDE DEF new
    <2>4. /\ previews' \in [Names -> PRDs \cup {None}] /\ previews'[name] = new
          /\ \A other \in Names \ {name} : previews'[other] = previews[other]
      BY <1>3, <2>2, <2>3
    <2> QED
      BY <1>1, <1>5, <2>2, <2>4
  <1> QED
    BY <1>4, <1>5

LEMMA Deleted ==
  ASSUME Typed, NEW number, previews' = Delete(number)
  PROVE  /\ previews' \in [Names -> PRDs \cup {None}]
         /\ \A name \in Names :
              previews'[name] = IF previews[name] # None /\ previews[name].number = number
                                THEN None ELSE previews[name]
  BY DEF Typed, TypeOK, Delete, Names

\* What does not depend on the state of pull requests and previews.
LEMMA Unchanged ==
  ASSUME config' = config, \A pr \in PRs : pulls'[pr].branch = pulls[pr].branch
  PROVE  /\ \A p : Event(p)' = Event(p)
         /\ \A pr \in PRs : NameOf(pr)' = NameOf(pr) /\ (WellNamed(pr)' <=> WellNamed(pr))
         /\ \A pr : Deploying(pr)' = Deploying(pr) /\ Removing(pr)' = Removing(pr)
  <1>1. \A p : Event(p)' = Event(p)
    BY DEF Event
  <1>2. \A pr \in PRs : NameOf(pr)' = NameOf(pr)
    BY DEF NameOf, NameFor
  <1>3. \A pr \in PRs : WellNamed(pr)' <=> WellNamed(pr)
    BY <1>2 DEF WellNamed
  <1>4. \A pr : Deploying(pr)' = Deploying(pr) /\ Removing(pr)' = Removing(pr)
    BY <1>1 DEF Deploying, Removing
  <1> QED
    BY <1>1, <1>2, <1>3, <1>4

\* Serving one payload, as the invariants see it.
LEMMA Serving ==
  ASSUME Typed, Serve, NEW p, p = Head(inbox)
  PROVE  /\ p \in Payloads /\ inbox' \in Seq(Payloads)
         /\ previews' \in [Names -> PRDs \cup {None}]
         /\ \A name \in Names : previews'[name] # None =>
              /\ previews'[name].number \in PRs /\ NameOf(previews'[name].number) = name
         /\ config.platform = "github" =>
              \A pr \in PRs : WellNamed(pr) /\ previews'[NameOf(pr)] # None =>
                                previews'[NameOf(pr)].cloneURL = pulls[pr].clone
         /\ \A pr \in PRs :
              /\ p \in Deploying(pr) /\ WellNamed(pr) =>
                   /\ previews'[NameOf(pr)] # None
                   /\ Event(p).headSHA \in {None, pulls[pr].headSHA} =>
                        previews'[NameOf(pr)].headSHA = pulls[pr].headSHA
              /\ p \notin Deploying(pr) /\ p \notin Removing(pr) /\ WellNamed(pr) =>
                   previews'[NameOf(pr)] = previews[NameOf(pr)]
              /\ p \in Removing(pr) =>
                   \A name \in Names : previews'[name] # None => previews'[name].number # pr
              /\ p \notin Deploying(pr)
                 /\ (\A name \in Names : previews[name] # None => previews[name].number # pr) =>
                   \A name \in Names : previews'[name] # None => previews'[name].number # pr
  <1> DEFINE own == NameOf(p.number)
  <1>1. /\ p \in Payloads /\ p.number \in PRs /\ inbox' \in Seq(Payloads)
        /\ p.pull.branch = pulls[p.number].branch /\ p.pull.clone = pulls[p.number].clone
        /\ inbox \in Seq(Payloads) /\ inbox # <<>> /\ p = inbox[1] /\ 1 \in 1..Len(inbox)
    <2>1. inbox \in Seq(Payloads) /\ inbox # <<>>
      BY DEF Typed, TypeOK, Serve
    <2>2. p \in Payloads /\ p = inbox[1] /\ inbox' \in Seq(Payloads) /\ 1 \in 1..Len(inbox)
      BY <2>1, HeadTailProperties, EmptySeq, LenProperties DEF Serve
    <2> QED
      BY <2>1, <2>2 DEF Typed, PayloadsKnown, Payloads
  <1>2. previews' = HandleEvent(Event(p))
    BY DEF Serve, Event
  <1>3. /\ previews \in [Names -> PRDs \cup {None}] /\ None \notin PRDs
        /\ \A pr \in PRs : NameOf(pr) \in Names
        /\ \A name \in Names : previews[name] # None =>
             previews[name].number \in PRs /\ NameOf(previews[name].number) = name
        /\ \A pr \in PRs, other \in PRs : WellNamed(pr) /\ NameOf(other) = NameOf(pr) => other = pr
    <2>1. previews \in [Names -> PRDs \cup {None}] /\ None \notin PRDs
      BY IntakeAssumption DEF Typed, TypeOK
    <2>2. \A pr \in PRs : NameOf(pr) \in Names
      BY NamesOwned DEF Typed
    <2>3. \A name \in Names : previews[name] # None =>
             previews[name].number \in PRs /\ NameOf(previews[name].number) = name
      BY <2>1 DEF Typed, PreviewsNamed, PRDs
    <2> QED
      BY <2>1, <2>2, <2>3 DEF WellNamed
  <1>4. \A pr : p \in Deploying(pr) \/ p \in Removing(pr) => pr = p.number
    BY DEF Deploying, Removing
  <1>5. config.platform = "github" =>
          \A pr \in PRs : WellNamed(pr) /\ previews[NameOf(pr)] # None =>
                            previews[NameOf(pr)].cloneURL = pulls[pr].clone
    BY DEF Typed, PreviewsCloned, Preview
  <1>6. CASE p \in Deploying(p.number)
    <2>1. PICK e : Applies(e, p) /\ HandleEvent(Event(p)) = CreateOrUpdate(e)
      BY <1>1, <1>6, DeployingServed
    <2> DEFINE old == previews[own]
    <2>2. /\ own \in Names /\ previews' \in [Names -> PRDs \cup {None}]
          /\ \A other \in Names \ {own} : previews'[other] = previews[other]
          /\ old = None /\ ~ValidName(own) => previews'[own] = None
          /\ old = None /\ ValidName(own) =>
               /\ previews'[own] # None /\ previews'[own].number = p.number
               /\ previews'[own].headSHA = e.headSHA /\ previews'[own].cloneURL = e.cloneURL
          /\ old # None =>
               /\ previews'[own] # None /\ previews'[own].number = old.number
               /\ previews'[own].headSHA = e.headSHA
               /\ previews'[own].cloneURL = IF e.cloneURL = None THEN old.cloneURL
                                            ELSE e.cloneURL
      BY <1>1, <1>2, <2>1, Updated
    <2> HIDE DEF own, old
    <2>3. \A name \in Names : previews'[name] # None =>
            /\ previews'[name].number \in PRs /\ NameOf(previews'[name].number) = name
            /\ \/ previews'[name].number = p.number
               \/ previews[name] # None /\ previews'[name].number = previews[name].number
      <3>1. own = NameOf(p.number) /\ old = previews[own]
        BY DEF own, old
      <3> QED
        BY <1>1, <1>3, <2>2, <3>1
    <2>4. \A pr \in PRs : WellNamed(pr) /\ p \in Deploying(pr) =>
            /\ pr = p.number /\ NameOf(pr) = own /\ previews'[own] # None
            /\ previews'[own].headSHA = e.headSHA
      <3>1. \A pr \in PRs : WellNamed(pr) => ValidName(NameOf(pr))
        BY DEF WellNamed
      <3> QED
        BY <1>4, <2>2, <3>1 DEF own
    <2>5. \A pr \in PRs : pr # p.number /\ WellNamed(pr) => NameOf(pr) \in Names \ {own}
      BY <1>1, <1>3 DEF own
    <2>6. /\ e.headSHA = IF Event(p).headSHA = None THEN pulls[p.number].headSHA
                         ELSE Event(p).headSHA
          /\ config.platform = "github" => e.cloneURL = pulls[p.number].clone
      BY <2>1 DEF Applies
    <2>7. config.platform = "github" =>
            \A pr \in PRs : WellNamed(pr) /\ previews'[NameOf(pr)] # None =>
                              previews'[NameOf(pr)].cloneURL = pulls[pr].clone
      <3>1. SUFFICES ASSUME config.platform = "github", NEW pr \in PRs, WellNamed(pr),
                            previews'[NameOf(pr)] # None
                     PROVE  previews'[NameOf(pr)].cloneURL = pulls[pr].clone
        OBVIOUS
      <3>2. CASE pr # p.number
        BY <1>5, <2>2, <2>5, <3>1, <3>2
      <3>3. CASE pr = p.number
        <4>1. own = NameOf(pr) /\ old = previews[NameOf(pr)]
          BY <3>3 DEF own, old
        <4>2. old # None => old.cloneURL = pulls[pr].clone
          BY <1>5, <3>1, <4>1
        <4> QED
          BY <2>2, <2>6, <3>1, <3>3, <4>1, <4>2
      <3> QED
        BY <3>2, <3>3
    <2>8. \A pr \in PRs : p \notin Deploying(pr) => pr # p.number
      BY <1>6
    <2>9. p \notin Removing(p.number)
      BY <1>6 DEF Deploying, Removing, Applied
    <2> QED
      BY <1>1, <1>4, <2>2, <2>3, <2>4, <2>5, <2>6, <2>7, <2>8, <2>9
  <1>7. CASE p \in Removing(p.number)
    <2>1. /\ previews' \in [Names -> PRDs \cup {None}]
          /\ \A name \in Names :
               previews'[name] = IF previews[name] # None /\ previews[name].number = p.number
                                 THEN None ELSE previews[name]
      BY <1>1, <1>2, <1>7, RemovingServed, Deleted
    <2>2. p \notin Deploying(p.number)
      BY <1>7 DEF Deploying, Removing, Applied
    <2> QED
      BY <1>1, <1>3, <1>4, <1>5, <1>7, <2>1, <2>2
  <1>8. CASE p \notin Deploying(p.number) /\ p \notin Removing(p.number)
    <2>1. previews' = previews
      BY <1>1, <1>2, <1>8, OtherServed
    <2> QED
      BY <1>1, <1>3, <1>4, <1>5, <1>8, <2>1
  <1> QED
    BY <1>6, <1>7, <1>8

-----------------------------------------------------------------------------
(* Something happens on the platform *)

\* The pull requests that a comment was answered for, whether it should count or not.
Answered == asked \cup uninvited

\* Open and eligible, or asked for by a comment; and what PreviewIsWanted excepts.
Wanted(pr) ==
    /\ IsOpen(pr) \/ pr \in late
    /\ Eligible(pr) \/ pr \in Answered \/ (config.platform = "gitlab" /\ config.policy.label # None)

PRMove(pr) ==
    \/ Open(pr) \/ Close(pr) \/ Push(pr) \/ Relabel(pr) \/ Edit(pr)
    \/ \E user \in Commenters, action \in {"created", "edited"} : Comment(pr, user, action)

\* A move of pr that leaves it as pull and posts p, as the invariants see it: pr becomes
\* eligible, asked for or unwanted only with a payload that makes the controller follow.
Posts(pr, pull, p) ==
    /\ moves' = moves + 1 /\ moves < MaxMoves
    /\ config' = config /\ previews' = previews
    /\ pulls' = [pulls EXCEPT ![pr] = pull] /\ pull.branch = pulls[pr].branch
    /\ pull.clone = pulls[pr].clone
    /\ inbox' = Append(inbox, p) /\ p \in Payloads /\ p.number = pr /\ p.pull = pull
    /\ Answered' \subseteq Answered \cup {pr} /\ Answered \subseteq Answered' \cup {pr}
    /\ late' \subseteq late \cup {pr} /\ late \subseteq late' \cup {pr}
    /\ pr \in late' => pull.state = "closed"
    /\ Event(p).headSHA \in {None, pull.headSHA}
    /\ pull.state = "open" /\ Passes(pull) =>
         \/ p \in Deploying(pr)
         \/ /\ p \notin Removing(pr) /\ IsOpen(pr) /\ Eligible(pr)
            /\ pull.headSHA = pulls[pr].headSHA
    /\ pr \in Answered' => p \in Deploying(pr) \/ (p \notin Removing(pr) /\ pr \in Answered)
    /\ ~Wanted(pr)' => p \in Removing(pr) \/ (p \notin Deploying(pr) /\ ~Wanted(pr))

LEMMA Judged ==
  ASSUME config' = config, NEW pr
  PROVE  (Eligible(pr) <=> Passes(pulls[pr])) /\ (Eligible(pr)' <=> Passes(pulls'[pr]))
  BY DEF Eligible, Passes

LEMMA Moves ==
  ASSUME TypeOK, NEW pr \in PRs, PRMove(pr)
  PROVE  \E pull \in Pulls, p \in Payloads : Posts(pr, pull, p)
  <1> DEFINE now == pulls[pr]
             gitlab == config.platform = "gitlab"
  <1>1. /\ now \in Pulls /\ pulls \in [PRs -> Pulls] /\ (pr \in late => now.state = "closed")
        /\ now.labels \in {{}, {"deploy"}}
    <2>1. now \in Pulls /\ pulls \in [PRs -> Pulls] /\ (pr \in late => now.state = "closed")
      BY DEF TypeOK
    <2> QED
      BY <2>1 DEF Pulls
  <1>2. ASSUME NEW what \in Happenings, NEW pull \in Pulls, Happens(pr, what, pull),
               pull.branch = now.branch, pull.clone = now.clone,
               pull.association = now.association,
               Answered' \subseteq Answered \cup {pr}, Answered \subseteq Answered' \cup {pr},
               late' \subseteq late \cup {pr}, late \subseteq late' \cup {pr},
               pr \in late' => pull.state = "closed",
               NEW p, p = Payload("pull", Word(what), pr, pull),
               pull.state = "open" /\ Passes(pull) =>
                 \/ p \in Deploying(pr)
                 \/ /\ p \notin Removing(pr) /\ IsOpen(pr) /\ Eligible(pr)
                    /\ pull.headSHA = now.headSHA,
               pr \in Answered' =>
                 p \in Deploying(pr) \/ (p \notin Removing(pr) /\ pr \in Answered),
               ~Wanted(pr)' => p \in Removing(pr) \/ (p \notin Deploying(pr) /\ ~Wanted(pr))
        PROVE  Posts(pr, pull, p)
    BY <1>2, PullPosted DEF Happens, Posts
  <1>3. ASSUME NEW what \in Happenings, NEW pull \in Pulls, Happens(pr, what, pull)
        PROVE  /\ config' = config /\ pulls'[pr] = pull /\ (IsOpen(pr)' <=> pull.state = "open")
               /\ (Eligible(pr) <=> Passes(now)) /\ (Eligible(pr)' <=> Passes(pull))
               /\ Wanted(pr)' <=>
                    /\ pull.state = "open" \/ pr \in late'
                    /\ Passes(pull) \/ pr \in Answered' \/ (gitlab /\ config.policy.label # None)
    <2>1. config' = config /\ pulls'[pr] = pull
      BY <1>1, <1>3 DEF Happens
    <2>2. IsOpen(pr)' <=> pull.state = "open"
      BY <2>1 DEF IsOpen
    <2> QED
      BY <2>1, <2>2, Judged DEF Wanted
  <1>4. CASE Open(pr)
    <2> DEFINE what == IF Exists(pr) THEN "reopened" ELSE "opened"
               pull == [now EXCEPT !.state = "open"]
               p == Payload("pull", Word(what), pr, pull)
    <2>1. /\ what \in {"opened", "reopened"} /\ what \in Happenings /\ Happens(pr, what, pull)
          /\ late' = late \ {pr} /\ Answered' = Answered
      BY <1>4 DEF Open, Happenings, Answered
    <2>2. /\ pull \in Pulls /\ pull.state = "open" /\ pull.branch = now.branch
          /\ pull.clone = now.clone /\ pull.association = now.association
          /\ pull.labels = now.labels
      BY <1>1 DEF Pulls
    <2> HIDE DEF pull, what
    <2>3. (p \in Deploying(pr) <=> Passes(pull)) /\ p \notin Removing(pr)
      BY <2>1, <2>2, PullPosted
    <2>4. Passes(pull) <=> Passes(now)
      BY <2>2 DEF Passes
    <2>5. ~Wanted(pr)' => p \notin Deploying(pr) /\ ~Wanted(pr)
      BY <1>3, <2>1, <2>2, <2>3, <2>4 DEF Wanted
    <2>6. Posts(pr, pull, p)
      BY <1>2, <2>1, <2>2, <2>3, <2>5
    <2> QED
      BY <2>2, <2>6 DEF Posts
  <1>5. CASE Close(pr)
    <2> DEFINE pull == [now EXCEPT !.state = "closed"]
               p == Payload("pull", Word("closed"), pr, pull)
    <2>1. /\ "closed" \in Happenings /\ Happens(pr, "closed", pull)
          /\ late' = late /\ Answered' = Answered \ {pr}
      BY <1>5 DEF Close, Happenings, Answered
    <2>2. /\ pull \in Pulls /\ pull.state = "closed" /\ pull.branch = now.branch
          /\ pull.clone = now.clone /\ pull.association = now.association
      BY <1>1 DEF Pulls
    <2> HIDE DEF pull
    <2>3. p \in Removing(pr)
      BY <2>1, <2>2, PullPosted
    <2>4. Posts(pr, pull, p)
      BY <1>2, <2>1, <2>2, <2>3
    <2> QED
      BY <2>2, <2>4 DEF Posts
  <1>6. CASE Push(pr)
    <2>1. PICK sha \in SHAs : Happens(pr, "synchronize", [now EXCEPT !.headSHA = sha])
      BY <1>6 DEF Push
    <2> DEFINE pull == [now EXCEPT !.headSHA = sha]
               p == Payload("pull", Word("synchronize"), pr, pull)
    <2>2. /\ "synchronize" \in Happenings /\ Happens(pr, "synchronize", pull)
          /\ late' = late /\ Answered' = Answered /\ IsOpen(pr)
      BY <1>6, <2>1 DEF Push, Happenings, Answered
    <2>3. /\ pull \in Pulls /\ pull.state = "open" /\ pull.branch = now.branch
          /\ pull.clone = now.clone /\ pull.association = now.association
          /\ pull.labels = now.labels
      BY <1>1, <2>2 DEF Pulls, IsOpen
    <2> HIDE DEF pull
    <2>4. (p \in Deploying(pr) <=> Passes(pull)) /\ p \notin Removing(pr)
      BY <2>2, <2>3, PullPosted
    <2>5. Passes(pull) <=> Passes(now)
      BY <2>3 DEF Passes
    <2>6. ~Wanted(pr)' => p \notin Deploying(pr) /\ ~Wanted(pr)
      BY <1>3, <2>2, <2>3, <2>4, <2>5 DEF Wanted
    <2>7. pr \in late' => pull.state = "closed"
      BY <1>1, <2>2 DEF IsOpen
    <2>8. Posts(pr, pull, p)
      BY <1>2, <2>2, <2>3, <2>4, <2>6, <2>7
    <2> QED
      BY <2>3, <2>8 DEF Posts
  <1>7. CASE Relabel(pr)
    <2> DEFINE what == IF now.labels = {} THEN "labeled" ELSE "unlabeled"
               pull == [now EXCEPT !.labels = IF now.labels = {} THEN {"deploy"} ELSE {}]
               p == Payload("pull", Word(what), pr, pull)
    <2>1. /\ what \in {"labeled", "unlabeled"} /\ what \in Happenings /\ Happens(pr, what, pull)
          /\ Answered' = (IF gitlab THEN Answered ELSE Answered \ {pr})
          /\ late' = (IF IsOpen(pr) THEN late ELSE late \cup {pr}) /\ now.state # "new"
      BY <1>7 DEF Relabel, Happenings, Noted, Exists, Answered
    <2>2. /\ pull \in Pulls /\ pull.state = now.state /\ pull.branch = now.branch
          /\ pull.clone = now.clone /\ pull.association = now.association
          /\ pull.headSHA = now.headSHA
      BY <1>1 DEF Pulls
    <2> HIDE DEF pull, what
    <2>3. /\ p \in Deploying(pr) <=> Passes(pull)
          /\ p \in Removing(pr) <=> ~gitlab /\ ~Passes(pull)
      BY <2>1, <2>2, PullPosted
    <2>4. config.policy.label = None => (Passes(pull) <=> Passes(now))
      BY <2>2 DEF Passes
    <2>5. pull.state = "open" \/ pr \in late'
      BY <1>1, <2>1, <2>2 DEF IsOpen, Pulls
    <2>6. pr \in late' => pull.state = "closed"
      BY <1>1, <2>1, <2>2 DEF IsOpen, Pulls
    <2>7. ~Wanted(pr)' => p \in Removing(pr) \/ (p \notin Deploying(pr) /\ ~Wanted(pr))
      BY <1>3, <2>1, <2>2, <2>3, <2>4, <2>5 DEF Wanted
    <2>8. Posts(pr, pull, p)
      BY <1>2, <2>1, <2>2, <2>3, <2>6, <2>7
    <2> QED
      BY <2>2, <2>8 DEF Posts
  <1>8. CASE Edit(pr)
    <2> DEFINE p == Payload("pull", Word("edited"), pr, now)
    <2>1. /\ "edited" \in Happenings /\ Happens(pr, "edited", now) /\ Answered' = Answered
          /\ late' = (IF IsOpen(pr) THEN late ELSE late \cup {pr}) /\ now.state # "new"
      BY <1>8 DEF Edit, Happenings, Noted, Exists, Answered
    <2>2. (p \in Deploying(pr) <=> Passes(now) /\ gitlab) /\ p \notin Removing(pr)
      BY <1>1, <2>1, PullPosted
    <2>3. now.state = "open" \/ pr \in late'
      BY <1>1, <2>1 DEF IsOpen, Pulls
    <2>4. pr \in late' => now.state = "closed"
      BY <1>1, <2>1 DEF IsOpen, Pulls
    <2>5. ~Wanted(pr)' => p \notin Deploying(pr) /\ ~Wanted(pr)
      BY <1>1, <1>3, <2>1, <2>2, <2>3 DEF Wanted
    <2>6. now.state = "open" /\ Passes(now) => IsOpen(pr) /\ Eligible(pr)
      BY <1>1, <1>3, <2>1 DEF IsOpen
    <2>7. Posts(pr, now, p)
      BY <1>1, <1>2, <2>1, <2>2, <2>4, <2>5, <2>6
    <2> QED
      BY <1>1, <2>7 DEF Posts
  <1>9. ASSUME NEW user \in Commenters, NEW action \in {"created", "edited"},
               Comment(pr, user, action)
        PROVE  \E pull \in Pulls, p \in Payloads : Posts(pr, pull, p)
    <2> DEFINE p == CommentPayload(pr, user, action)
               asks == (MayAsk(user) \/ Uninvited(user)) /\ (action = "created" \/ gitlab)
    <2>1. /\ moves < MaxMoves /\ moves' = moves + 1 /\ inbox' = Append(inbox, p)
          /\ config' = config /\ previews' = previews /\ pulls' = pulls
          /\ Answered' = (IF asks THEN Answered \cup {pr} ELSE Answered)
          /\ late' = (IF IsOpen(pr) THEN late ELSE late \cup {pr}) /\ now.state # "new"
      BY <1>9 DEF Comment, Noted, Exists, CommentPayload, Answered
    <2>2. /\ p \in Payloads /\ p.number = pr /\ p.pull = now
          /\ (p \in Deploying(pr) <=> asks) /\ p \notin Removing(pr)
          /\ Event(p).headSHA \in {None, now.headSHA}
      BY CommentPosted
    <2> HIDE DEF p, asks
    <2>3. pulls' = [pulls EXCEPT ![pr] = now]
      BY <1>1, <2>1
    <2>4. now.state = "open" \/ pr \in late'
      BY <1>1, <2>1 DEF IsOpen, Pulls
    <2>5. pr \in late' => now.state = "closed"
      BY <1>1, <2>1 DEF IsOpen, Pulls
    <2>6. Eligible(pr) <=> Passes(now)
      BY DEF Eligible, Passes
    <2>7. (Eligible(pr)' <=> Passes(now)) /\ (IsOpen(pr)' <=> now.state = "open")
      BY <2>1 DEF Eligible, Passes, IsOpen
    <2>8. ~Wanted(pr)' => p \notin Deploying(pr) /\ ~Wanted(pr)
      BY <2>1, <2>2, <2>4, <2>6, <2>7 DEF Wanted
    <2>9. Posts(pr, now, p)
      <3>1. /\ Answered' \subseteq Answered \cup {pr} /\ Answered \subseteq Answered' \cup {pr}
            /\ late' \subseteq late \cup {pr} /\ late \subseteq late' \cup {pr}
            /\ pr \in Answered' => p \in Deploying(pr) \/ pr \in Answered
        BY <2>1, <2>2
      <3>2. now.state = "open" <=> IsOpen(pr)
        BY DEF IsOpen
      <3> QED
        BY <2>1, <2>2, <2>3, <2>5, <2>6, <2>8, <3>1, <3>2 DEF Posts
    <2> QED
      BY <1>1, <2>9 DEF Posts
  <1> QED
    BY <1>4, <1>5, <1>6, <1>7, <1>8, <1>9 DEF PRMove

LEMMA NextMoves == Next => Serve \/ \E pr \in PRs : PRMove(pr)
  BY DEF Next, PRMove

\* A move changes the pull request it is about alone.
LEMMA Posting ==
  ASSUME Typed, NEW pr \in PRs, NEW pull \in Pulls, NEW p, Posts(pr, pull, p)
  PROVE  /\ inbox \in Seq(Payloads) /\ pulls' \in [PRs -> Pulls] /\ pulls'[pr] = pull
         /\ \A other \in PRs \ {pr} : pulls'[other] = pulls[other]
         /\ \A other \in PRs : /\ pulls'[other].branch = pulls[other].branch
                               /\ pulls'[other].clone = pulls[other].clone
         /\ \A other \in PRs : NameOf(other)' = NameOf(other)
                               /\ (WellNamed(other)' <=> WellNamed(other))
         /\ \A other : Deploying(other)' = Deploying(other) /\ Removing(other)' = Removing(other)
  <1>1. /\ inbox \in Seq(Payloads) /\ pulls' \in [PRs -> Pulls] /\ pulls'[pr] = pull
        /\ \A other \in PRs \ {pr} : pulls'[other] = pulls[other]
        /\ \A other \in PRs : /\ pulls'[other].branch = pulls[other].branch
                              /\ pulls'[other].clone = pulls[other].clone
    BY DEF Posts, Typed, TypeOK
  <1>2. config' = config
    BY DEF Posts
  <1> QED
    BY <1>1, <1>2, Unchanged

LEMMA TypedStep == Typed /\ [Next]_vars => Typed'
  <1> SUFFICES ASSUME Typed, [Next]_vars PROVE Typed'
    OBVIOUS
  <1>1. CASE Serve
    <2> DEFINE p == Head(inbox)
    <2>1. /\ config' = config /\ pulls' = pulls /\ asked' = asked /\ late' = late
          /\ uninvited' = uninvited /\ moves' = moves /\ inbox' = Tail(inbox) /\ inbox # <<>>
      BY <1>1 DEF Serve
    <2>2. \A pr \in PRs : NameOf(pr)' = NameOf(pr) /\ (WellNamed(pr)' <=> WellNamed(pr))
      BY <2>1, Unchanged
    <2>3. /\ inbox' \in Seq(Payloads) /\ previews' \in [Names -> PRDs \cup {None}]
          /\ \A name \in Names : previews'[name] # None =>
               /\ previews'[name].number \in PRs /\ NameOf(previews'[name].number) = name
          /\ config.platform = "github" =>
               \A pr \in PRs : WellNamed(pr) /\ previews'[NameOf(pr)] # None =>
                                 previews'[NameOf(pr)].cloneURL = pulls[pr].clone
      BY <1>1, Serving
    <2>4. Names' = Names
      BY <2>3 DEF Names
    <2>5. inbox \in Seq(Payloads) /\ Len(inbox) <= moves /\ moves \in Nat
      BY IntakeAssumption DEF Typed, TypeOK
    <2>6. /\ Len(inbox') = Len(inbox) - 1 /\ Len(inbox) \in Nat /\ Len(inbox') \in Nat
          /\ \A i \in 1..Len(inbox') : inbox'[i] = inbox[i + 1] /\ i + 1 \in 1..Len(inbox)
      BY <2>1, <2>3, <2>5, HeadTailProperties, EmptySeq, LenProperties
    <2>7. TypeOK'
      <3>1. (Len(inbox) <= moves)'
        BY <2>1, <2>5, <2>6
      <3>2. (Names = {NameOf(pr) : pr \in PRs})'
        BY <2>2, <2>4 DEF Typed, TypeOK
      <3>3. /\ (config \in Configs /\ pulls \in [PRs -> Pulls] /\ asked \subseteq PRs)'
            /\ (late \subseteq {pr \in PRs : pulls[pr].state = "closed"} /\ moves \in 0..MaxMoves)'
            /\ uninvited' \subseteq PRs
        BY <2>1 DEF Typed, TypeOK
      <3> QED
        BY <2>3, <2>4, <3>1, <3>2, <3>3 DEF TypeOK
    <2>8. PayloadsKnown'
      BY <2>1, <2>6 DEF Typed, PayloadsKnown
    <2>9. PreviewsNamed'
      BY <2>2, <2>3, <2>4 DEF PreviewsNamed
    <2>10. PreviewsCloned'
      BY <2>1, <2>2, <2>3 DEF PreviewsCloned, Preview
    <2> QED
      BY <2>7, <2>8, <2>9, <2>10 DEF Typed
  <1>2. ASSUME NEW pr \in PRs, PRMove(pr) PROVE Typed'
    <2>1. PICK pull \in Pulls, p \in Payloads : Posts(pr, pull, p)
      BY <1>2, Moves DEF Typed
    <2>2. /\ inbox \in Seq(Payloads) /\ pulls' \in [PRs -> Pulls] /\ pulls'[pr] = pull
          /\ \A other \in PRs \ {pr} : pulls'[other] = pulls[other]
          /\ \A other \in PRs : /\ pulls'[other].branch = pulls[other].branch
                                /\ pulls'[other].clone = pulls[other].clone
          /\ \A other \in PRs : NameOf(other)' = NameOf(other)
                                /\ (WellNamed(other)' <=> WellNamed(other))
      BY <2>1, Posting
    <2>3. /\ moves' = moves + 1 /\ moves < MaxMoves /\ config' = config /\ previews' = previews
          /\ inbox' = Append(inbox, p) /\ p.number = pr /\ p.pull = pull
          /\ Answered' \subseteq Answered \cup {pr} /\ late' \subseteq late \cup {pr}
          /\ pr \in late' => pull.state = "closed"
      BY <2>1 DEF Posts
    <2>4. /\ inbox' \in Seq(Payloads) /\ Len(inbox) \in Nat /\ Len(inbox') = Len(inbox) + 1
          /\ inbox'[Len(inbox) + 1] = p /\ \A i \in 1..Len(inbox) : inbox'[i] = inbox[i]
      BY <2>2, <2>3, AppendProperties, LenProperties
    <2>5. Names' = Names
      BY <2>3 DEF Names
    <2>6. TypeOK'
      <3>1. (moves \in 0..MaxMoves /\ Len(inbox) <= moves)'
        BY <2>3, <2>4, IntakeAssumption DEF Typed, TypeOK
      <3>2. (Names = {NameOf(other) : other \in PRs})'
        BY <2>2, <2>5 DEF Typed, TypeOK
      <3>3. (late \subseteq {other \in PRs : pulls[other].state = "closed"})'
        BY <2>2, <2>3 DEF Typed, TypeOK
      <3>4. (config \in Configs /\ previews \in [Names -> PRDs \cup {None}])'
        BY <2>3, <2>5 DEF Typed, TypeOK
      <3>5. asked' \subseteq PRs /\ uninvited' \subseteq PRs
        BY <2>3 DEF Typed, TypeOK, Answered
      <3> QED
        BY <2>2, <2>4, <3>1, <3>2, <3>3, <3>4, <3>5 DEF TypeOK
    <2>7. PayloadsKnown'
      <3>1. ASSUME NEW i \in 1..Len(inbox)
            PROVE  inbox'[i] = inbox[i] /\ inbox[i].number \in PRs
                   /\ inbox[i].pull.branch = pulls[inbox[i].number].branch
                   /\ inbox[i].pull.clone = pulls[inbox[i].number].clone
        <4>1. inbox[i] \in Payloads
          BY <2>2, LenProperties
        <4> QED
          BY <2>4, <4>1 DEF Typed, PayloadsKnown, Payloads
      <3>2. SUFFICES ASSUME NEW i \in 1..Len(inbox')
                     PROVE  /\ inbox'[i].pull.branch = pulls'[inbox'[i].number].branch
                            /\ inbox'[i].pull.clone = pulls'[inbox'[i].number].clone
        BY DEF PayloadsKnown
      <3>3. CASE i \in 1..Len(inbox)
        BY <2>2, <3>1, <3>3
      <3>4. CASE i = Len(inbox) + 1
        BY <2>2, <2>3, <2>4, <3>4
      <3> QED
        BY <2>4, <3>3, <3>4
    <2>8. PreviewsNamed'
      <3>1. \A name \in Names : previews[name] # None => previews[name].number \in PRs
        BY IntakeAssumption DEF Typed, TypeOK, PRDs
      <3> QED
        BY <2>2, <2>3, <2>5, <3>1 DEF Typed, PreviewsNamed
    <2>9. PreviewsCloned'
      BY <2>2, <2>3 DEF Typed, PreviewsCloned, Preview
    <2> QED
      BY <2>6, <2>7, <2>8, <2>9 DEF Typed
  <1>3. CASE UNCHANGED vars
    BY <1>3 DEF vars, Typed, TypeOK, PayloadsKnown, PreviewsNamed, PreviewsCloned, Preview,
                WellNamed, NameOf, NameFor, Names
  <1> QED
    BY <1>1, <1>2, <1>3, NextMoves

\* Configuration, pull requests, payloads and previews keep their types, each PRDeployment
\* is found under the name of its pull request, and no more is waiting than happened.
THEOREM IntakeTypes == Spec => []TypeOK
  <1>1. Init => Typed
    BY IntakeInit
  <1>2. Typed => TypeOK
    BY DEF Typed
  <1> QED
    BY <1>1, <1>2, TypedStep, PTL DEF Spec

-----------------------------------------------------------------------------
(* What is deployed, between the payloads that are still waiting *)

\* Payloads that bring the present head of pr, and those that would undo it.
Fresh(pr) == Deploying(pr) \ Stale(pr)
Undoing(pr) == Removing(pr) \cup (Deploying(pr) \cap Stale(pr))

Right(pr) == Preview(pr) # None /\ Preview(pr).headSHA = pulls[pr].headSHA

EligibleKept ==
    \A pr \in PRs : IsOpen(pr) /\ Eligible(pr) /\ WellNamed(pr) =>
      \/ Coming(inbox, Fresh(pr), Undoing(pr))
      \/ Right(pr) /\ Undisturbed(inbox, Undoing(pr))

AskedKept ==
    \A pr \in Answered : WellNamed(pr) =>
      \/ Coming(inbox, Deploying(pr), Removing(pr))
      \/ Preview(pr) # None /\ Undisturbed(inbox, Removing(pr))

HasNone(pr) == \A name \in Names : previews[name] # None => previews[name].number # pr

UnwantedGone ==
    \A pr \in PRs : ~Wanted(pr) =>
      \/ Coming(inbox, Removing(pr), Deploying(pr))
      \/ HasNone(pr) /\ Undisturbed(inbox, Deploying(pr))

IInv == Typed /\ EligibleKept /\ AskedKept /\ UnwantedGone

LEMMA InvInit == Init => IInv
  <1> SUFFICES ASSUME Init PROVE IInv
    OBVIOUS
  <1>1. Typed /\ (\A pr \in PRs : pulls[pr].state = "new") /\ Answered = {} /\ late = {}
    BY IntakeInit DEF Init, Answered
  <1>2. EligibleKept /\ AskedKept
    BY <1>1 DEF EligibleKept, AskedKept, IsOpen
  <1>3. ASSUME NEW pr \in PRs PROVE HasNone(pr) /\ Undisturbed(inbox, Deploying(pr))
    BY EmptyQueue DEF Init, HasNone, Names
  <1>4. UnwantedGone
    BY <1>3 DEF UnwantedGone
  <1> QED
    BY <1>1, <1>2, <1>4 DEF IInv

\* A payload is taken from the queue.
LEMMA ServeKeeps == IInv /\ Serve => (EligibleKept /\ AskedKept /\ UnwantedGone)'
  <1> SUFFICES ASSUME IInv, Serve PROVE (EligibleKept /\ AskedKept /\ UnwantedGone)'
    OBVIOUS
  <1> DEFINE p == Head(inbox)
  <1>1. /\ inbox \in Seq(Payloads) /\ inbox # <<>> /\ inbox' = Tail(inbox)
        /\ config' = config /\ pulls' = pulls /\ Answered' = Answered /\ late' = late /\ Typed
        /\ Answered \subseteq PRs
    BY DEF IInv, Typed, TypeOK, Serve, Answered
  <1>2. /\ \A q \in PRs : NameOf(q)' = NameOf(q) /\ (WellNamed(q)' <=> WellNamed(q))
        /\ \A q : Deploying(q)' = Deploying(q) /\ Removing(q)' = Removing(q)
        /\ \A q : Event(q)' = Event(q)
    BY <1>1, Unchanged
  <1>3. \A q : Stale(q)' = Stale(q) /\ Fresh(q)' = Fresh(q) /\ Undoing(q)' = Undoing(q)
    <2>1. \A q : Stale(q)' = Stale(q)
      BY <1>1, <1>2 DEF Stale
    <2> QED
      BY <1>2, <2>1 DEF Fresh, Undoing
  <1>4. Names' = Names
    <2>1. previews' \in [Names -> PRDs \cup {None}]
      BY <1>1, Serving
    <2> QED
      BY <2>1 DEF Names
  <1>5. ASSUME NEW pr \in PRs
        PROVE  /\ p \in Payloads
               /\ p \in Deploying(pr) /\ WellNamed(pr) =>
                    /\ Preview(pr)' # None
                    /\ Event(p).headSHA \in {None, pulls[pr].headSHA} =>
                         Preview(pr)'.headSHA = pulls[pr].headSHA
               /\ p \notin Deploying(pr) /\ p \notin Removing(pr) /\ WellNamed(pr) =>
                    Preview(pr)' = Preview(pr)
               /\ p \in Removing(pr) => HasNone(pr)'
               /\ p \notin Deploying(pr) /\ HasNone(pr) => HasNone(pr)'
    <2>1. Preview(pr)' = previews'[NameOf(pr)] /\ Preview(pr) = previews[NameOf(pr)]
      BY <1>2 DEF Preview
    <2>2. HasNone(pr)' <=> \A name \in Names : previews'[name] # None => previews'[name].number # pr
      BY <1>4 DEF HasNone
    <2> QED
      BY <1>1, <2>1, <2>2, Serving DEF HasNone
  <1>6. ASSUME NEW good, NEW bad, Coming(inbox, good, bad)
        PROVE  Coming(inbox', good, bad) \/ (p \in good /\ Undisturbed(inbox', bad))
    BY <1>1, <1>6, Taken
  <1>7. ASSUME NEW bad, Undisturbed(inbox, bad)
        PROVE  p \notin bad /\ Undisturbed(inbox', bad)
    BY <1>1, <1>7, Taken
  <1>8. EligibleKept'
    <2>1. SUFFICES ASSUME NEW pr \in PRs, IsOpen(pr)', Eligible(pr)', WellNamed(pr)'
                   PROVE  \/ Coming(inbox', Fresh(pr), Undoing(pr))
                          \/ Right(pr)' /\ Undisturbed(inbox', Undoing(pr))
      BY <1>3 DEF EligibleKept
    <2>2. IsOpen(pr) /\ Eligible(pr) /\ WellNamed(pr)
      BY <1>1, <1>2, <2>1, Judged DEF IsOpen
    <2>3. p \in Fresh(pr) => Right(pr)'
      BY <1>1, <1>5, <2>2 DEF Fresh, Stale, Right
    <2>4. p \notin Undoing(pr) /\ Right(pr) => Right(pr)'
      <3>1. p \notin Undoing(pr) =>
              p \in Fresh(pr) \/ (p \notin Deploying(pr) /\ p \notin Removing(pr))
        BY DEF Undoing, Fresh
      <3> QED
        BY <1>1, <1>5, <2>2, <2>3, <3>1 DEF Right
    <2> QED
      BY <1>6, <1>7, <2>2, <2>3, <2>4 DEF IInv, EligibleKept
  <1>9. AskedKept'
    <2>1. SUFFICES ASSUME NEW pr \in Answered, WellNamed(pr)'
                   PROVE  \/ Coming(inbox', Deploying(pr), Removing(pr))
                          \/ Preview(pr)' # None /\ Undisturbed(inbox', Removing(pr))
      BY <1>1, <1>2 DEF AskedKept
    <2>2. pr \in PRs /\ WellNamed(pr)
      BY <1>1, <1>2, <2>1
    <2> QED
      BY <1>5, <1>6, <1>7, <2>2 DEF IInv, AskedKept
  <1>10. UnwantedGone'
    <2>1. SUFFICES ASSUME NEW pr \in PRs, ~Wanted(pr)'
                   PROVE  \/ Coming(inbox', Removing(pr), Deploying(pr))
                          \/ HasNone(pr)' /\ Undisturbed(inbox', Deploying(pr))
      BY <1>2 DEF UnwantedGone
    <2>2. ~Wanted(pr)
      BY <1>1, <2>1, Judged DEF Wanted, IsOpen
    <2> QED
      BY <1>5, <1>6, <1>7, <2>2 DEF IInv, UnwantedGone
  <1> QED
    BY <1>8, <1>9, <1>10

\* A payload is put at the end of the queue.
LEMMA MoveKeeps ==
  ASSUME IInv, NEW pr \in PRs, PRMove(pr)
  PROVE  (EligibleKept /\ AskedKept /\ UnwantedGone)'
  <1>1. PICK pull \in Pulls, p \in Payloads : Posts(pr, pull, p)
    BY Moves DEF IInv, Typed
  <1>2. Typed /\ Answered \subseteq PRs
    BY DEF IInv, Typed, TypeOK, Answered
  <1>3. /\ inbox \in Seq(Payloads) /\ pulls'[pr] = pull
        /\ \A other \in PRs \ {pr} : pulls'[other] = pulls[other]
        /\ \A other \in PRs : NameOf(other)' = NameOf(other)
                              /\ (WellNamed(other)' <=> WellNamed(other))
        /\ \A other : Deploying(other)' = Deploying(other) /\ Removing(other)' = Removing(other)
    BY <1>1, <1>2, Posting
  <1>4. /\ config' = config /\ previews' = previews /\ inbox' = Append(inbox, p) /\ p.number = pr
        /\ Answered' \subseteq Answered \cup {pr} /\ Answered \subseteq Answered' \cup {pr}
        /\ late' \subseteq late \cup {pr} /\ late \subseteq late' \cup {pr}
        /\ Event(p).headSHA \in {None, pull.headSHA}
        /\ pull.state = "open" /\ Passes(pull) =>
             \/ p \in Deploying(pr)
             \/ /\ p \notin Removing(pr) /\ IsOpen(pr) /\ Eligible(pr)
                /\ pull.headSHA = pulls[pr].headSHA
        /\ pr \in Answered' => p \in Deploying(pr) \/ (p \notin Removing(pr) /\ pr \in Answered)
        /\ ~Wanted(pr)' => p \in Removing(pr) \/ (p \notin Deploying(pr) /\ ~Wanted(pr))
    BY <1>1 DEF Posts
  <1>5. \A other : other # pr => p \notin Deploying(other) /\ p \notin Removing(other)
    BY <1>4 DEF Deploying, Removing
  <1>6. /\ \A q \in PRs : Preview(q)' = Preview(q) /\ (HasNone(q)' <=> HasNone(q))
        /\ \A q : Event(q)' = Event(q)
    BY <1>3, <1>4 DEF Preview, HasNone, Names, Event
  <1>7. ASSUME NEW good, NEW bad, p \in good PROVE Coming(inbox', good, bad)
    BY <1>3, <1>4, <1>7, Posted
  <1>8. ASSUME NEW good, NEW bad, p \notin bad
        PROVE  /\ Coming(inbox, good, bad) => Coming(inbox', good, bad)
               /\ Undisturbed(inbox, bad) => Undisturbed(inbox', bad)
    BY <1>3, <1>4, <1>8, Posted
  <1>9. \A q : q \in PRs /\ pulls'[q].headSHA = pulls[q].headSHA =>
                 Fresh(q)' = Fresh(q) /\ Undoing(q)' = Undoing(q) /\ (Right(q)' <=> Right(q))
    <2>1. \A q : pulls'[q].headSHA = pulls[q].headSHA => Stale(q)' = Stale(q)
      BY <1>6 DEF Stale
    <2> QED
      BY <1>3, <1>6, <2>1 DEF Fresh, Undoing, Right
  <1>10. \A q \in PRs \ {pr} :
           /\ IsOpen(q)' <=> IsOpen(q)
           /\ Eligible(q)' <=> Eligible(q)
           /\ Wanted(q)' <=> Wanted(q)
           /\ q \in Answered' <=> q \in Answered
    <2>1. \A q \in PRs \ {pr} : (IsOpen(q)' <=> IsOpen(q)) /\ (Eligible(q)' <=> Eligible(q))
      BY <1>3, <1>4, Judged DEF IsOpen
    <2> QED
      BY <1>4, <2>1 DEF Wanted
  <1>11. EligibleKept'
    <2>1. SUFFICES ASSUME NEW q \in PRs, IsOpen(q)', Eligible(q)', WellNamed(q)'
                   PROVE  \/ Coming(inbox', Fresh(q)', Undoing(q)')
                          \/ Right(q)' /\ Undisturbed(inbox', Undoing(q)')
      BY DEF EligibleKept
    <2>2. p \notin Stale(pr)'
      BY <1>3, <1>4, <1>6 DEF Stale
    <2>3. ASSUME IsOpen(q), Eligible(q), pulls'[q].headSHA = pulls[q].headSHA, p \notin Undoing(q)
          PROVE  \/ Coming(inbox', Fresh(q)', Undoing(q)')
                 \/ Right(q)' /\ Undisturbed(inbox', Undoing(q)')
      <3>1. \/ Coming(inbox, Fresh(q), Undoing(q))
            \/ Right(q) /\ Undisturbed(inbox, Undoing(q))
        BY <1>3, <2>1, <2>3 DEF IInv, EligibleKept
      <3> QED
        BY <1>8, <1>9, <2>3, <3>1
    <2>4. CASE q # pr
      <3>1. p \notin Undoing(q)
        BY <1>5, <2>4 DEF Undoing
      <3> QED
        BY <1>3, <1>10, <2>1, <2>3, <2>4, <3>1
    <2>5. CASE q = pr /\ p \in Deploying(pr)
      <3>1. p \in Fresh(q)'
        BY <1>3, <2>2, <2>5 DEF Fresh
      <3> QED
        BY <1>7, <3>1
    <2>6. CASE q = pr /\ p \notin Deploying(pr)
      <3>1. pull.state = "open" /\ Passes(pull)
        BY <1>3, <1>4, <2>1, <2>6, Judged DEF IsOpen
      <3>2. p \notin Undoing(q)
        BY <1>4, <2>6, <3>1 DEF Undoing
      <3> QED
        BY <1>3, <1>4, <2>3, <2>6, <3>1, <3>2
    <2> QED
      BY <2>4, <2>5, <2>6
  <1>12. AskedKept'
    <2>1. SUFFICES ASSUME NEW q \in Answered', WellNamed(q)'
                   PROVE  \/ Coming(inbox', Deploying(q), Removing(q))
                          \/ Preview(q)' # None /\ Undisturbed(inbox', Removing(q))
      BY <1>3 DEF AskedKept
    <2>2. q \in PRs /\ (p \in Deploying(q) \/ (p \notin Removing(q) /\ q \in Answered))
      BY <1>2, <1>4, <1>5, <2>1
    <2>3. CASE p \in Deploying(q)
      BY <1>7, <2>3
    <2>4. CASE p \notin Removing(q) /\ q \in Answered
      BY <1>3, <1>6, <1>8, <2>1, <2>2, <2>4 DEF IInv, AskedKept
    <2> QED
      BY <2>2, <2>3, <2>4
  <1>13. UnwantedGone'
    <2>1. SUFFICES ASSUME NEW q \in PRs, ~Wanted(q)'
                   PROVE  \/ Coming(inbox', Removing(q), Deploying(q))
                          \/ HasNone(q)' /\ Undisturbed(inbox', Deploying(q))
      BY <1>3 DEF UnwantedGone
    <2>2. p \in Removing(q) \/ (p \notin Deploying(q) /\ ~Wanted(q))
      BY <1>4, <1>5, <1>10, <2>1
    <2>3. CASE p \in Removing(q)
      BY <1>7, <2>3
    <2>4. CASE p \notin Deploying(q) /\ ~Wanted(q)
      BY <1>6, <1>8, <2>4 DEF IInv, UnwantedGone
    <2> QED
      BY <2>2, <2>3, <2>4
  <1> QED
    BY <1>11, <1>12, <1>13

LEMMA InvNext == IInv /\ [Next]_vars => IInv'
  <1> SUFFICES ASSUME IInv, [Next]_vars PROVE IInv'
    OBVIOUS
  <1>1. Typed'
    BY TypedStep DEF IInv
  <1>2. CASE Serve
    BY <1>1, <1>2, ServeKeeps DEF IInv
  <1>3. ASSUME NEW pr \in PRs, PRMove(pr) PROVE IInv'
    BY <1>1, <1>3, MoveKeeps DEF IInv
  <1>4. CASE UNCHANGED vars
    <2>1. /\ config' = config /\ pulls' = pulls /\ inbox' = inbox /\ previews' = previews
          /\ Answered' = Answered /\ late' = late
      BY <1>4 DEF vars, Answered
    <2>2. /\ \A q \in PRs : NameOf(q)' = NameOf(q) /\ (WellNamed(q)' <=> WellNamed(q))
          /\ \A q : Deploying(q)' = Deploying(q) /\ Removing(q)' = Removing(q)
          /\ \A q : Event(q)' = Event(q)
      BY <2>1, Unchanged
    <2>3. \A q : Fresh(q)' = Fresh(q) /\ Undoing(q)' = Undoing(q)
      <3>1. \A q : Stale(q)' = Stale(q)
        BY <2>1, <2>2 DEF Stale
      <3> QED
        BY <2>2, <3>1 DEF Fresh, Undoing
    <2>4. \A q \in PRs : /\ (IsOpen(q)' <=> IsOpen(q)) /\ (Eligible(q)' <=> Eligible(q))
                         /\ (Wanted(q)' <=> Wanted(q)) /\ Preview(q)' = Preview(q)
                         /\ (Right(q)' <=> Right(q)) /\ (HasNone(q)' <=> HasNone(q))
      BY <2>1, <2>2, Judged DEF IsOpen, Wanted, Preview, Right, HasNone, Names
    <2>5. Answered \subseteq PRs
      BY DEF IInv, Typed, TypeOK, Answered
    <2>6. EligibleKept'
      BY <2>1, <2>2, <2>3, <2>4 DEF IInv, EligibleKept
    <2>7. AskedKept'
      BY <2>1, <2>2, <2>4, <2>5 DEF IInv, AskedKept
    <2>8. UnwantedGone'
      BY <2>1, <2>2, <2>4 DEF IInv, UnwantedGone
    <2> QED
      BY <1>1, <2>6, <2>7, <2>8 DEF IInv
  <1> QED
    BY <1>2, <1>3, <1>4, NextMoves

LEMMA InvAlways == Spec => []IInv
  BY InvInit, InvNext, PTL DEF Spec

-----------------------------------------------------------------------------
(* The theorems *)

\* docs/example-complex.md:171: once everything posted has been served, each open pull
\* request with an allowed author and the required label has a preview of its present head,
\* and on GitHub from the repository of its head, if its name is its own and valid.
THEOREM EligibleDeployed == Spec => []EligibleIsDeployed
  <1>1. IInv => EligibleIsDeployed
    <2> SUFFICES ASSUME IInv, Served, NEW pr \in PRs, IsOpen(pr), Eligible(pr), WellNamed(pr)
                 PROVE  /\ Preview(pr) # None
                        /\ Preview(pr).headSHA = pulls[pr].headSHA
                        /\ config.platform = "github" => Preview(pr).cloneURL = pulls[pr].clone
      BY DEF EligibleIsDeployed
    <2>1. Right(pr)
      BY EmptyQueue DEF IInv, EligibleKept, Served
    <2> QED
      BY <2>1 DEF IInv, Typed, PreviewsCloned, Right
  <1> QED
    BY <1>1, InvAlways, PTL

\* HandleEvent, once everything posted has been served: each preview is of a pull request
\* that is open, labelled as required and of a trusted author, or that a comment asked for,
\* with the exceptions the property names: something happened to it after its end, GitLab
\* and a label, an outsider where the platform does not tell, "*" on the list.
THEOREM PreviewWanted == Spec => []PreviewIsWanted
  <1>1. IInv => PreviewIsWanted
    <2> SUFFICES ASSUME IInv, Served, NEW name \in Names, previews[name] # None,
                        NEW pr, pr = previews[name].number
                 PROVE  /\ IsOpen(pr) \/ pr \in late
                        /\ \/ Eligible(pr) /\ Trusts(pulls[pr].association)
                           \/ pr \in asked
                           \/ config.platform = "gitlab" /\ config.policy.label # None
                           \/ /\ config.platform # "github" /\ Eligible(pr)
                              /\ ~Member(pulls[pr].association)
                           \/ pr \in uninvited
      BY DEF PreviewIsWanted
    <2>1. pr \in PRs
      BY IntakeAssumption DEF IInv, Typed, TypeOK, PRDs
    <2>2. ~HasNone(pr)
      BY DEF HasNone
    <2>3. Wanted(pr)
      BY <2>1, <2>2, EmptyQueue DEF IInv, UnwantedGone, Served
    <2>4. Eligible(pr) =>
            \/ Trusts(pulls[pr].association)
            \/ config.platform # "github" /\ ~Member(pulls[pr].association)
      BY DEF Eligible, Trusts
    <2> QED
      BY <2>3, <2>4 DEF Wanted, Answered
  <1> QED
    BY <1>1, InvAlways, PTL

\* docs/example-complex.md:67: once everything posted has been served, what a comment asked
\* for is there, whatever pushes and edits came after it.
THEOREM AskedDeployed == Spec => []AskedIsDeployed
  <1>1. IInv => AskedIsDeployed
    <2> SUFFICES ASSUME IInv, Served, NEW pr \in asked, WellNamed(pr) PROVE Preview(pr) # None
      BY DEF AskedIsDeployed
    <2> QED
      BY EmptyQueue DEF IInv, AskedKept, Answered, Served
  <1> QED
    BY <1>1, InvAlways, PTL

\* poll after HandleWebhookEvent: once everything posted has been served, a pass over the
\* open pull requests changes the preview of none that is eligible and creates one for none
\* that has none, if the name is its own and valid.
THEOREM PollConfirmed == Spec => []PollConfirms
  <1>1. IInv => PollConfirms
    <2> DEFINE open == {pr \in PRs : IsOpen(pr)}
               Answer(pr) == OpenPREvent(config.platform, pr, pulls[pr])
               Found(name) == {pr \in open : /\ NameOf(pr) = name
                                              /\ EvaluatePR(config.policy, Answer(pr))}
    <2> SUFFICES ASSUME IInv, Served, NEW pr \in PRs, IsOpen(pr), WellNamed(pr),
                        Eligible(pr) \/ Preview(pr) = None
                 PROVE  Polled[NameOf(pr)] = Preview(pr)
      BY DEF PollConfirms
    <2>1. NameOf(pr) \in Names /\ Names = DOMAIN previews
      BY NamesOwned DEF IInv, Typed
    <2>2. Eligible(pr) => Right(pr)
      BY EmptyQueue DEF IInv, EligibleKept, Served
    <2>3. CASE Preview(pr) # None
      <3>1. /\ previews[NameOf(pr)] \in PRDs /\ previews[NameOf(pr)] # None
            /\ Preview(pr) = previews[NameOf(pr)]
        BY <2>1, <2>3 DEF IInv, Typed, TypeOK, Preview
      <3>2. previews[NameOf(pr)].number = pr
        <4>1. NameOf(previews[NameOf(pr)].number) = NameOf(pr)
          BY <2>1, <3>1 DEF IInv, Typed, PreviewsNamed
        <4>2. previews[NameOf(pr)].number \in PRs
          BY <3>1 DEF PRDs
        <4> QED
          BY <4>1, <4>2 DEF WellNamed
      <3>3. Polled[NameOf(pr)] = Moved(previews[NameOf(pr)], pulls[pr])
        <4>1. pr \in open
          OBVIOUS
        <4> QED
          BY <2>1, <3>1, <3>2, <4>1 DEF Polled
      <3>4. previews[NameOf(pr)].headSHA = pulls[pr].headSHA
        BY <2>2, <2>3, <3>1 DEF Right
      <3> QED
        BY <3>1, <3>3, <3>4 DEF Moved, PRDs
    <2>4. CASE Preview(pr) = None
      <3>1. previews[NameOf(pr)] = None /\ ~Eligible(pr)
        BY <2>2, <2>4 DEF Preview, Right
      <3>2. EvaluatePR(config.policy, Answer(pr)) <=> Eligible(pr)
        <4>1. /\ Answer(pr).action = "opened" /\ Answer(pr).labels = pulls[pr].labels
              /\ Answer(pr).association = Association(config.platform, pulls[pr].association)
          BY DEF OpenPREvent, Skip
        <4> QED
          BY <4>1 DEF EvaluatePR, HasLabel, Eligible
      <3>3. Found(NameOf(pr)) = {}
        BY <3>1, <3>2 DEF WellNamed
      <3>4. Polled[NameOf(pr)] = None
        BY <2>1, <3>1, <3>3 DEF Polled
      <3> QED
        BY <2>4, <3>4
    <2> QED
      BY <2>3, <2>4
  <1> QED
    BY <1>1, InvAlways, PTL

\* app.go:258 for words of any length: a slug is the letters and digits in order with a
\* dash wherever something else stood between two of them, it is a valid name unless it is
\* empty or cut, and a branch and its slug have one name under every template.
THEOREM NamesLawful == Spec => []NameLaws
  <1>1. ASSUME TypeOK PROVE NameLaws
    <2>1. config.template \in Templates /\ Url \in Seq(Characters)
          /\ PRs \subseteq DOMAIN Digits /\ Words \subseteq Seq(Characters)
      BY <1>1, IntakeAssumption DEF TypeOK
    <2> SUFFICES ASSUME NEW w \in Words
                 PROVE  /\ IsSlugOf(Clean(w), w)
                        /\ IsPrefix(Slugify(w), Clean(w)) /\ Len(Slugify(w)) <= MaxName
                        /\ Len(Clean(w)) <= MaxName /\ Clean(w) # <<>> => ValidName(Slugify(w))
                        /\ \A pr \in PRs : AppName(config.template, Url, pr, Slugify(w)) =
                                           AppName(config.template, Url, pr, w)
      BY DEF NameLaws
    <2>2. w \in Seq(Characters)
      BY <2>1
    <2>3. ASSUME NEW pr \in PRs
          PROVE  AppName(config.template, Url, pr, Slugify(w)) =
                 AppName(config.template, Url, pr, w)
      <3>1. pr \in DOMAIN Digits
        BY <2>1
      <3> QED
        BY <2>1, <2>2, <3>1, BranchAndSlug
    <2> QED
      BY <2>2, <2>3, CleanIsSlug, SlugifyCuts, SlugIsValid
  <1> QED
    BY <1>1, IntakeTypes, PTL
=============================================================================
