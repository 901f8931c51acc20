---------------------------- MODULE Supersession ----------------------------
(***************************************************************************)
(* Several GitRepos of one repository, in poll or in webhook mode: the     *)
(* webhook one wins, the poll ones suspend their polling and resume it     *)
(* when it goes or changes its mode.  Each reconcile decides on a cached   *)
(* list, one worker takes the GitRepos from one queue, and the handlers of *)
(* deliveries pick any GitRepo of the repository.  What one GitRepo does   *)
(* in detail is in GitRepoPoll and WebhookRegistration; here a pass is its *)
(* answer and then its effect, and PRDeployments are read as they are.     *)
(***************************************************************************)
EXTENDS Naturals, SequencesExt

CONSTANTS
    GitRepos,   \* names of GitRepos, all of the same platform and repository
    PRs,        \* pull requests
    Changing,   \* those that are opened and closed; the others stay open
    None,       \* "no GitRepo", "no PRDeployment"
    Moves,      \* what the outside world may do: see OutsideMove
    MaxMoves,   \* bound on how often it does
    FaultKinds, \* "fetch", "list", "status", "register", "lost", "crash"
    MaxFaults   \* bound on the number of failures

\* "manual" is webhook mode without webhookSecret or without an external URL.
Modes == {"poll", "webhook", "manual"}

\* uid tells a GitRepo from an earlier one of its name; hook: the webhook-id
\* annotation; superseded: the phase is "Superseded".
Objects == [ uid : 0..MaxMoves, mode : Modes, finalizer : BOOLEAN, deleting : BOOLEAN,
             hook : BOOLEAN, superseded : BOOLEAN ]

\* One PRDeployment per pull request: its name is the same for every GitRepo of the
\* repository.  gitrepo is its label, uid that of its owner reference.
Previews == [gitrepo : GitRepos, uid : 0..MaxMoves, deleting : BOOLEAN]

ASSUME SupersessionAssumption ==
    /\ IsFiniteSet(GitRepos) /\ IsFiniteSet(PRs) /\ Changing \subseteq PRs
    /\ None \notin Objects /\ None \notin Previews
    /\ MaxMoves \in Nat /\ MaxFaults \in Nat
    /\ Moves \subseteq {"create", "delete", "mode", "open", "close"}
    /\ FaultKinds \subseteq {"fetch", "list", "status", "register", "lost", "crash"}

VARIABLES
    open,       \* open pull requests of the repository
    validURL,   \* platform.New and the fetch accept its URL; chosen at the start
    repos,      \* per name: the GitRepo in the API server, or None
    cached,     \* the same in the informer cache
    fresh,      \* names whose cached object has the current version
    previews,   \* per pull request: its PRDeployment, or None
    queue,      \* the workqueue, each name at most once
    timers,     \* names whose RequeueAfter is pending
    rec,        \* the reconcile in progress: program counter and locals
    routes,     \* GitRepos with a route in this process
    hooks,      \* GitRepos with a hook on the platform
    inbox,      \* deliveries in flight, in no order
    moves, faults

platformVars == <<open, validURL>>
repoVars == <<repos, cached, fresh>>
queueVars == <<queue, timers>>
hookVars == <<routes, hooks, inbox>>
vars == <<platformVars, repoVars, previews, queueVars, rec, hookVars, moves, faults>>

-----------------------------------------------------------------------------
NewObject(uid, mode) ==
    [ uid |-> uid, mode |-> mode, finalizer |-> FALSE, deleting |-> FALSE,
      hook |-> FALSE, superseded |-> FALSE ]

Deliveries == [to : GitRepos, pr : PRs, action : {"opened", "closed"}]

\* uid: of the object read; current: the API server still has the version read;
\* verdict: the phase to be reported is "Superseded"; later: with RequeueAfter.
NoRec == [ pc |-> "idle", gitrepo |-> None, uid |-> 0, current |-> FALSE,
           answer |-> {}, verdict |-> FALSE, later |-> FALSE ]

Recs == [ pc : {"idle", "fetch", "apply", "register", "status"}, gitrepo : GitRepos \cup {None},
          uid : 0..MaxMoves, current : BOOLEAN, answer : SUBSET PRs,
          verdict : BOOLEAN, later : BOOLEAN ]

Present(set) == {g \in GitRepos : set[g] # None}

TypeOK ==
    /\ open \subseteq PRs /\ validURL \in BOOLEAN
    /\ repos \in [GitRepos -> Objects \cup {None}]
    /\ cached \in [GitRepos -> Objects \cup {None}]
    /\ fresh \subseteq GitRepos
    /\ previews \in [PRs -> Previews \cup {None}]
    /\ queue \in Seq(GitRepos) /\ IsInjective(queue)
    /\ timers \subseteq GitRepos
    /\ rec \in Recs
    /\ rec.pc # "idle" => rec.gitrepo \in GitRepos
    /\ rec.current => repos[rec.gitrepo] # None
    /\ routes \subseteq GitRepos /\ hooks \subseteq GitRepos
    /\ inbox \subseteq Deliveries
    /\ \A g \in Present(repos) :
         repos[g].hook \/ repos[g].superseded => repos[g].finalizer
    /\ moves \in 0..MaxMoves /\ faults \in 0..MaxFaults

Init ==
    /\ open \in {set \in SUBSET PRs : PRs \ Changing \subseteq set} /\ validURL \in BOOLEAN
    /\ repos \in [GitRepos -> {NewObject(0, m) : m \in Modes} \cup {None}]
    /\ cached = repos /\ fresh = GitRepos
    /\ previews = [pr \in PRs |-> None]
    /\ queue \in SetToSeqs(Present(repos))
    /\ timers = {} /\ rec = NoRec
    /\ routes = {} /\ hooks = {} /\ inbox = {}
    /\ moves = 0 /\ faults = 0

Fault(kind) == kind \in FaultKinds /\ faults < MaxFaults /\ faults' = faults + 1
NoFault == UNCHANGED faults

-----------------------------------------------------------------------------
(* Workqueue and watches *)

Enqueued(q, names) == q \o SetToSeq(names \ ToSet(q))

\* The API server has a new version of g.
Write(g, obj) == /\ repos' = [repos EXCEPT ![g] = obj]
                 /\ fresh' = fresh \ {g}

\* The mode of its spec is webhook.
ByWebhook(obj) == obj.mode # "poll"

\* Defect: only the new object is looked at.
SupersededByNew(g) ==
    IF repos[g] # None /\ ByWebhook(repos[g])
    THEN {h \in Present(cached) \ {g} : cached[h].mode = "poll"} ELSE {}

\* The map function of the second watch: the poll GitRepos of the repository, when
\* the old or the new object is in webhook mode.
SupersededBy(g) ==
    IF \E obj \in {cached[g], repos[g]} \ {None} : ByWebhook(obj)
    THEN {h \in Present(cached) \ {g} : cached[h].mode = "poll"} ELSE {}

Observe(g) ==
    /\ g \notin fresh
    /\ cached' = [cached EXCEPT ![g] = repos[g]]
    /\ fresh' = fresh \cup {g}
    /\ queue' = Enqueued(Enqueued(queue, {g}), SupersededBy(g))
    /\ UNCHANGED <<platformVars, repos, previews, timers, rec, hookVars, moves, faults>>

TimerEnds(g) ==
    /\ g \in timers
    /\ timers' = timers \ {g}
    /\ queue' = Enqueued(queue, {g})
    /\ UNCHANGED <<platformVars, repoVars, previews, rec, hookVars, moves, faults>>

-----------------------------------------------------------------------------
(* Reconcile *)

Take(g) == rec.pc = "idle" /\ queue # <<>> /\ g = Head(queue)

\* Nothing further; Requeue or an error, which is retried.
Done == queue' = Tail(queue) /\ UNCHANGED timers
Again(g) == queue' = Append(Tail(queue), g) /\ UNCHANGED timers

Read(g, pc) == [NoRec EXCEPT !.pc = pc, !.gitrepo = g, !.uid = cached[g].uid,
                             !.current = g \in fresh]

ReconcileGone(g) ==
    /\ Take(g) /\ cached[g] = None
    /\ Done
    /\ UNCHANGED <<platformVars, repoVars, previews, rec, hookVars, moves, faults>>

\* reconcileDelete: route, hook, finalizer; an old copy is refused and retried.
ReconcileDelete(g) ==
    /\ Take(g) /\ cached[g] # None /\ cached[g].deleting
    /\ routes' = routes \ {g}
    /\ hooks' = IF cached[g].hook THEN hooks \ {g} ELSE hooks
    /\ IF g \in fresh THEN Write(g, None) /\ Done
                      ELSE Again(g) /\ UNCHANGED <<repos, fresh>>
    /\ UNCHANGED <<platformVars, cached, previews, rec, inbox, moves, faults>>

AddFinalizer(g) ==
    /\ Take(g) /\ cached[g] # None /\ ~cached[g].deleting /\ ~cached[g].finalizer
    /\ Again(g)
    /\ IF g \in fresh THEN Write(g, [repos[g] EXCEPT !.finalizer = TRUE])
                      ELSE UNCHANGED <<repos, fresh>>
    /\ UNCHANGED <<platformVars, cached, previews, rec, hookVars, moves, faults>>

\* Defect: the finalizer is not waited for.
AcceptedEarly(g, modes) ==
    /\ Take(g) /\ cached[g] # None /\ ~cached[g].deleting /\ cached[g].mode \in modes

Accepted(g, modes) ==
    /\ Take(g) /\ cached[g] # None /\ ~cached[g].deleting /\ cached[g].finalizer
    /\ cached[g].mode \in modes

\* The route is set; a hook is registered unless one is recorded or it is left to the
\* user, which ends with the status "manual" and without RequeueAfter.
StartWebhook(g) ==
    /\ Accepted(g, {"webhook", "manual"}) /\ Done
    /\ routes' = routes \cup {g}
    /\ rec' = Read(g, IF cached[g].hook \/ cached[g].mode = "manual"
                      THEN "status" ELSE "register")
    /\ UNCHANGED <<platformVars, repoVars, previews, hooks, inbox, moves, faults>>

\* Defect: any other GitRepo of the repository counts.
WebhookConflictAny(g) == Present(cached) \ {g} # {}

\* findWebhookConflict
WebhookConflict(g) == \E h \in Present(cached) \ {g} : ByWebhook(cached[h])

\* Defect: a suspended GitRepo is not looked at again.
SuspendForGood(g) ==
    /\ Accepted(g, {"poll"}) /\ Done
    /\ WebhookConflict(g)
    /\ rec' = [Read(g, "status") EXCEPT !.verdict = TRUE]
    /\ UNCHANGED <<platformVars, repoVars, previews, hookVars, moves, faults>>

\* The webhook GitRepo wins: the poll is suppressed, to be looked at in five minutes.
Suspend(g) ==
    /\ Accepted(g, {"poll"}) /\ Done
    /\ WebhookConflict(g)
    /\ rec' = [Read(g, "status") EXCEPT !.verdict = TRUE, !.later = TRUE]
    /\ UNCHANGED <<platformVars, repoVars, previews, hookVars, moves, faults>>

\* A failing List is taken for "no conflict".
StartPoll(g) ==
    /\ Accepted(g, {"poll"}) /\ Done
    /\ \/ ~WebhookConflict(g) /\ NoFault
       \/ Fault("list")
    /\ rec' = Read(g, "fetch")
    /\ UNCHANGED <<platformVars, repoVars, previews, hookVars, moves>>

\* platform.New, RegisterWebhook, and the Update with the annotation.  An error of the
\* Update is returned; one of the secrets or of the platform is reported and retried
\* after a while; a URL that platform.New refuses is reported, and that is the end of it.
RegisterHook ==
    LET g == rec.gitrepo
    IN  /\ rec.pc = "register"
        /\ \/ /\ validURL /\ hooks' = hooks \cup {g} /\ NoFault
              /\ IF rec.current
                 THEN /\ Write(g, [repos[g] EXCEPT !.hook = TRUE])
                      /\ rec' = [rec EXCEPT !.pc = "status"]
                      /\ UNCHANGED queue
                 ELSE /\ queue' = Enqueued(queue, {g}) /\ rec' = NoRec
                      /\ UNCHANGED <<repos, fresh>>
           \/ /\ ~validURL /\ NoFault
              /\ rec' = [rec EXCEPT !.pc = "status"]
              /\ UNCHANGED <<hooks, repos, fresh, queue>>
           \/ /\ Fault("register")
              /\ rec' = [rec EXCEPT !.pc = "status", !.later = TRUE]
              /\ UNCHANGED <<hooks, repos, fresh, queue>>
        /\ UNCHANGED <<platformVars, cached, previews, timers, routes, inbox, moves>>

\* Defect: after an error the reconcile ends without RequeueAfter.
FetchOpenPRsOnce ==
    /\ rec.pc = "fetch"
    /\ \/ validURL /\ NoFault /\ rec' = [rec EXCEPT !.pc = "apply", !.answer = open]
       \/ /\ \/ ~validURL /\ NoFault
             \/ Fault("fetch")
          /\ rec' = [rec EXCEPT !.pc = "status"]
    /\ UNCHANGED <<platformVars, repoVars, previews, queueVars, hookVars, moves>>

FetchOpenPRs ==
    /\ rec.pc = "fetch"
    /\ \/ validURL /\ NoFault /\ rec' = [rec EXCEPT !.pc = "apply", !.answer = open]
       \/ /\ \/ ~validURL /\ NoFault
             \/ Fault("fetch")
          /\ rec' = [rec EXCEPT !.pc = "status", !.later = TRUE]
    /\ UNCHANGED <<platformVars, repoVars, previews, queueVars, hookVars, moves>>

NewPreview(g, uid) == [gitrepo |-> g, uid |-> uid, deleting |-> FALSE]

\* The PRDeployments with g's label.
Listed(g) == {pr \in PRs : previews[pr] # None /\ previews[pr].gitrepo = g}

\* What poll does with its answer: creates what is missing (AlreadyExists when the
\* name is taken), deletes what it listed and the answer lacks, unless that is empty.
Polled(g) ==
    [pr \in PRs |->
       IF pr \in rec.answer /\ previews[pr] = None THEN NewPreview(g, rec.uid)
       ELSE IF pr \in Listed(g) \ rec.answer /\ rec.answer # {}
       THEN [previews[pr] EXCEPT !.deleting = TRUE]
       ELSE previews[pr]]

ApplyAnswer ==
    /\ rec.pc = "apply"
    /\ previews' = Polled(rec.gitrepo)
    /\ rec' = [rec EXCEPT !.pc = "status", !.later = TRUE]
    /\ UNCHANGED <<platformVars, repoVars, queueVars, hookVars, moves, faults>>

\* setStatus, whose error is dropped.  It carries the time, so it is a new version
\* unless phase and second are those already stored.
ReportStatus ==
    LET g == rec.gitrepo
    IN  /\ rec.pc = "status"
        /\ \/ /\ rec.current /\ NoFault
              /\ Write(g, [repos[g] EXCEPT !.superseded = rec.verdict])
           \/ /\ \/ rec.current /\ repos[g].superseded = rec.verdict /\ NoFault
                 \/ ~rec.current /\ NoFault
                 \/ Fault("status")
              /\ UNCHANGED <<repos, fresh>>
        /\ timers' = IF rec.later THEN timers \cup {g} ELSE timers
        /\ rec' = NoRec
        /\ UNCHANGED <<platformVars, cached, previews, queue, hookVars, moves>>

ReconcileStep ==
    \/ \E g \in GitRepos : \/ ReconcileGone(g) \/ ReconcileDelete(g) \/ AddFinalizer(g)
                           \/ StartWebhook(g) \/ Suspend(g) \/ StartPoll(g)
    \/ RegisterHook \/ FetchOpenPRs \/ ApplyAnswer \/ ReportStatus

-----------------------------------------------------------------------------
(* Deliveries *)

\* HandleEvent for the GitRepo g that the dispatcher picked.
Handled(g, d) ==
    [previews EXCEPT ![d.pr] =
       CASE d.action = "opened" /\ @ = None            -> NewPreview(g, cached[g].uid)
         [] d.action = "closed" /\ d.pr \in Listed(g)  -> [@ EXCEPT !.deleting = TRUE]
         [] OTHER                                      -> @]

\* The route that a hook names is looked up, but HandleWebhookEvent dispatches to the
\* first GitRepo of the repository in a list that has no order.
Deliver(d) ==
    /\ inbox' = inbox \ {d}
    /\ \/ /\ d.to \in routes /\ NoFault
          /\ \E g \in Present(cached) : previews' = Handled(g, d)
       \/ /\ \/ d.to \notin routes /\ NoFault
             \/ Present(cached) = {} /\ NoFault
             \/ Fault("lost")
          /\ UNCHANGED previews
    /\ UNCHANGED <<platformVars, repoVars, queueVars, rec, routes, hooks, moves>>

-----------------------------------------------------------------------------
(* Kubernetes, users, restarts *)

\* Defect: PRDeployments have no owner reference.
OwnedByNobody(p) == TRUE

\* The object that the owner reference of a PRDeployment names by its UID.
Owned(p) == repos[p.gitrepo] # None /\ repos[p.gitrepo].uid = p.uid

\* The owner of a PRDeployment is gone: garbage collection deletes it.
Collect(pr) ==
    /\ previews[pr] # None /\ ~previews[pr].deleting
    /\ ~Owned(previews[pr])
    /\ previews' = [previews EXCEPT ![pr].deleting = TRUE]
    /\ UNCHANGED <<platformVars, repoVars, queueVars, rec, hookVars, moves, faults>>

\* The PRDeployment controller removes its finalizer, see DeletionCompletes there.
TeardownEnds(pr) ==
    /\ previews[pr] # None /\ previews[pr].deleting
    /\ previews' = [previews EXCEPT ![pr] = None]
    /\ UNCHANGED <<platformVars, repoVars, queueVars, rec, hookVars, moves, faults>>

\* Queue, timers and routes are in memory; every GitRepo is listed and enqueued.
Restart ==
    /\ Fault("crash")
    /\ rec' = NoRec /\ timers' = {} /\ routes' = {}
    /\ cached' = repos /\ fresh' = GitRepos
    /\ queue' \in SetToSeqs(Present(repos))
    /\ UNCHANGED <<platformVars, repos, previews, hooks, inbox, moves>>

Move(kind) == kind \in Moves /\ moves < MaxMoves /\ moves' = moves + 1

UserWrites(g, obj) ==
    /\ Write(g, obj)
    /\ rec' = IF rec.gitrepo = g THEN [rec EXCEPT !.current = FALSE] ELSE rec
    /\ UNCHANGED <<open, inbox>>

Create(g) == /\ Move("create") /\ repos[g] = None
             /\ \E m \in Modes : UserWrites(g, NewObject(moves + 1, m))
Delete(g) == /\ Move("delete") /\ repos[g] # None /\ ~repos[g].deleting
             /\ UserWrites(g, IF repos[g].finalizer THEN [repos[g] EXCEPT !.deleting = TRUE]
                                                    ELSE None)
ChangeMode(g) == /\ Move("mode") /\ repos[g] # None
                 /\ \E m \in Modes \ {repos[g].mode} :
                      UserWrites(g, [repos[g] EXCEPT !.mode = m])

\* The platform posts to every hook.
Post(pr, action) ==
    /\ inbox' = inbox \cup {[to |-> g, pr |-> pr, action |-> action] : g \in hooks}
    /\ UNCHANGED <<repos, fresh, rec>>

Open(pr) == /\ Move("open") /\ pr \in Changing \ open
            /\ open' = open \cup {pr} /\ Post(pr, "opened")
Close(pr) == /\ Move("close") /\ pr \in Changing \cap open
             /\ open' = open \ {pr} /\ Post(pr, "closed")

OutsideMove ==
    /\ \/ \E g \in GitRepos : Create(g) \/ Delete(g) \/ ChangeMode(g)
       \/ \E pr \in PRs : Open(pr) \/ Close(pr)
    /\ UNCHANGED <<validURL, cached, previews, queueVars, routes, hooks, faults>>

-----------------------------------------------------------------------------
Next ==
    \/ ReconcileStep \/ Restart \/ OutsideMove
    \/ \E g \in GitRepos : Observe(g) \/ TimerEnds(g)
    \/ \E d \in inbox : Deliver(d)
    \/ \E pr \in PRs : Collect(pr) \/ TeardownEnds(pr)

\* The worker takes the queue's names in turn, so fairness of its step is enough for
\* each; watches deliver, timers end, deliveries arrive, Kubernetes collects.
Fairness ==
    /\ WF_vars(ReconcileStep)
    /\ WF_vars(\E d \in inbox : Deliver(d))
    /\ \A g \in GitRepos : WF_vars(Observe(g)) /\ WF_vars(TimerEnds(g))
    /\ \A pr \in PRs : WF_vars(Collect(pr)) /\ WF_vars(TeardownEnds(pr))

Spec == Init /\ [][Next]_vars
FairSpec == Spec /\ Fairness

-----------------------------------------------------------------------------
(* Safety *)

InMode(g, mode) == repos[g] # None /\ repos[g].mode = mode
Polls(g) == InMode(g, "poll") /\ ~repos[g].deleting
InWebhookMode(g) == repos[g] # None /\ ByWebhook(repos[g])
Rival(g) == \E h \in GitRepos \ {g} : InWebhookMode(h)

\* It can register its hook, and does so itself.
Registers(g) == InMode(g, "webhook") /\ validURL

Superseded(g) == repos[g] # None /\ repos[g].superseded

Quiet == rec.pc = "idle" /\ queue = <<>> /\ fresh = GitRepos

\* gitrepo.go:56, "when a webhook GitRepo is deleted, any superseded poll GitRepos for
\* the same repo are immediately requeued": once the queue is empty, without any timer,
\* each poll GitRepo is marked as superseded exactly if there is a webhook GitRepo,
\* although it may have decided on an old list and its status write may be refused.
QuietlySettled ==
    faults = 0 /\ Quiet => \A g \in GitRepos : Polls(g) => (Superseded(g) <=> Rival(g))

\* The worker ends most reconciles without asking for another one (gitrepo.go:93-214), so
\* what it must come back to has to be in a timer or in an event to come: once the queue
\* is empty no GitRepo is left half deleted, each one that polls has its next pass before
\* it, each one in webhook mode has its route, and each one that registers its hook has
\* it on the platform or will be looked at again, whatever request failed or was refused
\* as outdated, whatever was edited or restarted in between.  Nobody comes back to a hook
\* that is left to the user, nor to a URL that platform.New refuses: both end without
\* RequeueAfter (gitrepo.go:184, 214), and only an edit or a restart looks at them again.
NoneForgotten ==
    Quiet => \A g \in GitRepos :
      /\ repos[g] # None => ~repos[g].deleting
      /\ Polls(g) => g \in timers
      /\ InWebhookMode(g) => g \in routes
      /\ Registers(g) => g \in hooks \/ g \in timers

-----------------------------------------------------------------------------
(* Liveness *)

Polling(g) == rec.pc \in {"fetch", "apply"} /\ rec.gitrepo = g

\* "webhook wins" (gitrepo.go:111): beside a webhook GitRepo that stays, polling stops
\* and says so, whatever request failed or process crashed.
YieldsToWebhook ==
    \A g \in GitRepos :
      <>[](Polls(g) /\ Rival(g)) => <>[](Superseded(g) /\ ~Polling(g))

\* gitrepo.go:119, "No conflict ... resume": without one the polling goes on for ever.
ResumesPolling ==
    \A g \in GitRepos : <>[](Polls(g) /\ ~Rival(g)) => []<>Polling(g)

\* Polling alone is responsible, and reaches the repository.
OnlyPolling == /\ \E g \in GitRepos : Polls(g)
               /\ ~\E g \in GitRepos : InWebhookMode(g)
               /\ validURL

Live(pr) == previews[pr] # None /\ ~previews[pr].deleting

\* Once the repository is only polled, every open pull request gets its preview,
\* although the one it had may belong to a GitRepo that is gone, or was made or lost
\* by deliveries that arrived late, out of order or at another GitRepo.
OpenIsDeployed == \A pr \in PRs : <>[](pr \in open /\ OnlyPolling) => <>[]Live(pr)

\* And every closed one loses its preview as long as another stays open.
ClosedIsTornDown ==
    \A pr \in Changing, other \in PRs :
      <>[](pr \notin open /\ other \in open /\ OnlyPolling) => <>[](previews[pr] = None)

-----------------------------------------------------------------------------
(* A sentence of the repository that does not hold *)

Served(g) == InMode(g, "webhook") /\ ~repos[g].deleting /\ g \in hooks \cap routes

\* README.md:6, "When the PR closes, the environment is torn down": with a webhook that
\* is registered and served for good.
ClosedUnderWebhook ==
    \A pr \in PRs, g \in GitRepos :
      /\ <>(pr \in open /\ Served(g))
      /\ <>[](pr \notin open /\ Served(g))
      => <>[](previews[pr] = None)
=============================================================================
