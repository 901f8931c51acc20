------------------------------- MODULE Preview -------------------------------
(***************************************************************************)
(* One pull request of a webhook-mode GitRepo, from end to end: the git    *)
(* platform with the pull request and the deliveries in flight, the        *)
(* handlers of the HTTP server (HandleEvent), the PRDeployment controller  *)
(* (PRDeployment), and kube-deploy driving the App.  The platform,         *)
(* kube-deploy and Kubernetes' garbage collector are outside src/; they    *)
(* are modelled from what src/ assumes of them.                            *)
(***************************************************************************)
EXTENDS PRDeployment, HandleEvent

CONSTANTS
    Moves,      \* what the outside world may do in this instance
    MaxMoves    \* bound on how often it does anything

ASSUME MovesAssumption ==
    /\ Moves \subseteq { "push", "transfer", "close", "reopen", "label",
                         "comment", "rebuild", "remove" }
    /\ MaxMoves \in Nat

VARIABLES
    pull,       \* the pull request on the platform
    inbox,      \* webhook deliveries in flight, in no order
    moves       \* moves made so far

platformVars == <<pull, inbox, moves>>
vars == <<clusterVars, prdeploymentVars, handler, platformVars>>

-----------------------------------------------------------------------------
Pulls == [open : BOOLEAN, headSHA : SHAs, cloneURL : Clones, trusted : BOOLEAN]

TypeOK ==
    /\ ClusterTypeOK /\ PRDeploymentTypeOK /\ HandleEventTypeOK
    /\ pull \in Pulls
    /\ inbox \subseteq Events
    /\ \A e \in inbox : e.headSHA = None => e.action = "comment"
    /\ moves \in 0..MaxMoves

\* What a delivery carries after parsing: the clone URL in GitHub's pull request
\* events only, the head commit in all but the comments of GitHub and Gitea.
EventFor(p, action) ==
    [ action   |-> action,
      headSHA  |-> IF action = "comment" /\ Platform # "gitlab" THEN None ELSE p.headSHA,
      cloneURL |-> IF action = "comment" \/ Platform # "github" THEN None ELSE p.cloneURL,
      passes   |-> p.trusted ]

Init ==
    /\ ClusterInit /\ PRDeploymentInit /\ HandleEventInit
    /\ pull \in [open : {TRUE}, headSHA : SHAs, cloneURL : Clones, trusted : {TRUE}]
    /\ inbox = {EventFor(pull, "opened")}
    /\ moves = 0

-----------------------------------------------------------------------------
(* The outside world *)

Move(kind) == /\ kind \in Moves
              /\ moves < MaxMoves
              /\ moves' = moves + 1

PullMoves(p, events) == /\ pull' = p
                        /\ inbox' = inbox \cup events

Push == /\ Move("push") /\ pull.open
        /\ \E sha \in SHAs \ {pull.headSHA} :
             LET p == [pull EXCEPT !.headSHA = sha]
             IN  PullMoves(p, {EventFor(p, "synchronize")})

\* The head repository is renamed or moved; no delivery tells of it.
Transfer == /\ Move("transfer") /\ pull.open
            /\ \E clone \in Clones \ {pull.cloneURL} :
                 PullMoves([pull EXCEPT !.cloneURL = clone], {})

Close == /\ Move("close") /\ pull.open
         /\ LET p == [pull EXCEPT !.open = FALSE]
            IN  PullMoves(p, {EventFor(p, "closed")})

Reopen == /\ Move("reopen") /\ ~pull.open
          /\ LET p == [pull EXCEPT !.open = TRUE]
             IN  PullMoves(p, {EventFor(p, "opened")})

\* A label the policy requires is removed or put back.
Relabel == /\ Move("label") /\ pull.open
           /\ LET p == [pull EXCEPT !.trusted = ~@]
              IN  PullMoves(p, {EventFor(p, IF p.trusted THEN "labeled" ELSE "unlabeled")})

Comment == /\ Move("comment") /\ pull.open
           /\ PullMoves(pull, {EventFor(pull, "comment")})

OutsideMove ==
    /\ Push \/ Transfer \/ Close \/ Reopen \/ Relabel \/ Comment
    /\ UNCHANGED <<clusterVars, prdeploymentVars, handler>>

\* kube-deploy builds and runs the App it finds.
AppAdvances ==
    /\ app # None
    /\ \E phase \in Phases :
         /\ <<app.phase, phase>> \in
              {<<"", "Building">>, <<"Building", "Running">>, <<"Building", "Failed">>}
         /\ SetApp([app EXCEPT !.phase = phase,
                               !.commit = IF phase = "Running" THEN pull.headSHA ELSE @])
    /\ UNCHANGED <<prd, cachedPrd, gitrepo, fresh, shared, faults,
                   prdeploymentVars, handler, platformVars>>

\* kube-deploy starts over, after a push or by hand.
Rebuild ==
    /\ Move("rebuild")
    /\ app # None /\ app.phase \in {"Running", "Failed"}
    /\ SetApp([app EXCEPT !.phase = "Building"])
    /\ UNCHANGED <<prd, cachedPrd, gitrepo, fresh, shared, faults,
                   prdeploymentVars, handler, pull, inbox>>

\* The GitRepo is deleted and its own reconcileDelete has let it go.
RemoveGitRepo ==
    /\ Move("remove") /\ gitrepo
    /\ gitrepo' = FALSE
    /\ UNCHANGED <<prd, cachedPrd, app, cachedApp, fresh, shared, faults,
                   prdeploymentVars, handler, pull, inbox>>

\* createPRDeployment sets an owner reference to the GitRepo: Kubernetes deletes
\* the dependants of an owner that is gone.
GarbageCollect ==
    /\ ~gitrepo /\ prd # None /\ ~prd.deleting
    /\ DeletePRD
    /\ UNCHANGED <<cachedPrd, app, cachedApp, gitrepo, shared, faults,
                   prdeploymentVars, handler, platformVars>>

-----------------------------------------------------------------------------
(* The operator *)

\* A delivery reaches HandleWebhookEvent, which finds the GitRepo or fails.
Deliver ==
    \E e \in inbox :
      /\ inbox' = inbox \ {e}
      /\ \/ gitrepo /\ (\E h \in Handlers : Receive(h, e)) /\ NoFault
         \/ ~gitrepo /\ NoFault /\ UNCHANGED handler
         \/ Fault("loss") /\ UNCHANGED handler
      /\ UNCHANGED <<prd, cachedPrd, app, cachedApp, gitrepo, fresh, shared,
                     prdeploymentVars, pull, moves>>

Handle(h) == /\ FetchHead(h, pull.headSHA, pull.cloneURL) \/ HandlerStep(h)
             /\ UNCHANGED <<prdeploymentVars, platformVars>>

Reconcile == ReconcileStep /\ UNCHANGED <<handler, platformVars>>

Observe == (ObservePRD \/ ObserveApp) /\ UNCHANGED <<handler, platformVars>>

Requeue == TimerFires /\ UNCHANGED <<handler, platformVars>>

\* The process dies and starts again: the informers list everything anew and
\* every PRDeployment that exists is enqueued.  Requests being served are gone.
Restart ==
    /\ Fault("crash")
    /\ rec' = Idle /\ queued' = (prd # None) /\ timer' = FALSE
    /\ cachedPrd' = prd /\ cachedApp' = app /\ fresh' = {"cache"} /\ shared' = {}
    /\ handler' = [h \in Handlers |-> IdleHandler]
    /\ UNCHANGED <<prd, app, gitrepo, reportVars, platformVars>>

Next ==
    \/ OutsideMove \/ AppAdvances \/ Rebuild \/ RemoveGitRepo \/ GarbageCollect
    \/ Deliver \/ (\E h \in Handlers : Handle(h))
    \/ Reconcile \/ Observe \/ Requeue \/ Restart

\* The operator's goroutines keep running, watches and timers fire and deliveries
\* arrive; a failure, a restart, kube-deploy's progress or the platform's next
\* move is never forced.
Fairness ==
    /\ WF_vars(Reconcile) /\ WF_vars(Requeue)
    /\ WF_vars(ObservePRD /\ UNCHANGED <<handler, platformVars>>)
    /\ WF_vars(ObserveApp /\ UNCHANGED <<handler, platformVars>>)
    /\ WF_vars(Deliver)
    /\ \A h \in Handlers : WF_vars(Handle(h))
    /\ WF_vars(GarbageCollect)

Spec == Init /\ [][Next]_vars
FairSpec == Spec /\ Fairness
=============================================================================
