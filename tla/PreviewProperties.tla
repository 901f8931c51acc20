-------------------------- MODULE PreviewProperties --------------------------
(***************************************************************************)
(* What is expected of one preview environment.  The first part holds and  *)
(* is checked as such; the second restates a sentence of the repository    *)
(* that the code does not live up to.                                      *)
(***************************************************************************)
EXTENDS Preview

(* Safety *)

\* An App is never left without the PRDeployment whose finalizer removes it,
\* across create/delete races, crashes and reclones: the promise of
\* reconcileDelete, and README.md's "No leftover resources".  It holds while the App
\* cache is current (AppLag = FALSE) and fails otherwise; see OrphanedByLookup.
NoOrphanApp == app # None => prd # None /\ prd.finalizer

\* Lost updates: the reconciler's writes, made from copies that may be old, never
\* undo the head commit or the clone URL a handler stored, and no handler's write
\* undoes the finalizer the reconciler stored.
NoLostUpdate ==
    [][ prd # None /\ prd' # None =>
          /\ prd.finalizer => prd'.finalizer
          /\ UNCHANGED handler => /\ prd'.headSHA = prd.headSHA
                                  /\ prd'.cloneURL = prd.cloneURL ]_vars

\* A comment that was posted, was not asked for, or was lost to a failed request.
Announced(kind) == comments[kind] > 0 \/ kind \notin NotifyKinds \/ kind \in dropped

\* syncStatus announces before it notes so: when the flag is stored, the comment was
\* posted, whatever crash or conflict lies between.  The one way to a flag without its
\* comment is a failed request, whose error syncStatus drops.
FlagAfterPost ==
    prd # None => /\ prd.notifiedDeploy => Announced("deploy")
                  /\ prd.notifiedError => Announced("error")

\* The preview as PreviewLifecycle sees it.
Lifecycle == INSTANCE PreviewLifecycle WITH
    stage <- IF prd = None THEN "absent"
             ELSE IF prd.deleting THEN "terminating" ELSE "live",
    deployed <- app # None

\* The whole machine implements PreviewLifecycle: no step forgets a preview that
\* has an App, brings a terminating one back, or deploys what nobody requested.
LifecycleSpec == Lifecycle!Spec

-----------------------------------------------------------------------------
(* What holds of the App when its cache lags *)

HasFinalizer(p) == p # None /\ p.finalizer

\* No finalizer will take this App down.
Orphaned == app # None /\ ~HasFinalizer(prd)

\* A deletion about to let the PRDeployment go, whose look at the App cache came before
\* the App that exists could be seen in it.
Overlooked == At("unfinalize") /\ rec.app = None /\ app # None

\* An App loses its guard in one way only: in the last Update of a deletion whose lookup
\* missed it.  No create/delete race, reclone, crash or refused request leads there.
OrphanedByLookup == [][Orphaned' => Orphaned \/ Overlooked]_vars

\* PreviewLifecycle without the assumption on the App cache: the one step it does not
\* allow is the end of a PRDeployment whose App was overlooked.
LifecycleButOverlooked ==
    /\ Lifecycle!Init
    /\ [][ \/ [Lifecycle!Next]_(Lifecycle!lifecycleVars)
           \/ /\ Orphaned \/ Overlooked
              /\ prd' = None /\ UNCHANGED app ]_vars

-----------------------------------------------------------------------------
(* Why they hold: an invariant of every step.  The marks of a PRDeployment are *)
(* its finalizer and its deletion timestamp, all that an App's protection      *)
(* depends on.                                                                 *)

SameMarks(p, q) ==
    \/ p = None /\ q = None
    \/ /\ p # None /\ q # None
       /\ p.finalizer = q.finalizer /\ p.deleting = q.deleting

\* A copy that the API server would accept has the marks the API server has, so
\* no accepted Update changes one by accident.
CopiesAgree ==
    /\ "cache" \in fresh => SameMarks(prd, cachedPrd)
    /\ rec.pc # "idle" /\ "reconciler" \in fresh => SameMarks(prd, rec.obj)
    /\ \A h \in Handlers :
         handler[h].pc \in {"deleteApp", "update"} /\ h \in fresh
           => SameMarks(prd, handler[h].obj)

\* What the cache says of the marks may be old, but never too hopeful.
CacheClaims ==
    cachedPrd # None =>
      /\ Accepted(cachedPrd) => HasFinalizer(prd)
      /\ cachedPrd.deleting => (HasFinalizer(prd) => prd.deleting)

TearingDown == rec.pc \in {"closing", "deleteApp", "unfinalize"}

\* A reconcile creates an App only under a finalizer, and one that tears down does
\* so on a PRDeployment that no reconcile will deploy again.
RecGuarded ==
    /\ rec.pc = "create" => HasFinalizer(prd)
    /\ TearingDown => /\ cachedPrd # None => ~Accepted(cachedPrd)
                      /\ HasFinalizer(prd) => prd.deleting
    /\ rec.pc = "unfinalize" => rec.app = None \/ app = None

GuardInvariant == TypeOK /\ CopiesAgree /\ CacheClaims /\ RecGuarded

-----------------------------------------------------------------------------
(* Liveness *)

\* Every deletion of a PRDeployment completes, through failed deletes of the App,
\* conflicts on the finalizer and restarts.
DeletionCompletes == (prd # None /\ prd.deleting) ~> (prd = None)

Live == prd # None /\ ~prd.deleting /\ gitrepo

\* A preview that stays requested gets its App, although createApp's retries only
\* come from watch events and timers.
EventuallyDeployed == Live ~> (app # None \/ ~Live)

\* The status settles on the phase the App settles on, although the controller
\* watches no Apps and learns of a change by its own timers only.
StatusFollowsApp ==
    \A phase \in Phases :
      <>[](Live /\ app # None /\ app.phase = phase) => <>[](Live => prd.appPhase = phase)

\* A preview that keeps running is announced on the pull request, or the platform was
\* asked once and failed: there is no second attempt.
RunningIsAnnounced ==
    <>[](Live /\ app # None /\ app.phase = "Running") => <>Announced("deploy")

-----------------------------------------------------------------------------
(* A sentence of the repository that does not hold *)

\* gitrepo.go:426: "delete the App CR so it rebuilds from the correct repo".
RebuiltFromClone ==
    \A clone \in Clones :
      <>[](Live /\ prd.cloneURL = clone) => <>[](app # None => app.repo = clone)
=============================================================================
