---------------------------- MODULE PRDeployment ----------------------------
(***************************************************************************)
(* PRDeploymentReconciler: the controller that turns a PRDeployment into a *)
(* kube-deploy App, mirrors the App's status and reports it on the pull    *)
(* request, and takes the App down again.  controller-runtime runs it for  *)
(* one key on one goroutine, so it is one thread with a program counter:   *)
(* the reads a reconcile starts with are one step (all are cache reads),   *)
(* and every request to the API server or to the git platform is a step of *)
(* its own, between which anything else may happen.                        *)
(***************************************************************************)
EXTENDS Cluster

CONSTANTS
    NotifyKinds,    \* the comments spec.notify asks for: OnDeploy, OnError
    MaxComments     \* comments of a kind are counted up to this number

Kinds == {"deploy", "error"}

ASSUME CommentAssumption == NotifyKinds \subseteq Kinds /\ MaxComments \in Nat \ {0}

VARIABLES
    rec,          \* the reconcile in progress: program counter and locals
    queued,       \* the key is in the workqueue
    timer,        \* a RequeueAfter is pending for the key
    commitStatus, \* per commit: the last status set on the git platform
    comments,     \* per kind: comments posted on the pull request
    dropped       \* history: kinds of which a comment was lost to a failed request

recVars == <<rec, queued, timer>>
reportVars == <<commitStatus, comments, dropped>>
prdeploymentVars == <<recVars, reportVars>>

-----------------------------------------------------------------------------
Idle == [pc |-> "idle", obj |-> None, app |-> None]

RecPCs == { "idle", "create", "annotate", "pend", "deploying", "buildFailed",
            "createFailed", "reportBuild", "mirror", "notify", "comment", "flag",
            "closing", "deleteApp", "unfinalize" }

CommitStatuses == {"none", "pending", "success", "failure", "error"}

RecTypeOK ==
    /\ rec \in [pc : RecPCs, obj : PRDs \cup {None}, app : Apps \cup {None}]
    /\ rec.pc # "idle" => rec.obj # None
    /\ rec.pc \in {"mirror", "notify", "comment", "flag"} => rec.app # None

PRDeploymentTypeOK ==
    /\ RecTypeOK
    /\ queued \in BOOLEAN /\ timer \in BOOLEAN
    /\ commitStatus \in [SHAs -> CommitStatuses]
    /\ comments \in [Kinds -> 0..MaxComments]
    /\ dropped \subseteq NotifyKinds

PRDeploymentInit ==
    /\ rec = Idle /\ queued = FALSE /\ timer = FALSE
    /\ commitStatus = [sha \in SHAs |-> "none"]
    /\ comments = [kind \in Kinds |-> 0]
    /\ dropped = {}

-----------------------------------------------------------------------------
(* Control flow of a reconcile *)

Go(pc, obj, a) == rec' = [pc |-> pc, obj |-> obj, app |-> a]

\* ctrl.Result{} without an error: the key comes back only with an event.
Done == rec' = Idle /\ UNCHANGED <<queued, timer>>

\* ctrl.Result{RequeueAfter: ...}, nil
Later == rec' = Idle /\ timer' = TRUE /\ UNCHANGED queued

\* An error: the workqueue retries with back-off.
Fail == rec' = Idle /\ queued' = TRUE /\ UNCHANGED timer

At(pc) == rec.pc = pc

\* A step inside a reconcile that goes on to another one.
Continue(pc, obj) == Go(pc, obj, rec.app) /\ UNCHANGED <<queued, timer>>

-----------------------------------------------------------------------------
(* Data *)

StateOf(phase) == CASE phase = "Running" -> "running"
                    [] phase = "Failed"  -> "error"
                    [] phase = ""        -> "pending"
                    [] OTHER             -> "deploying"

\* setPRDStatus: an empty commit leaves the recorded one in place.
WithStatus(p, state, message, commit) ==
    [p EXCEPT !.state = state, !.appPhase = message,
              !.commit = IF commit = None THEN @ ELSE commit]

StatusChanged(p, a) == \/ p.appPhase # a.phase
                       \/ p.state # StateOf(a.phase)
                       \/ p.commit # a.commit

BuildApp(p) == [ repo |-> IF p.cloneURL = None THEN Upstream ELSE p.cloneURL,
                 phase |-> "", commit |-> None ]

\* The reports on the git platform; an error of either, a secret or a platform that
\* cannot be had included, is dropped by the callers.
SetCommitStatus(sha, s) ==
    \/ NoFault /\ commitStatus' = [commitStatus EXCEPT ![sha] = s]
    \/ Fault("post") /\ UNCHANGED commitStatus

PostComment(kind) ==
    \/ /\ kind \notin NotifyKinds /\ NoFault
       /\ UNCHANGED <<comments, dropped>>
    \/ /\ kind \in NotifyKinds /\ NoFault
       /\ comments' = [comments EXCEPT ![kind] = IF @ < MaxComments THEN @ + 1 ELSE @]
       /\ UNCHANGED dropped
    \/ /\ kind \in NotifyKinds /\ Fault("post")
       /\ dropped' = dropped \cup {kind}
       /\ UNCHANGED comments

-----------------------------------------------------------------------------
(* Reconcile: the branches that end within the first reads *)

Dequeue == At("idle") /\ queued /\ queued' = FALSE

ReconcileGone ==
    /\ Dequeue
    /\ cachedPrd = None
    /\ UNCHANGED <<rec, timer, reportVars, clusterVars>>

\* The finalizer is added by an Update of the object just read.
AddFinalizer ==
    /\ At("idle") /\ queued
    /\ cachedPrd # None
    /\ ~cachedPrd.deleting /\ ~cachedPrd.finalizer
    /\ GetAndUpdate("reconciler", [cachedPrd EXCEPT !.finalizer = TRUE])
    /\ UNCHANGED <<recVars, reportVars, cachedPrd, app, cachedApp, gitrepo, shared>>

Accepted(p) == ~p.deleting /\ p.finalizer

ParentMissing ==
    /\ Dequeue
    /\ cachedPrd # None /\ Accepted(cachedPrd)
    /\ ~gitrepo
    /\ timer' = TRUE
    /\ UNCHANGED <<rec, reportVars, clusterVars>>

\* The App was created, the cache has not seen it yet.
AwaitApp ==
    /\ Dequeue
    /\ cachedPrd # None /\ Accepted(cachedPrd)
    /\ gitrepo /\ cachedApp = None /\ cachedPrd.created = "true"
    /\ timer' = TRUE
    /\ UNCHANGED <<rec, reportVars, clusterVars>>

\* The branches that go on with requests.
Start(pc) ==
    /\ Dequeue
    /\ cachedPrd # None
    /\ ReadPRD("reconciler")
    /\ Go(pc, cachedPrd, cachedApp)
    /\ UNCHANGED <<timer, reportVars, prd, cachedPrd, app, cachedApp, gitrepo, faults>>

StartDelete == cachedPrd # None /\ cachedPrd.deleting /\ Start("closing")

\* Defect: the App is created before the finalizer is there.
StartCreateEarly ==
    /\ cachedPrd # None /\ ~cachedPrd.deleting
    /\ gitrepo /\ cachedApp = None /\ cachedPrd.created # "true"
    /\ Start("create")

StartCreate ==
    /\ cachedPrd # None /\ Accepted(cachedPrd)
    /\ gitrepo /\ cachedApp = None /\ cachedPrd.created # "true"
    /\ Start("create")

\* Defect: notifications are considered on a change of status only.
StartSyncOnChange ==
    /\ cachedPrd # None /\ Accepted(cachedPrd)
    /\ gitrepo /\ cachedApp # None
    /\ StatusChanged(cachedPrd, cachedApp)
    /\ Start("mirror")

StartSync ==
    /\ cachedPrd # None /\ Accepted(cachedPrd)
    /\ gitrepo /\ cachedApp # None
    /\ Start(IF StatusChanged(cachedPrd, cachedApp) THEN "mirror" ELSE "notify")

-----------------------------------------------------------------------------
(* createApp *)

\* r.Create(app): created, there already, or refused; a request whose answer is
\* lost may have taken effect.  BuildApp may fail before it is sent.
CreateApp ==
    /\ At("create")
    /\ \/ /\ app = None /\ NoFault
          /\ SetApp(BuildApp(rec.obj))
          /\ Continue("annotate", rec.obj)
       \/ /\ app # None /\ NoFault
          /\ Later
          /\ UNCHANGED <<app, cachedApp>>
       \/ /\ Fault("build")
          /\ Continue("buildFailed", rec.obj)
          /\ UNCHANGED <<app, cachedApp>>
       \/ /\ Fault("api")
          /\ Continue("createFailed", rec.obj)
          /\ UNCHANGED <<app, cachedApp>>
       \/ /\ app = None /\ Fault("lost")
          /\ SetApp(BuildApp(rec.obj))
          /\ Continue("createFailed", rec.obj)
    /\ UNCHANGED <<prd, cachedPrd, gitrepo, fresh, shared, reportVars>>

\* Defect: a build failure is not recorded in the status.
RecordFailureUnrecorded ==
    /\ At("createFailed") \/ At("buildFailed")
    /\ IF At("buildFailed") THEN Continue("reportBuild", rec.obj) ELSE Done
    /\ UNCHANGED <<clusterVars, reportVars>>

\* Both failures record status "error" and return Result{}, nil: whatever the
\* status write does, nothing asks for another reconcile.
RecordFailure ==
    /\ At("createFailed") \/ At("buildFailed")
    /\ LET p == WithStatus(rec.obj, "error", "App CR not created", None)
       IN  /\ \/ UpdateStatus("reconciler", p)
              \/ Rejected("reconciler")
           /\ IF At("buildFailed") THEN Continue("reportBuild", p) ELSE Done
    /\ UNCHANGED <<cachedPrd, app, cachedApp, gitrepo, shared, reportVars>>

ReportBuild ==
    /\ At("reportBuild")
    /\ SetCommitStatus(rec.obj.headSHA, "error")
    /\ Done
    /\ UNCHANGED <<comments, dropped, prd, cachedPrd, app, cachedApp, gitrepo, fresh, shared>>

\* Defect: the mark is stored over whatever version there is.
AnnotateForced ==
    /\ At("annotate")
    /\ LET p == [rec.obj EXCEPT !.created = "true"]
       IN  \/ /\ prd # None /\ NoFault
              /\ Store("reconciler", WithStatusOf(p, prd))
              /\ Continue("pend", p)
           \/ Rejected("reconciler") /\ Fail
    /\ UNCHANGED <<cachedPrd, app, cachedApp, gitrepo, shared, reportVars>>

\* Marks the App as created.  When the map was emptied in memory it is still the
\* cache's own map, and the cache sees the mark before the server does.
Annotate ==
    /\ At("annotate")
    /\ LET p == [rec.obj EXCEPT !.created = "true"]
       IN  \/ Update("reconciler", p) /\ Continue("pend", p)
           \/ Rejected("reconciler") /\ Fail
    /\ cachedPrd' = IF "reconciler" \in shared /\ rec.obj.created = "emptied"
                    THEN [cachedPrd EXCEPT !.created = "true"] ELSE cachedPrd
    /\ UNCHANGED <<app, cachedApp, gitrepo, shared, reportVars>>

ReportPending ==
    /\ At("pend")
    /\ SetCommitStatus(rec.obj.headSHA, "pending")
    /\ Continue("deploying", rec.obj)
    /\ UNCHANGED <<comments, dropped, prd, cachedPrd, app, cachedApp, gitrepo, fresh, shared>>

RecordDeploying ==
    /\ At("deploying")
    /\ \/ /\ UpdateStatus("reconciler", WithStatus(rec.obj, "deploying", "App CR created", None))
          /\ Later
       \/ Rejected("reconciler") /\ Fail
    /\ UNCHANGED <<cachedPrd, app, cachedApp, gitrepo, shared, reportVars>>

-----------------------------------------------------------------------------
(* syncStatus *)

\* Defect: the status write before the notification already carries its flags.
MirrorFlagged ==
    /\ At("mirror")
    /\ LET p == [WithStatus(rec.obj, StateOf(rec.app.phase), rec.app.phase, rec.app.commit)
                   EXCEPT !.notifiedDeploy = @ \/ rec.app.phase = "Running"]
       IN  \/ UpdateStatus("reconciler", p) /\ Continue("notify", rec.obj)
           \/ Rejected("reconciler") /\ Fail
    /\ UNCHANGED <<cachedPrd, app, cachedApp, gitrepo, shared, reportVars>>

Mirror ==
    /\ At("mirror")
    /\ LET p == WithStatus(rec.obj, StateOf(rec.app.phase), rec.app.phase,
                           rec.app.commit)
       IN  \/ UpdateStatus("reconciler", p) /\ Continue("notify", p)
           \/ Rejected("reconciler") /\ Fail
    /\ UNCHANGED <<cachedPrd, app, cachedApp, gitrepo, shared, reportVars>>

AnnounceReady == /\ StateOf(rec.app.phase) = "running"
                 /\ ~rec.obj.notifiedDeploy
AnnounceError == /\ StateOf(rec.app.phase) = "error"
                 /\ ~rec.obj.notifiedError

\* First the commit status, then the comment, then the flag: three requests.
ReportOutcome ==
    /\ At("notify")
    /\ \/ AnnounceReady /\ SetCommitStatus(rec.obj.headSHA, "success")
       \/ AnnounceError /\ SetCommitStatus(rec.obj.headSHA, "failure")
    /\ Continue("comment", rec.obj)
    /\ UNCHANGED <<comments, dropped, prd, cachedPrd, app, cachedApp, gitrepo, fresh, shared>>

NotifyReady ==
    /\ At("comment") /\ AnnounceReady
    /\ PostComment("deploy")
    /\ Continue("flag", [rec.obj EXCEPT !.notifiedDeploy = TRUE,
                                        !.state = "running",
                                        !.appPhase = rec.app.phase,
                                        !.commit = rec.app.commit])
    /\ UNCHANGED <<commitStatus, prd, cachedPrd, app, cachedApp, gitrepo, fresh, shared>>

NotifyFailed ==
    /\ At("comment") /\ AnnounceError
    /\ PostComment("error")
    /\ Continue("flag", [rec.obj EXCEPT !.notifiedError = TRUE,
                                        !.state = "error",
                                        !.appPhase = rec.app.phase])
    /\ UNCHANGED <<commitStatus, prd, cachedPrd, app, cachedApp, gitrepo, fresh, shared>>

\* Defect: the App's phase is not looked at again after a while.
NothingToNotifyDone ==
    /\ At("notify") /\ ~AnnounceReady /\ ~AnnounceError
    /\ Done
    /\ UNCHANGED <<clusterVars, reportVars>>

NothingToNotify ==
    /\ At("notify") /\ ~AnnounceReady /\ ~AnnounceError
    /\ Later
    /\ UNCHANGED <<clusterVars, reportVars>>

RecordNotified ==
    /\ At("flag")
    /\ \/ UpdateStatus("reconciler", rec.obj) /\ Later
       \/ Rejected("reconciler") /\ Fail
    /\ UNCHANGED <<cachedPrd, app, cachedApp, gitrepo, shared, reportVars>>

-----------------------------------------------------------------------------
(* reconcileDelete *)

\* Defect: the App is left to somebody else's clean-up.
LookupAppNever ==
    /\ At("closing")
    /\ Go("unfinalize", rec.obj, None)
    /\ UNCHANGED <<queued, timer, clusterVars, reportVars>>

\* The close comment may be posted here; then the App is looked up.
LookupApp ==
    /\ At("closing")
    /\ Go(IF cachedApp = None THEN "unfinalize" ELSE "deleteApp", rec.obj, cachedApp)
    /\ UNCHANGED <<queued, timer, clusterVars, reportVars>>

\* Defect: an error of the deletion is logged and the finalizer removed anyway.
DeleteAppIgnoring ==
    /\ At("deleteApp")
    /\ \/ SetApp(None) /\ NoFault
       \/ Fault("api") /\ UNCHANGED <<app, cachedApp>>
    /\ Continue("unfinalize", rec.obj)
    /\ UNCHANGED <<prd, cachedPrd, gitrepo, fresh, shared, reportVars>>

\* NotFound is not an error here.
DeleteApp ==
    /\ At("deleteApp")
    /\ \/ /\ SetApp(None) /\ NoFault
          /\ Continue("unfinalize", rec.obj)
       \/ /\ Fault("api")
          /\ Fail
          /\ UNCHANGED <<app, cachedApp>>
    /\ UNCHANGED <<prd, cachedPrd, gitrepo, fresh, shared, reportVars>>

\* Defect: the error of the last Update is not returned.
RemoveFinalizerOnce ==
    /\ At("unfinalize")
    /\ \/ Current("reconciler") /\ NoFault /\ prd' = None /\ fresh' = {}
       \/ Rejected("reconciler")
    /\ Done
    /\ UNCHANGED <<cachedPrd, app, cachedApp, gitrepo, shared, reportVars>>

\* The API server removes a terminating object with its last finalizer.
RemoveFinalizer ==
    /\ At("unfinalize")
    /\ \/ /\ Current("reconciler") /\ NoFault
          /\ prd' = None /\ fresh' = {}
          /\ Done
       \/ Rejected("reconciler") /\ Fail
    /\ UNCHANGED <<cachedPrd, app, cachedApp, gitrepo, shared, reportVars>>

-----------------------------------------------------------------------------
(* Events and timers *)

\* A watch event updates the cache and enqueues the key.
ObservePRD ==
    /\ SyncPRD
    /\ queued' = TRUE
    /\ UNCHANGED <<rec, timer, reportVars, prd, app, cachedApp, gitrepo, faults>>

\* The controller does not watch Apps: their events only update the cache.
ObserveApp == SyncApp /\ UNCHANGED prdeploymentVars

TimerFires ==
    /\ timer
    /\ timer' = FALSE /\ queued' = TRUE
    /\ UNCHANGED <<rec, reportVars, clusterVars>>

ReconcileStep ==
    \/ ReconcileGone \/ AddFinalizer \/ ParentMissing \/ AwaitApp
    \/ StartDelete \/ StartCreate \/ StartSync
    \/ CreateApp \/ RecordFailure \/ ReportBuild \/ Annotate \/ ReportPending
    \/ RecordDeploying
    \/ Mirror \/ ReportOutcome \/ NotifyReady \/ NotifyFailed \/ NothingToNotify \/ RecordNotified
    \/ LookupApp \/ DeleteApp \/ RemoveFinalizer

PRDeploymentNext == ReconcileStep \/ ObservePRD \/ ObserveApp \/ TimerFires
=============================================================================
