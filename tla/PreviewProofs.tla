---------------------------- MODULE PreviewProofs ----------------------------
(***************************************************************************)
(* An App outlives its PRDeployment only where a deletion looked it up in  *)
(* a cache that did not show it yet, and but for that step Preview         *)
(* implements PreviewLifecycle: for every set of handlers, commits and     *)
(* clone URLs, every number of moves and failures, and whether the App     *)
(* cache lags or not.                                                      *)
(***************************************************************************)
EXTENDS PreviewTypeProofs

(* Marks *)

LEMMA SameMarksSymmetric ==
    ASSUME NEW p, NEW q, SameMarks(p, q)
    PROVE  SameMarks(q, p)
BY DEF SameMarks

LEMMA SameMarksTransitive ==
    ASSUME NEW p, NEW q, NEW r, SameMarks(p, q), SameMarks(q, r)
    PROVE  SameMarks(p, r)
BY DEF SameMarks

-----------------------------------------------------------------------------
(* Steps that leave the marks alone and create no App *)

\* The steps in which nothing of what protects an App changes: whatever copies they
\* make or write back, the marks in the API server and in the cache stay, no App
\* appears, and no reconcile enters a phase that creates or removes something.
LEMMA QuietStep ==
    ASSUME TypeOK, TypeOK',
           CopiesAgree, CacheClaims, RecGuarded,
           SameMarks(prd, prd'), SameMarks(cachedPrd, cachedPrd'),
           app = None => app' = None,
           "cache" \in fresh' => "cache" \in fresh,
           rec'.pc # "idle" /\ "reconciler" \in fresh' => SameMarks(prd', rec'.obj),
           \A h \in Handlers :
             handler'[h].pc \in {"deleteApp", "update"} /\ h \in fresh'
               => SameMarks(prd', handler'[h].obj),
           rec'.pc \in {"create", "closing", "deleteApp", "unfinalize"} => rec' = rec
    PROVE  CopiesAgree' /\ CacheClaims' /\ RecGuarded'
<1>2. CopiesAgree'
  BY DEF CopiesAgree, SameMarks
<1>3. CacheClaims'
  BY DEF CacheClaims, HasFinalizer, SameMarks, Accepted
<1>4. RecGuarded'
  BY DEF RecGuarded, TearingDown, HasFinalizer, SameMarks, Accepted
<1> QED BY <1>2, <1>3, <1>4

LEMMA WriteKeepsMarks ==
    ASSUME TypeOK, NEW w \in Threads, NEW p \in PRDs,
           w \in fresh => SameMarks(prd, p),
           Update(w, p) \/ UpdateStatus(w, p) \/ Rejected(w)
    PROVE  SameMarks(prd, prd') /\ fresh' \subseteq fresh
<1>1. CASE Update(w, p)
  <2>1. w \in fresh /\ fresh' = {w}
    BY <1>1 DEF Update, Current, Store
  <2> QED BY <1>1, <2>1, UpdateType, ClusterAssumption DEF SameMarks
<1>2. CASE UpdateStatus(w, p)
  <2>1. w \in fresh /\ (fresh' = {w} \/ UNCHANGED fresh)
    BY <1>2 DEF UpdateStatus, Current, Store
  <2> QED BY <1>2, <2>1, UpdateStatusType, ClusterAssumption DEF SameMarks
<1>3. CASE Rejected(w)
  BY <1>3, RejectedType DEF SameMarks
<1> QED BY <1>1, <1>2, <1>3

LEMMA CachedUpdateKeepsMarks ==
    ASSUME TypeOK, CopiesAgree, NEW w \in Threads, NEW p \in PRDs,
           SameMarks(cachedPrd, p), GetAndUpdate(w, p)
    PROVE  /\ SameMarks(prd, prd') /\ fresh' \subseteq fresh \cup {w}
           /\ "cache" \in fresh' => "cache" \in fresh
<1>1. CASE UNCHANGED <<prd, fresh>>
  BY <1>1 DEF SameMarks
<1>2. CASE /\ prd \in PRDs /\ "cache" \in fresh /\ prd' \in PRDs
           /\ prd'.finalizer = p.finalizer /\ prd'.deleting = p.deleting
           /\ fresh' = {w}
  BY <1>2, ClusterAssumption DEF CopiesAgree, SameMarks
<1> QED BY <1>1, <1>2, GetAndUpdateType

\* QuietStep for the reconciler: the handlers stand still.
LEMMA QuietReconcile ==
    ASSUME TypeOK, TypeOK',
           CopiesAgree, CacheClaims, RecGuarded, UNCHANGED handler,
           SameMarks(prd, prd'), SameMarks(cachedPrd, cachedPrd'),
           app = None => app' = None,
           fresh' \subseteq fresh \cup {"reconciler"},
           rec'.pc # "idle" /\ "reconciler" \in fresh' => SameMarks(prd', rec'.obj),
           rec'.pc \in {"create", "closing", "deleteApp", "unfinalize"} => rec' = rec
    PROVE  CopiesAgree' /\ CacheClaims' /\ RecGuarded'
<1>1. "cache" \in fresh' => "cache" \in fresh
  OBVIOUS
<1>2. ASSUME NEW h \in Handlers,
             handler'[h].pc \in {"deleteApp", "update"}, h \in fresh'
      PROVE  SameMarks(prd', handler'[h].obj)
  <2>1. h \in fresh
    BY <1>2, ClusterAssumption
  <2>2. SameMarks(prd, handler[h].obj)
    BY <1>2, <2>1 DEF CopiesAgree
  <2> QED BY <2>2 DEF SameMarks
<1> QED BY <1>1, <1>2, QuietStep

-----------------------------------------------------------------------------
(* The reconciler *)

\* Between two requests of a reconcile: the copy it carries on with keeps its marks.
LEMMA CarriedCopy ==
    ASSUME CopiesAgree, rec.pc # "idle", rec.obj \in PRDs, NEW obj \in PRDs,
           obj.finalizer = rec.obj.finalizer, obj.deleting = rec.obj.deleting,
           SameMarks(prd, prd'), fresh' \subseteq fresh,
           rec' = Idle \/ rec'.obj = obj
    PROVE  rec'.pc # "idle" /\ "reconciler" \in fresh' => SameMarks(prd', rec'.obj)
BY ClusterAssumption DEF CopiesAgree, SameMarks, Idle

\* Steps of a reconcile that only write the object back, report, or wait.
LEMMA ReportingSafe ==
    ASSUME TypeOK, TypeOK', CopiesAgree, CacheClaims, RecGuarded,
           UNCHANGED handler,
           \/ RecordFailure \/ ReportBuild \/ Annotate \/ ReportPending
           \/ RecordDeploying \/ Mirror \/ ReportOutcome \/ NotifyReady \/ NotifyFailed
           \/ NothingToNotify \/ RecordNotified
    PROVE  CopiesAgree' /\ CacheClaims' /\ RecGuarded'
<1> DEFINE R == "reconciler"
           Goal == CopiesAgree' /\ CacheClaims' /\ RecGuarded'
<1> SUFFICES Goal
  OBVIOUS
<1> HIDE DEF Goal
<1>1. R \in Threads
  BY DEF Threads
<1>2. rec.pc # "idle" /\ rec.obj \in PRDs /\ (R \in fresh => SameMarks(prd, rec.obj))
  <2>1. rec.pc # "idle"
    BY DEF RecordFailure, ReportBuild, Annotate, ReportPending, RecordDeploying, Mirror,
           ReportOutcome, NotifyReady, NotifyFailed, NothingToNotify, RecordNotified, At
  <2> QED BY <2>1, RecFields DEF CopiesAgree
<1>3. ASSUME NEW p \in PRDs,
             p.finalizer = rec.obj.finalizer, p.deleting = rec.obj.deleting,
             Update(R, p) \/ UpdateStatus(R, p) \/ Rejected(R),
             SameMarks(cachedPrd, cachedPrd'), UNCHANGED app,
             rec' = Idle \/ rec'.obj = p,
             rec'.pc \notin {"create", "closing", "deleteApp", "unfinalize"}
      PROVE  Goal
  <2>1. R \in fresh => SameMarks(prd, p)
    BY <1>2, <1>3, ClusterAssumption DEF SameMarks
  <2>2. SameMarks(prd, prd') /\ fresh' \subseteq fresh
    BY <1>1, <1>3, <2>1, WriteKeepsMarks
  <2>3. rec'.pc # "idle" /\ R \in fresh' => SameMarks(prd', rec'.obj)
    BY <1>2, <1>3, <2>2, CarriedCopy
  <2> QED BY <1>3, <2>2, <2>3, QuietReconcile DEF Goal
<1>4. ASSUME NEW p \in PRDs,
             p.finalizer = rec.obj.finalizer, p.deleting = rec.obj.deleting,
             UNCHANGED <<prd, cachedPrd, fresh, app>>,
             rec' = Idle \/ rec'.obj = p,
             rec'.pc \notin {"create", "closing", "deleteApp", "unfinalize"}
      PROVE  Goal
  <2>1. SameMarks(prd, prd') /\ SameMarks(cachedPrd, cachedPrd') /\ fresh' \subseteq fresh
    BY <1>4 DEF SameMarks
  <2>2. rec'.pc # "idle" /\ R \in fresh' => SameMarks(prd', rec'.obj)
    BY <1>2, <1>4, <2>1, CarriedCopy
  <2> QED BY <1>4, <2>1, <2>2, QuietReconcile DEF Goal
<1>5. UNCHANGED cachedPrd => SameMarks(cachedPrd, cachedPrd')
  BY DEF SameMarks
<1>6. CASE RecordFailure
  <2> DEFINE p == WithStatus(rec.obj, "error", "App CR not created", None)
  <2>1. /\ p \in PRDs
        /\ p.finalizer = rec.obj.finalizer /\ p.deleting = rec.obj.deleting
    <3>1. "error" \in States /\ "App CR not created" \in Messages /\ None \in SHAs \cup {None}
      BY DEF States, Messages
    <3> QED BY ONLY <1>2, <3>1, WithStatusType
  <2>2. /\ UpdateStatus(R, p) \/ Rejected(R)
        /\ rec' = Idle \/ rec' = [pc |-> "reportBuild", obj |-> p, app |-> rec.app]
        /\ UNCHANGED <<cachedPrd, app>>
    BY <1>6 DEF RecordFailure, Continue, Go, Done
  <2> HIDE DEF p
  <2> QED BY <1>3, <1>5, <2>1, <2>2 DEF Idle
<1>7. CASE ReportBuild
  BY <1>2, <1>4, <1>7 DEF ReportBuild, Done, Idle
<1>8. CASE Annotate
  <2> DEFINE p == [rec.obj EXCEPT !.created = "true"]
  <2>1. /\ p \in PRDs
        /\ p.finalizer = rec.obj.finalizer /\ p.deleting = rec.obj.deleting
    BY <1>2, MarkedType
  <2>2. /\ Update(R, p) \/ Rejected(R)
        /\ rec' = Idle \/ rec' = [pc |-> "pend", obj |-> p, app |-> rec.app]
        /\ UNCHANGED app
    BY <1>8 DEF Annotate, Continue, Go, Fail
  <2>3. SameMarks(cachedPrd, cachedPrd')
    <3>1. CASE UNCHANGED cachedPrd
      BY <1>5, <3>1
    <3>2. CASE R \in shared /\ cachedPrd' = [cachedPrd EXCEPT !.created = "true"]
      <4>1. cachedPrd \in PRDs
        BY <3>2 DEF TypeOK, ClusterTypeOK
      <4> QED BY <3>2, <4>1, MarkedType, ClusterAssumption DEF SameMarks
    <3> QED BY <1>8, <3>1, <3>2 DEF Annotate
  <2> HIDE DEF p
  <2> QED BY <1>3, <2>1, <2>2, <2>3 DEF Idle
<1>9. CASE ReportPending
  BY <1>2, <1>4, <1>9 DEF ReportPending, Continue, Go
<1>10. CASE RecordDeploying
  <2> DEFINE p == WithStatus(rec.obj, "deploying", "App CR created", None)
  <2>1. /\ p \in PRDs
        /\ p.finalizer = rec.obj.finalizer /\ p.deleting = rec.obj.deleting
    <3>1. "deploying" \in States /\ "App CR created" \in Messages /\ None \in SHAs \cup {None}
      BY DEF States, Messages
    <3> QED BY ONLY <1>2, <3>1, WithStatusType
  <2>2. /\ UpdateStatus(R, p) \/ Rejected(R)
        /\ rec' = Idle
        /\ UNCHANGED <<cachedPrd, app>>
    BY <1>10 DEF RecordDeploying, Later, Fail
  <2> HIDE DEF p
  <2> QED BY <1>3, <1>5, <2>1, <2>2 DEF Idle
<1>11. CASE Mirror
  <2> DEFINE p == WithStatus(rec.obj, StateOf(rec.app.phase), rec.app.phase, rec.app.commit)
  <2>1. rec.app \in Apps
    BY <1>2, <1>11, RecFields DEF Mirror, At
  <2>2. /\ p \in PRDs
        /\ p.finalizer = rec.obj.finalizer /\ p.deleting = rec.obj.deleting
    BY <1>2, <2>1, StateOfType, WithStatusType DEF Apps
  <2>3. /\ UpdateStatus(R, p) \/ Rejected(R)
        /\ rec' = Idle \/ rec' = [pc |-> "notify", obj |-> p, app |-> rec.app]
        /\ UNCHANGED <<cachedPrd, app>>
    BY <1>11 DEF Mirror, Continue, Go, Fail
  <2> HIDE DEF p
  <2> QED BY <1>3, <1>5, <2>2, <2>3 DEF Idle
<1>12. CASE NotifyReady
  <2> DEFINE p == [rec.obj EXCEPT !.notifiedDeploy = TRUE, !.state = "running",
                                  !.appPhase = rec.app.phase, !.commit = rec.app.commit]
  <2>1. rec.app \in Apps
    BY <1>2, <1>12, RecFields DEF NotifyReady, At
  <2>2. /\ p \in PRDs
        /\ p.finalizer = rec.obj.finalizer /\ p.deleting = rec.obj.deleting
    BY <1>2, <2>1 DEF PRDs, Apps, States, Messages
  <2>3. /\ rec' = [pc |-> "flag", obj |-> p, app |-> rec.app]
        /\ UNCHANGED <<prd, cachedPrd, fresh, app>>
    BY <1>12 DEF NotifyReady, Continue, Go
  <2> HIDE DEF p
  <2> QED BY <1>4, <2>2, <2>3
<1>13. CASE NotifyFailed
  <2> DEFINE p == [rec.obj EXCEPT !.notifiedError = TRUE, !.state = "error",
                                  !.appPhase = rec.app.phase]
  <2>1. rec.app \in Apps
    BY <1>2, <1>13, RecFields DEF NotifyFailed, At
  <2>2. /\ p \in PRDs
        /\ p.finalizer = rec.obj.finalizer /\ p.deleting = rec.obj.deleting
    BY <1>2, <2>1 DEF PRDs, Apps, States, Messages
  <2>3. /\ rec' = [pc |-> "flag", obj |-> p, app |-> rec.app]
        /\ UNCHANGED <<prd, cachedPrd, fresh, app>>
    BY <1>13 DEF NotifyFailed, Continue, Go
  <2> HIDE DEF p
  <2> QED BY <1>4, <2>2, <2>3
<1>16. CASE ReportOutcome
  BY <1>2, <1>4, <1>16 DEF ReportOutcome, Continue, Go
<1>14. CASE NothingToNotify
  BY <1>2, <1>4, <1>14 DEF NothingToNotify, Later, Idle, clusterVars
<1>15. CASE RecordNotified
  <2>1. /\ UpdateStatus(R, rec.obj) \/ Rejected(R)
        /\ rec' = Idle
        /\ UNCHANGED <<cachedPrd, app>>
    BY <1>15 DEF RecordNotified, Later, Fail
  <2> QED BY <1>2, <1>3, <1>5, <2>1 DEF Idle
<1> QED BY <1>6, <1>7, <1>8, <1>9, <1>10, <1>11, <1>12, <1>13, <1>14, <1>15, <1>16

\* Steps of a reconcile that end at once, add the finalizer or choose a branch.
LEMMA StartingSafe ==
    ASSUME TypeOK, TypeOK', CopiesAgree, CacheClaims, RecGuarded,
           UNCHANGED handler,
           \/ ReconcileGone \/ AddFinalizer \/ ParentMissing \/ AwaitApp
           \/ StartDelete \/ StartCreate \/ StartSync
    PROVE  CopiesAgree' /\ CacheClaims' /\ RecGuarded'
<1> DEFINE R == "reconciler"
           Goal == CopiesAgree' /\ CacheClaims' /\ RecGuarded'
<1> SUFFICES Goal
  OBVIOUS
<1> HIDE DEF Goal
<1>1. R \in Threads
  BY DEF Threads
<1>2. rec.pc = "idle"
  BY DEF ReconcileGone, AddFinalizer, ParentMissing, AwaitApp, StartDelete, StartCreate,
         StartSync, Start, Dequeue, At
<1>3. CASE ReconcileGone \/ ParentMissing \/ AwaitApp
  <2>1. UNCHANGED <<rec, clusterVars>>
    BY <1>3 DEF ReconcileGone, ParentMissing, AwaitApp
  <2>2. /\ SameMarks(prd, prd') /\ SameMarks(cachedPrd, cachedPrd')
        /\ UNCHANGED <<app, fresh>> /\ rec'.pc = "idle"
    BY <1>2, <2>1 DEF clusterVars, SameMarks
  <2> QED BY <2>2, QuietReconcile DEF Goal
<1>4. CASE AddFinalizer
  <2> DEFINE p == [cachedPrd EXCEPT !.finalizer = TRUE]
  <2>1. /\ cachedPrd \in PRDs /\ ~cachedPrd.deleting /\ ~cachedPrd.finalizer
        /\ p \in PRDs /\ p.finalizer /\ ~p.deleting
    BY <1>4 DEF AddFinalizer, TypeOK, ClusterTypeOK, PRDs
  <2>2. /\ GetAndUpdate(R, p)
        /\ UNCHANGED <<rec, cachedPrd, app>>
    BY <1>4 DEF AddFinalizer, recVars
  <2> HIDE DEF p
  <2>3. CASE UNCHANGED <<prd, fresh>>
    <3>1. SameMarks(prd, prd') /\ SameMarks(cachedPrd, cachedPrd')
      BY <2>2, <2>3 DEF SameMarks
    <3> QED BY <1>2, <2>2, <2>3, <3>1, QuietReconcile DEF Goal
  \* Nothing has been claimed of the finalizer until now.
  <2>4. CASE /\ prd \in PRDs /\ "cache" \in fresh /\ prd' \in PRDs
             /\ prd'.finalizer = p.finalizer /\ prd'.deleting = p.deleting
             /\ fresh' = {R}
    <3>1. HasFinalizer(prd')
      BY <2>1, <2>4, ClusterAssumption DEF HasFinalizer
    <3>3. CopiesAgree'
      BY <1>2, <2>2, <2>4, ClusterAssumption DEF CopiesAgree
    <3>4. CacheClaims'
      BY <2>1, <2>2, <3>1 DEF CacheClaims
    <3>5. RecGuarded'
      BY <1>2, <2>2 DEF RecGuarded, TearingDown
    <3> QED BY <3>3, <3>4, <3>5 DEF Goal
  <2> QED BY <1>1, <2>1, <2>2, <2>3, <2>4, GetAndUpdateType
<1>5. ASSUME NEW pc \in RecPCs, Start(pc),
             pc = "create" => HasFinalizer(prd),
             pc = "closing" => cachedPrd.deleting,
             pc \notin {"deleteApp", "unfinalize"}
      PROVE  Goal
  <2>1. /\ cachedPrd # None /\ rec' = [pc |-> pc, obj |-> cachedPrd, app |-> cachedApp]
        /\ UNCHANGED <<prd, cachedPrd, app>>
        /\ fresh' = IF "cache" \in fresh THEN fresh \cup {R} ELSE fresh \ {R}
    BY <1>5 DEF Start, Go, ReadPRD
  <2>3. CopiesAgree'
    <3>1. "cache" \in fresh' => SameMarks(prd, cachedPrd)'
      BY <2>1 DEF CopiesAgree, SameMarks
    <3>2. R \in fresh' => SameMarks(prd', rec'.obj)
      BY <2>1 DEF CopiesAgree, SameMarks
    <3>3. \A h \in Handlers : h \in fresh' => h \in fresh
      BY <2>1, ClusterAssumption
    <3>4. ASSUME NEW h \in Handlers, handler'[h].pc \in {"deleteApp", "update"}, h \in fresh'
          PROVE  SameMarks(prd', handler'[h].obj)
      BY <2>1, <3>3, <3>4 DEF CopiesAgree
    <3> QED BY <3>1, <3>2, <3>4 DEF CopiesAgree
  <2>4. CacheClaims'
    BY <2>1 DEF CacheClaims, HasFinalizer
  <2>5. RecGuarded'
    BY <1>5, <2>1 DEF RecGuarded, TearingDown, HasFinalizer, CacheClaims, Accepted
  <2> QED BY <2>3, <2>4, <2>5 DEF Goal
<1>6. CASE StartDelete
  BY <1>5, <1>6 DEF StartDelete, RecPCs
<1>7. CASE StartCreate
  <2>1. HasFinalizer(prd) /\ Start("create")
    BY <1>7 DEF StartCreate, CacheClaims
  <2> QED BY <1>5, <2>1 DEF RecPCs
<1>8. CASE StartSync
  BY <1>5, <1>8 DEF StartSync, RecPCs
<1> QED BY <1>3, <1>4, <1>6, <1>7, <1>8

\* Steps that create or delete the App or let the PRDeployment go.
LEMMA DeployingSafe ==
    ASSUME TypeOK, TypeOK', CopiesAgree, CacheClaims, RecGuarded,
           UNCHANGED handler,
           CreateApp \/ LookupApp \/ DeleteApp \/ RemoveFinalizer
    PROVE  CopiesAgree' /\ CacheClaims' /\ RecGuarded'
<1>1. rec.pc # "idle" /\ rec.obj \in PRDs
  <2>1. rec.pc # "idle"
    BY DEF CreateApp, LookupApp, DeleteApp, RemoveFinalizer, At
  <2> QED BY <2>1, RecFields
<1>3. ASSUME UNCHANGED <<prd, cachedPrd, fresh>>,
             rec'.pc = "idle" \/ rec'.obj = rec.obj
      PROVE  CopiesAgree' /\ CacheClaims'
  BY <1>1, <1>3 DEF CopiesAgree, CacheClaims, HasFinalizer, SameMarks
<1>4. CASE CreateApp
  <2>1. HasFinalizer(prd) /\ UNCHANGED <<prd, cachedPrd, fresh>>
    BY <1>4 DEF CreateApp, At, RecGuarded
  <2>2. /\ rec'.pc \in {"idle", "annotate", "buildFailed", "createFailed"}
        /\ rec'.pc = "idle" \/ rec'.obj = rec.obj
    BY <1>4 DEF CreateApp, Continue, Go, Later, Idle
  <2>3. RecGuarded'
    BY <2>1, <2>2 DEF RecGuarded, TearingDown, HasFinalizer
  <2> QED BY <1>3, <2>1, <2>2, <2>3
<1>5. CASE LookupApp
  <2>1. /\ UNCHANGED <<prd, cachedPrd, app, cachedApp, fresh>>
        /\ rec'.obj = rec.obj /\ rec'.app = cachedApp
        /\ rec.pc = "closing"
        /\ rec'.pc = IF cachedApp = None THEN "unfinalize" ELSE "deleteApp"
    BY <1>5 DEF LookupApp, Go, At, clusterVars
  <2>2. RecGuarded'
    BY <2>1 DEF RecGuarded, TearingDown, HasFinalizer, Accepted
  <2> QED BY <1>3, <2>1, <2>2
<1>6. CASE DeleteApp
  <2>1. /\ UNCHANGED <<prd, cachedPrd, fresh>>
        /\ rec.pc = "deleteApp"
        /\ \/ /\ app' = None
              /\ rec'.pc = "unfinalize" /\ rec'.obj = rec.obj
           \/ /\ UNCHANGED app
              /\ rec'.pc = "idle"
    BY <1>6 DEF DeleteApp, SetApp, Continue, Go, Fail, Idle, At
  <2>2. RecGuarded'
    BY <2>1 DEF RecGuarded, TearingDown, HasFinalizer, Accepted
  <2> QED BY <1>3, <2>1, <2>2
\* No cached copy invites another reconcile to deploy.
<1>7. CASE RemoveFinalizer
  <2>1. /\ rec.pc = "unfinalize" /\ rec'.pc = "idle"
        /\ UNCHANGED <<cachedPrd, app>>
        /\ UNCHANGED <<prd, fresh>> \/ (prd' = None /\ fresh' = {})
    BY <1>7, RejectedType DEF RemoveFinalizer, At, Done, Fail, Idle, RecGuarded
  <2>3. CopiesAgree'
    BY <2>1 DEF CopiesAgree
  <2>4. CacheClaims'
    BY <2>1 DEF CacheClaims, HasFinalizer, RecGuarded, TearingDown
  <2>5. RecGuarded'
    BY <2>1 DEF RecGuarded, TearingDown
  <2> QED BY <2>3, <2>4, <2>5
<1> QED BY <1>4, <1>5, <1>6, <1>7

-----------------------------------------------------------------------------
(* The handlers *)

\* QuietStep for a handler: the reconciler stands still.
LEMMA QuietHandler ==
    ASSUME TypeOK, TypeOK', CopiesAgree, CacheClaims, RecGuarded,
           NEW h \in Handlers, UNCHANGED rec,
           \A g \in Handlers \ {h} : handler'[g] = handler[g],
           SameMarks(prd, prd'), SameMarks(cachedPrd, cachedPrd'),
           app = None => app' = None,
           fresh' \subseteq fresh \cup {h},
           handler'[h].pc \in {"deleteApp", "update"} /\ h \in fresh'
             => SameMarks(prd', handler'[h].obj)
    PROVE  CopiesAgree' /\ CacheClaims' /\ RecGuarded'
<1>1. "cache" \in fresh' => "cache" \in fresh
  BY ClusterAssumption
<1>2. rec'.pc # "idle" /\ "reconciler" \in fresh' => SameMarks(prd', rec'.obj)
  <2>1. "reconciler" \in fresh' => "reconciler" \in fresh
    BY ClusterAssumption
  <2> QED BY <2>1 DEF CopiesAgree, SameMarks
<1>3. ASSUME NEW g \in Handlers, handler'[g].pc \in {"deleteApp", "update"}, g \in fresh'
      PROVE  SameMarks(prd', handler'[g].obj)
  <2>1. CASE g = h
    BY <1>3, <2>1
  <2>2. CASE g # h
    BY <1>3, <2>2 DEF CopiesAgree, SameMarks
  <2> QED BY <2>1, <2>2
<1> QED BY <1>1, <1>2, <1>3, QuietStep

\* Deletion of the PRDeployment: its finalizer keeps it, or nothing of it exists.
LEMMA DeletePRDSafe ==
    ASSUME TypeOK, CopiesAgree, CacheClaims, RecGuarded,
           DeletePRD, UNCHANGED <<cachedPrd, app, rec>>,
           \A h \in Handlers : handler'[h].pc \notin {"deleteApp", "update"}
                                 \/ handler'[h] = handler[h]
    PROVE  CopiesAgree' /\ CacheClaims' /\ RecGuarded'
<1>1. prd \in PRDs \cup {None}
  BY DEF TypeOK, ClusterTypeOK
<1>2. CASE UNCHANGED <<prd, fresh>>
  <2>1. CacheClaims' /\ RecGuarded'
    BY <1>2 DEF CacheClaims, RecGuarded, TearingDown, HasFinalizer
  <2>2. CopiesAgree'
    BY <1>2 DEF CopiesAgree
  <2> QED BY <2>1, <2>2
<1>3. CASE /\ prd # None /\ prd.finalizer /\ fresh' = {}
           /\ prd' = [prd EXCEPT !.deleting = TRUE]
  <2>1. HasFinalizer(prd) /\ HasFinalizer(prd') /\ prd'.deleting
    BY <1>1, <1>3, ClusterAssumption DEF HasFinalizer, PRDs
  <2>2. CacheClaims' /\ RecGuarded'
    BY <2>1 DEF CacheClaims, RecGuarded, TearingDown
  <2>3. CopiesAgree'
    BY <1>3 DEF CopiesAgree
  <2> QED BY <2>2, <2>3
<1>4. CASE prd # None /\ ~prd.finalizer /\ fresh' = {} /\ prd' = None
  <2>1. CacheClaims' /\ RecGuarded'
    BY <1>4 DEF CacheClaims, RecGuarded, TearingDown, HasFinalizer
  <2>2. CopiesAgree'
    BY <1>4 DEF CopiesAgree
  <2> QED BY <2>1, <2>2
<1> QED BY <1>2, <1>3, <1>4 DEF DeletePRD

LEMMA HandlerSafe ==
    ASSUME TypeOK, TypeOK', CopiesAgree, CacheClaims, RecGuarded,
           NEW h \in Handlers, HandlerStep(h), UNCHANGED rec
    PROVE  CopiesAgree' /\ CacheClaims' /\ RecGuarded'
<1> DEFINE Goal == CopiesAgree' /\ CacheClaims' /\ RecGuarded'
<1> SUFFICES Goal
  OBVIOUS
<1> HIDE DEF Goal
<1>0. h \in Threads
  BY DEF Threads
<1>1. handler \in [Handlers -> [ pc : HandlerPCs, event : Events \cup {None},
                                 obj : PRDs \cup {None} ]]
  BY DEF TypeOK, HandleEventTypeOK
<1>2. ASSUME Return(h)
      PROVE  /\ handler'[h].pc = "idle"
             /\ \A g \in Handlers \ {h} : handler'[g] = handler[g]
  BY <1>1, <1>2 DEF Return, IdleHandler
<1>3. ASSUME NEW pc, NEW e, NEW obj, Proceed(h, pc, e, obj)
      PROVE  /\ handler'[h].obj = obj /\ handler'[h].pc = pc
             /\ \A g \in Handlers \ {h} : handler'[g] = handler[g]
  BY <1>1, <1>3 DEF Proceed
<1>4. /\ UNCHANGED prd => SameMarks(prd, prd')
      /\ UNCHANGED cachedPrd => SameMarks(cachedPrd, cachedPrd')
  BY DEF SameMarks
<1>5. ASSUME NEW p \in PRDs
      PROVE  SameMarks(p, ClearCreated(p))
  BY <1>5, ClearCreatedType, ClusterAssumption DEF SameMarks
<1>6. CASE CreatePRDeployment(h)
  <2>1. Return(h) /\ UNCHANGED <<cachedPrd, app>>
    BY <1>6 DEF CreatePRDeployment
  <2>2. CASE UNCHANGED <<prd, fresh>>
    BY <1>2, <1>4, <2>1, <2>2, QuietHandler DEF Goal
  \* No reconcile is past its first reads with anything but an outdated copy.
  <2>3. CASE /\ prd = None /\ fresh' = {}
             /\ prd' = NewPRD(handler[h].event.headSHA, handler[h].event.cloneURL)
    <3>1. ~HasFinalizer(prd) /\ ~HasFinalizer(prd')
      BY <2>3 DEF HasFinalizer, NewPRD
    <3>2. CacheClaims' /\ RecGuarded'
      BY <2>1, <3>1 DEF CacheClaims, RecGuarded, TearingDown
    <3>3. CopiesAgree'
      BY <2>3 DEF CopiesAgree
    <3> QED BY <3>2, <3>3 DEF Goal
  <2> QED BY <1>6, <2>2, <2>3 DEF CreatePRDeployment
<1>12. CASE EnsureNamespace(h)
  <2>1. /\ UNCHANGED <<prd, cachedPrd, app, fresh>>
        /\ Return(h) \/ Proceed(h, "create", handler[h].event, None)
    BY <1>12 DEF EnsureNamespace
  <2> QED BY <1>2, <1>3, <1>4, <2>1, QuietHandler DEF Goal
<1>7. CASE UpdateHead(h)
  <2> DEFINE p == WithEvent(cachedPrd, handler[h].event)
  <2>1. cachedPrd \in PRDs /\ handler[h].event \in Events
    BY <1>7, ServingFields DEF UpdateHead, Serving, TypeOK, ClusterTypeOK
  <2>2. p \in PRDs /\ SameMarks(cachedPrd, p)
    BY <2>1, WithEventType, ClusterAssumption DEF SameMarks
  <2>3. /\ GetAndUpdate(h, p) \/ UNCHANGED <<prd, fresh>>
        /\ Return(h) /\ UNCHANGED <<cachedPrd, app>>
    BY <1>7 DEF UpdateHead
  <2> HIDE DEF p
  <2>4. SameMarks(prd, prd') /\ fresh' \subseteq fresh \cup {h}
    BY <1>0, <1>4, <2>2, <2>3, CachedUpdateKeepsMarks
  <2> QED BY <1>2, <1>4, <2>3, <2>4, QuietHandler DEF Goal
<1>8. CASE StartReclone(h)
  <2> DEFINE p == WithEvent(cachedPrd, handler[h].event)
  <2>1. cachedPrd \in PRDs /\ handler[h].event \in Events
    BY <1>8, ServingFields DEF StartReclone, Serving, TypeOK, ClusterTypeOK
  <2>2. p \in PRDs /\ SameMarks(cachedPrd, p)
    BY <2>1, WithEventType, ClusterAssumption DEF SameMarks
  <2>3. /\ ReadPRD(h) /\ Proceed(h, "deleteApp", handler[h].event, p)
        /\ UNCHANGED <<prd, cachedPrd, app>>
    BY <1>8 DEF StartReclone
  <2> HIDE DEF p
  <2>4. fresh' \subseteq fresh \cup {h} /\ (h \in fresh' => "cache" \in fresh)
    BY <2>3 DEF ReadPRD
  <2>5. h \in fresh' => SameMarks(prd', handler'[h].obj)
    BY <1>3, <2>2, <2>3, <2>4 DEF CopiesAgree, SameMarks
  <2> QED BY <1>3, <1>4, <2>3, <2>4, <2>5, QuietHandler DEF Goal
<1>9. CASE DeleteOldApp(h)
  <2>1. /\ handler[h].obj \in PRDs /\ handler[h].pc = "deleteApp"
        /\ UNCHANGED <<prd, fresh>>
    BY <1>9, ServingFields DEF DeleteOldApp, Serving
  <2>2. CASE EmptyAnnotation(h)
    <3>1. /\ handler'[h].obj = ClearCreated(handler[h].obj)
          /\ \A g \in Handlers \ {h} : handler'[g] = handler[g]
      BY <1>3, <2>2 DEF EmptyAnnotation
    <3>2. h \in fresh' => SameMarks(prd', handler'[h].obj)
      <4>1. SameMarks(handler[h].obj, handler'[h].obj)
        BY <1>5, <2>1, <3>1
      <4> QED BY <2>1, <4>1 DEF CopiesAgree, SameMarks
    <3>3. SameMarks(cachedPrd, cachedPrd')
      <4>1. CASE h \in shared /\ cachedPrd' = ClearCreated(cachedPrd)
        <5>1. cachedPrd \in PRDs
          BY <4>1 DEF TypeOK, ClusterTypeOK
        <5> QED BY <1>5, <4>1, <5>1
      <4>2. CASE UNCHANGED cachedPrd
        BY <1>4, <4>2
      <4> QED BY <2>2, <4>1, <4>2 DEF EmptyAnnotation
    <3>4. app = None => app' = None
      BY <1>9 DEF DeleteOldApp, SetApp
    <3> QED BY <1>4, <2>1, <3>1, <3>2, <3>3, <3>4, QuietHandler DEF Goal
  <2>3. CASE Return(h) /\ UNCHANGED <<app, cachedPrd>>
    BY <1>2, <1>4, <2>1, <2>3, QuietHandler DEF Goal
  <2> QED BY <1>9, <2>2, <2>3 DEF DeleteOldApp
<1>10. CASE UpdateClone(h)
  <2>1. /\ handler[h].obj \in PRDs /\ handler[h].pc = "update"
        /\ Update(h, handler[h].obj) \/ Rejected(h)
        /\ Return(h) /\ UNCHANGED <<cachedPrd, app>>
    BY <1>10, ServingFields DEF UpdateClone, Serving
  <2>2. h \in fresh => SameMarks(prd, handler[h].obj)
    BY <2>1 DEF CopiesAgree
  <2>3. SameMarks(prd, prd') /\ fresh' \subseteq fresh
    BY <1>0, <2>1, <2>2, WriteKeepsMarks
  <2> QED BY <1>2, <1>4, <2>1, <2>3, QuietHandler DEF Goal
<1>11. CASE DeletePRDeployment(h)
  <2>1. Return(h) /\ UNCHANGED <<cachedPrd, app>>
    BY <1>11 DEF DeletePRDeployment
  <2>2. CASE DeletePRD
    <3>1. \A g \in Handlers : handler'[g].pc \notin {"deleteApp", "update"}
                                \/ handler'[g] = handler[g]
      BY <1>2, <2>1
    <3> QED BY <2>1, <2>2, <3>1, DeletePRDSafe DEF Goal
  <2>3. CASE UNCHANGED <<prd, fresh>>
    BY <1>2, <1>4, <2>1, <2>3, QuietHandler DEF Goal
  <2> QED BY <1>11, <2>2, <2>3 DEF DeletePRDeployment
<1> QED BY <1>6, <1>7, <1>8, <1>9, <1>10, <1>11, <1>12 DEF HandlerStep

-----------------------------------------------------------------------------
(* The whole machine *)

LEMMA InitSafe == Init => GuardInvariant
<1> SUFFICES ASSUME Init PROVE GuardInvariant
  OBVIOUS
<1>1. /\ prd = None /\ cachedPrd = None /\ app = None /\ cachedApp = None
      /\ rec.pc = "idle" /\ \A h \in Handlers : handler[h].pc = "idle"
  BY DEF Init, ClusterInit, PRDeploymentInit, HandleEventInit, Idle, IdleHandler
<1>2. CopiesAgree /\ CacheClaims /\ RecGuarded
  BY <1>1 DEF CopiesAgree, CacheClaims, RecGuarded, TearingDown,
              SameMarks, HasFinalizer
<1> QED BY <1>2, InitType DEF GuardInvariant

LEMMA NextSafe ==
    ASSUME GuardInvariant, [Next]_vars
    PROVE  GuardInvariant'
<1> DEFINE Goal == CopiesAgree' /\ CacheClaims' /\ RecGuarded'
<1>1. TypeOK /\ CopiesAgree /\ CacheClaims /\ RecGuarded /\ TypeOK'
  BY NextType DEF GuardInvariant
<1> SUFFICES Goal
  BY <1>1 DEF GuardInvariant
<1> HIDE DEF Goal
<1>2. ASSUME UNCHANGED <<prd, cachedPrd, fresh, rec>>, app = None => app' = None,
             \A h \in Handlers : handler'[h].pc \notin {"deleteApp", "update"}
                                   \/ handler'[h] = handler[h]
      PROVE  Goal
  <2>1. SameMarks(prd, prd') /\ SameMarks(cachedPrd, cachedPrd')
    BY <1>2 DEF SameMarks
  <2>2. /\ rec'.pc # "idle" /\ "reconciler" \in fresh' => SameMarks(prd', rec'.obj)
        /\ \A h \in Handlers :
             handler'[h].pc \in {"deleteApp", "update"} /\ h \in fresh'
               => SameMarks(prd', handler'[h].obj)
    BY <1>1, <1>2 DEF CopiesAgree, SameMarks
  <2> QED BY <1>1, <1>2, <2>1, <2>2, QuietStep DEF Goal
<1>3. UNCHANGED handler => \A h \in Handlers : handler'[h] = handler[h]
  OBVIOUS
\* kube-deploy changes an App that is there.
<1>4. CASE \/ OutsideMove \/ AppAdvances \/ Rebuild \/ RemoveGitRepo \/ Requeue
           \/ UNCHANGED vars
  <2>1. /\ UNCHANGED <<prd, cachedPrd, fresh, rec, handler>>
        /\ app = None => app' = None
    BY <1>4 DEF OutsideMove, AppAdvances, Rebuild, RemoveGitRepo, Requeue, TimerFires, vars,
                clusterVars, prdeploymentVars, recVars
  <2> QED BY <1>2, <1>3, <2>1
<1>6. CASE GarbageCollect
  <2>1. DeletePRD /\ UNCHANGED <<cachedPrd, app, rec, handler>>
    BY <1>6 DEF GarbageCollect, prdeploymentVars, recVars
  <2> QED BY <1>1, <1>3, <2>1, DeletePRDSafe DEF Goal
<1>7. CASE Deliver
  <2>1. UNCHANGED <<prd, cachedPrd, app, cachedApp, fresh, rec>>
    BY <1>7 DEF Deliver, prdeploymentVars, recVars
  <2>2. ASSUME NEW e \in inbox, NEW g \in Handlers, Receive(g, e), NEW h \in Handlers
        PROVE  \/ handler'[h].pc \notin {"deleteApp", "update"}
               \/ handler'[h] = handler[h]
    <3>1. e \in Events
      BY <1>1 DEF TypeOK
    <3>2. Route(e) \in {"idle", "delete", "fetch", "upsert"}
      BY <3>1 DEF Route, Events, Actions
    <3> QED BY <1>1, <2>2, <3>2
            DEF Receive, Return, Proceed, IdleHandler, TypeOK, HandleEventTypeOK
  <2>3. \/ UNCHANGED handler
        \/ \E e \in inbox, h \in Handlers : Receive(h, e)
    BY <1>7 DEF Deliver
  <2> QED BY <1>2, <1>3, <2>1, <2>2, <2>3
<1>8. ASSUME NEW h \in Handlers, Handle(h)
      PROVE  Goal
  <2>1. UNCHANGED rec
    BY <1>8 DEF Handle, prdeploymentVars, recVars
  <2>2. CASE HandlerStep(h)
    BY <1>1, <2>1, <2>2, HandlerSafe DEF Goal
  <2>3. CASE FetchHead(h, pull.headSHA, pull.cloneURL)
    <3>1. UNCHANGED <<prd, cachedPrd, app, cachedApp, fresh>>
      BY <2>3 DEF FetchHead
    <3>2. \A g \in Handlers : handler'[g].pc \notin {"deleteApp", "update"}
                                \/ handler'[g] = handler[g]
      BY <1>1, <2>3
         DEF FetchHead, Return, Proceed, IdleHandler, TypeOK, HandleEventTypeOK
    <3> QED BY <1>2, <2>1, <3>1, <3>2
  <2> QED BY <1>8, <2>2, <2>3 DEF Handle
<1>9. CASE Reconcile
  <2>1. UNCHANGED handler /\ ReconcileStep
    BY <1>9 DEF Reconcile
  <2> QED BY <1>1, <2>1, StartingSafe, DeployingSafe, ReportingSafe
          DEF ReconcileStep, Goal
\* The cache takes over what the server has; a reconcile that tears down reads it
\* no more hopeful than before.
<1>10. CASE Observe
  <2>1. CASE ObservePRD
    <3>1. /\ cachedPrd' = prd /\ fresh' = fresh \cup {"cache"}
          /\ UNCHANGED <<prd, app, rec, handler>>
      BY <1>10, <2>1 DEF Observe, ObservePRD, SyncPRD
    <3>3. CopiesAgree'
      BY <1>1, <3>1, ClusterAssumption DEF CopiesAgree, SameMarks
    <3>4. CacheClaims'
      BY <3>1 DEF CacheClaims, HasFinalizer, Accepted
    <3>5. RecGuarded'
      BY <1>1, <3>1 DEF RecGuarded, TearingDown, HasFinalizer, Accepted
    <3> QED BY <3>3, <3>4, <3>5 DEF Goal
  <2>2. CASE ObserveApp
    <3>1. UNCHANGED <<prd, cachedPrd, app, fresh, rec, handler>>
      BY <1>10, <2>2 DEF Observe, ObserveApp, SyncApp, prdeploymentVars, recVars
    <3> QED BY <1>2, <1>3, <3>1
  <2> QED BY <1>10, <2>1, <2>2 DEF Observe
<1>11. CASE Restart
  <2>1. /\ cachedPrd' = prd /\ UNCHANGED <<prd, app>>
        /\ fresh' = {"cache"} /\ rec' = Idle
        /\ \A h \in Handlers : handler'[h].pc = "idle"
    BY <1>11 DEF Restart, IdleHandler
  <2>3. CopiesAgree'
    BY <2>1, ClusterAssumption DEF CopiesAgree, SameMarks, Idle
  <2>4. CacheClaims'
    BY <2>1 DEF CacheClaims, HasFinalizer, Accepted
  <2>5. RecGuarded'
    BY <2>1 DEF RecGuarded, TearingDown, Idle
  <2> QED BY <2>3, <2>4, <2>5 DEF Goal
<1> QED BY <1>4, <1>6, <1>7, <1>8, <1>9, <1>10, <1>11 DEF Next

-----------------------------------------------------------------------------
(* What one step can do to the marks of the PRDeployment and to the App *)

\* The marks stay, and an App is created for a finalizer only; or the App stays, and a
\* PRDeployment is created, gets its finalizer, is marked as terminating, or goes: with
\* no App left, with one that had lost its guard before, or with one overlooked.
MarkStep ==
    \/ SameMarks(prd, prd') /\ (app = None /\ app' # None => HasFinalizer(prd))
    \/ /\ UNCHANGED app
       /\ \/ prd = None /\ prd' # None /\ ~prd'.deleting
          \/ prd # None /\ prd' # None /\ prd'.finalizer /\ prd'.deleting = prd.deleting
          \/ prd # None /\ prd' # None /\ ~prd.deleting /\ prd'.deleting
               /\ prd'.finalizer = prd.finalizer
          \/ prd # None /\ prd' = None /\ (app = None \/ Orphaned \/ Overlooked)

LEMMA QuietMarks ==
    ASSUME UNCHANGED <<prd, app>>
    PROVE  MarkStep
BY DEF MarkStep, SameMarks

LEMMA DeleteMarks ==
    ASSUME GuardInvariant, DeletePRD, UNCHANGED app
    PROVE  MarkStep
<1>1. CASE UNCHANGED <<prd, fresh>>
  BY <1>1, QuietMarks
<1>2. CASE prd # None /\ ~prd.deleting /\ prd.finalizer /\ prd' = [prd EXCEPT !.deleting = TRUE]
  <2>1. prd \in PRDs
    BY <1>2 DEF GuardInvariant, TypeOK, ClusterTypeOK
  <2>2. prd' \in PRDs /\ prd'.deleting /\ prd'.finalizer = prd.finalizer
    BY <1>2, <2>1 DEF PRDs
  <2> QED BY <1>2, <2>2, ClusterAssumption DEF MarkStep
<1>3. CASE prd # None /\ ~prd.finalizer /\ prd' = None
  BY <1>3 DEF HasFinalizer, Orphaned, MarkStep
<1> QED BY <1>1, <1>2, <1>3 DEF DeletePRD

\* Every write of a reconcile goes on from a copy that has the marks it writes over.
LEMMA ReconcileMarks ==
    ASSUME GuardInvariant, ReconcileStep
    PROVE  MarkStep
<1> DEFINE R == "reconciler"
<1>1. R \in Threads /\ TypeOK /\ CopiesAgree /\ CacheClaims /\ RecGuarded
  BY DEF Threads, GuardInvariant
<1>2. rec.pc # "idle" => rec.obj \in PRDs /\ (R \in fresh => SameMarks(prd, rec.obj))
  BY <1>1, RecFields DEF CopiesAgree
<1>3. ASSUME rec.pc # "idle", UNCHANGED app, NEW p \in PRDs,
             p.finalizer = rec.obj.finalizer, p.deleting = rec.obj.deleting,
             Update(R, p) \/ UpdateStatus(R, p) \/ Rejected(R)
      PROVE  MarkStep
  <2>1. R \in fresh => SameMarks(prd, p)
    BY <1>2, <1>3, ClusterAssumption DEF SameMarks
  <2>2. SameMarks(prd, prd')
    BY <1>1, <1>3, <2>1, WriteKeepsMarks
  <2> QED BY <1>3, <2>2 DEF MarkStep
<1>4. CASE \/ ReconcileGone \/ ParentMissing \/ AwaitApp \/ StartDelete \/ StartCreate \/ StartSync
           \/ ReportBuild \/ ReportPending \/ ReportOutcome \/ NotifyReady \/ NotifyFailed
           \/ NothingToNotify \/ LookupApp
  BY <1>4, QuietMarks DEF ReconcileGone, ParentMissing, AwaitApp, StartDelete, StartCreate,
     StartSync, Start, ReportBuild, ReportPending, ReportOutcome, NotifyReady, NotifyFailed,
     NothingToNotify, LookupApp, clusterVars
<1>5. CASE AddFinalizer
  <2> DEFINE p == [cachedPrd EXCEPT !.finalizer = TRUE]
  <2>1. /\ cachedPrd \in PRDs /\ ~cachedPrd.deleting
        /\ p \in PRDs /\ p.finalizer /\ p.deleting = cachedPrd.deleting
    BY <1>1, <1>5 DEF AddFinalizer, TypeOK, ClusterTypeOK, PRDs
  <2>2. GetAndUpdate(R, p) /\ UNCHANGED app
    BY <1>5 DEF AddFinalizer
  <2> HIDE DEF p
  <2>3. CASE UNCHANGED <<prd, fresh>>
    BY <2>2, <2>3, QuietMarks
  <2>4. CASE /\ prd \in PRDs /\ "cache" \in fresh /\ prd' \in PRDs
             /\ prd'.finalizer = p.finalizer /\ prd'.deleting = p.deleting
    <3>1. prd.deleting = cachedPrd.deleting
      BY <1>1, <2>4, ClusterAssumption DEF CopiesAgree, SameMarks
    <3> QED BY <2>1, <2>2, <2>4, <3>1, ClusterAssumption DEF MarkStep
  <2> QED BY <1>1, <2>1, <2>2, <2>3, <2>4, GetAndUpdateType
<1>6. CASE CreateApp \/ DeleteApp
  <2>1. /\ UNCHANGED prd
        /\ CreateApp => HasFinalizer(prd)
        /\ DeleteApp => app' \in {app, None}
    BY <1>1, <1>6 DEF CreateApp, DeleteApp, SetApp, At, RecGuarded
  <2> QED BY <1>6, <2>1 DEF MarkStep, SameMarks
<1>7. CASE RemoveFinalizer
  <2>1. (app = None \/ Overlooked) /\ UNCHANGED app
    BY <1>1, <1>7 DEF RemoveFinalizer, At, RecGuarded, Overlooked
  <2>2. CASE Current(R) /\ prd' = None
    BY <2>1, <2>2 DEF Current, MarkStep
  <2>3. CASE Rejected(R)
    BY <2>1, <2>3, QuietMarks DEF Rejected
  <2> QED BY <1>7, <2>2, <2>3 DEF RemoveFinalizer
<1>8. CASE RecordFailure
  <2> DEFINE p == WithStatus(rec.obj, "error", "App CR not created", None)
  <2>1. rec.pc # "idle" /\ UNCHANGED app /\ (UpdateStatus(R, p) \/ Rejected(R))
    BY <1>8 DEF RecordFailure, At
  <2>2. p \in PRDs /\ p.finalizer = rec.obj.finalizer /\ p.deleting = rec.obj.deleting
    <3>1. "error" \in States /\ "App CR not created" \in Messages /\ None \in SHAs \cup {None}
      BY DEF States, Messages
    <3> QED BY <1>2, <2>1, <3>1, WithStatusType
  <2> QED BY <1>3, <2>1, <2>2
<1>9. CASE RecordDeploying
  <2> DEFINE p == WithStatus(rec.obj, "deploying", "App CR created", None)
  <2>1. rec.pc # "idle" /\ UNCHANGED app /\ (UpdateStatus(R, p) \/ Rejected(R))
    BY <1>9 DEF RecordDeploying, At
  <2>2. p \in PRDs /\ p.finalizer = rec.obj.finalizer /\ p.deleting = rec.obj.deleting
    <3>1. "deploying" \in States /\ "App CR created" \in Messages /\ None \in SHAs \cup {None}
      BY DEF States, Messages
    <3> QED BY <1>2, <2>1, <3>1, WithStatusType
  <2> QED BY <1>3, <2>1, <2>2
<1>10. CASE Annotate
  <2> DEFINE p == [rec.obj EXCEPT !.created = "true"]
  <2>1. rec.pc # "idle" /\ UNCHANGED app /\ (Update(R, p) \/ Rejected(R))
    BY <1>10 DEF Annotate, At
  <2>2. p \in PRDs /\ p.finalizer = rec.obj.finalizer /\ p.deleting = rec.obj.deleting
    BY <1>2, <2>1, MarkedType
  <2> QED BY <1>3, <2>1, <2>2
<1>11. CASE Mirror
  <2> DEFINE p == WithStatus(rec.obj, StateOf(rec.app.phase), rec.app.phase, rec.app.commit)
  <2>1. rec.pc # "idle" /\ UNCHANGED app /\ (UpdateStatus(R, p) \/ Rejected(R))
    BY <1>11 DEF Mirror, At
  <2>2. rec.app \in Apps
    BY <1>1, <1>11, <2>1, RecFields DEF Mirror, At
  <2>3. p \in PRDs /\ p.finalizer = rec.obj.finalizer /\ p.deleting = rec.obj.deleting
    BY <1>2, <2>1, <2>2, StateOfType, WithStatusType DEF Apps
  <2> QED BY <1>3, <2>1, <2>3
<1>12. CASE RecordNotified
  BY <1>2, <1>3, <1>12 DEF RecordNotified, At
<1> QED BY <1>4, <1>5, <1>6, <1>7, <1>8, <1>9, <1>10, <1>11, <1>12 DEF ReconcileStep

LEMMA HandlerMarks ==
    ASSUME GuardInvariant, NEW h \in Handlers, HandlerStep(h)
    PROVE  MarkStep
<1>1. h \in Threads /\ TypeOK /\ CopiesAgree
  BY DEF Threads, GuardInvariant
<1>2. CASE CreatePRDeployment(h)
  <2>1. UNCHANGED app
    BY <1>2 DEF CreatePRDeployment
  <2>2. CASE UNCHANGED <<prd, fresh>>
    BY <2>1, <2>2, QuietMarks
  <2>3. CASE prd = None /\ prd' = NewPRD(handler[h].event.headSHA, handler[h].event.cloneURL)
    <3>1. prd' \in PRDs /\ ~prd'.deleting
      <4>1. handler[h].event.headSHA \in SHAs /\ handler[h].event.cloneURL \in Clones \cup {None}
        BY <1>1, <1>2, ServingFields DEF CreatePRDeployment, Serving, Events
      <4> QED BY <2>3, <4>1, NewPRDType DEF NewPRD
    <3> QED BY <2>1, <2>3, <3>1, ClusterAssumption DEF MarkStep
  <2> QED BY <1>2, <2>2, <2>3 DEF CreatePRDeployment
<1>8. CASE EnsureNamespace(h)
  BY <1>8, QuietMarks DEF EnsureNamespace
<1>3. CASE UpdateHead(h)
  <2> DEFINE p == WithEvent(cachedPrd, handler[h].event)
  <2>1. cachedPrd \in PRDs /\ handler[h].event \in Events
    BY <1>1, <1>3, ServingFields DEF UpdateHead, Serving, TypeOK, ClusterTypeOK
  <2>2. p \in PRDs /\ SameMarks(cachedPrd, p)
    BY <2>1, WithEventType, ClusterAssumption DEF SameMarks
  <2>3. (GetAndUpdate(h, p) \/ UNCHANGED <<prd, fresh>>) /\ UNCHANGED app
    BY <1>3 DEF UpdateHead
  <2> HIDE DEF p
  <2>4. SameMarks(prd, prd')
    BY <1>1, <2>2, <2>3, CachedUpdateKeepsMarks DEF SameMarks
  <2> QED BY <2>3, <2>4 DEF MarkStep
<1>4. CASE StartReclone(h)
  BY <1>4, QuietMarks DEF StartReclone
<1>5. CASE DeleteOldApp(h)
  <2>1. UNCHANGED prd /\ app' \in {app, None}
    BY <1>5 DEF DeleteOldApp, SetApp
  <2> QED BY <2>1 DEF MarkStep, SameMarks
<1>6. CASE UpdateClone(h)
  <2>1. /\ handler[h].obj \in PRDs /\ handler[h].pc = "update"
        /\ Update(h, handler[h].obj) \/ Rejected(h)
        /\ UNCHANGED app
    BY <1>1, <1>6, ServingFields DEF UpdateClone, Serving
  <2>2. SameMarks(prd, prd')
    BY <1>1, <2>1, WriteKeepsMarks DEF CopiesAgree
  <2> QED BY <2>1, <2>2 DEF MarkStep
<1>7. CASE DeletePRDeployment(h)
  BY <1>7, DeleteMarks, QuietMarks DEF DeletePRDeployment
<1> QED BY <1>2, <1>3, <1>4, <1>5, <1>6, <1>7, <1>8 DEF HandlerStep

LEMMA NextMarks ==
    ASSUME GuardInvariant, [Next]_vars
    PROVE  MarkStep
<1>1. CASE \/ OutsideMove \/ RemoveGitRepo \/ Requeue \/ Deliver \/ Observe \/ Restart
           \/ UNCHANGED vars
  BY <1>1, QuietMarks
     DEF OutsideMove, RemoveGitRepo, Requeue, TimerFires, Deliver, Observe, ObservePRD,
         SyncPRD, ObserveApp, SyncApp, Restart, vars, clusterVars
\* kube-deploy changes an App that is there.
<1>2. CASE AppAdvances \/ Rebuild
  <2>1. app # None /\ UNCHANGED prd
    BY <1>2 DEF AppAdvances, Rebuild
  <2> QED BY <2>1 DEF MarkStep, SameMarks
<1>3. CASE GarbageCollect
  BY <1>3, DeleteMarks DEF GarbageCollect
<1>4. ASSUME NEW h \in Handlers, Handle(h)
      PROVE  MarkStep
  BY <1>4, HandlerMarks, QuietMarks DEF Handle, FetchHead
<1>5. CASE Reconcile
  BY <1>5, ReconcileMarks DEF Reconcile
<1> QED BY <1>1, <1>2, <1>3, <1>4, <1>5 DEF Next

-----------------------------------------------------------------------------
(* The theorems *)

\* However creations, deletions, reclones, crashes and refused requests interleave, an
\* App loses the finalizer that takes it down in one way only: in the last Update of a
\* deletion that had looked for the App in a cache not showing it yet.
THEOREM NoOrphan == Spec => OrphanedByLookup
<1>1. ASSUME GuardInvariant, [Next]_vars
      PROVE  Orphaned' => Orphaned \/ Overlooked
  <2>1. MarkStep
    BY <1>1, NextMarks
  <2> QED BY <2>1 DEF MarkStep, SameMarks, Orphaned, HasFinalizer
<1>2. GuardInvariant /\ [Next]_vars => GuardInvariant'
  BY NextSafe
<1>3. GuardInvariant /\ [Next]_vars => [Orphaned' => Orphaned \/ Overlooked]_vars
  BY <1>1
<1> QED BY InitSafe, <1>2, <1>3, PTL DEF Spec, OrphanedByLookup

\* Caches, queues, retries, crashes and conflicts are steps of a preview's life or
\* invisible in it: no step brings a terminating preview back, deploys what nobody
\* requested, or forgets a preview that has an App, but the end of one overlooked.
THEOREM ImplementsLifecycle == Spec => LifecycleButOverlooked
<1> DEFINE LifeStep == [Lifecycle!Next]_(Lifecycle!lifecycleVars)
           Lost == (Orphaned \/ Overlooked) /\ prd' = None /\ UNCHANGED app
<1>1. Init => Lifecycle!Init
  BY DEF Init, ClusterInit, Lifecycle!Init
<1>2. ASSUME GuardInvariant, [Next]_vars
      PROVE  LifeStep \/ Lost
  <2>1. MarkStep
    BY <1>2, NextMarks
  <2> QED
    BY <2>1 DEF MarkStep, SameMarks, HasFinalizer, Lifecycle!Next, Lifecycle!Request,
       Lifecycle!Deploy, Lifecycle!Undeploy, Lifecycle!Terminate, Lifecycle!Finish,
       Lifecycle!lifecycleVars
<1>3. GuardInvariant /\ [Next]_vars => GuardInvariant'
  BY NextSafe
<1>4. GuardInvariant /\ [Next]_vars => [ LifeStep \/ Lost ]_vars
  BY <1>2
<1> QED BY <1>1, <1>3, <1>4, InitSafe, PTL DEF Spec, LifecycleButOverlooked
=============================================================================
