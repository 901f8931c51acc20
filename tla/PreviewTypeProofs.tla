-------------------------- MODULE PreviewTypeProofs --------------------------
(***************************************************************************)
(* Type correctness of Preview, for every set of handlers, commits and     *)
(* clone URLs and every number of moves and failures.                      *)
(***************************************************************************)
EXTENDS PreviewProperties, TLAPS

(* Records *)

LEMMA WithStatusOfType ==
    ASSUME NEW p \in PRDs, NEW q \in PRDs
    PROVE  /\ WithStatusOf(p, q) \in PRDs
           /\ WithStatusOf(p, q).finalizer = p.finalizer
           /\ WithStatusOf(p, q).deleting = p.deleting
BY DEF WithStatusOf, PRDs

LEMMA WithStatusType ==
    ASSUME NEW p \in PRDs, NEW s \in States, NEW m \in Messages,
           NEW c \in SHAs \cup {None}
    PROVE  /\ WithStatus(p, s, m, c) \in PRDs
           /\ WithStatus(p, s, m, c).finalizer = p.finalizer
           /\ WithStatus(p, s, m, c).deleting = p.deleting
BY DEF WithStatus, PRDs

LEMMA SerialisedType ==
    ASSUME NEW p \in PRDs
    PROVE  /\ Serialised(p) \in PRDs
           /\ Serialised(p).finalizer = p.finalizer
           /\ Serialised(p).deleting = p.deleting
BY DEF Serialised, PRDs

LEMMA ClearCreatedType ==
    ASSUME NEW p \in PRDs
    PROVE  /\ ClearCreated(p) \in PRDs
           /\ ClearCreated(p).finalizer = p.finalizer
           /\ ClearCreated(p).deleting = p.deleting
BY DEF ClearCreated, PRDs

LEMMA MarkedType ==
    ASSUME NEW p \in PRDs
    PROVE  LET q == [p EXCEPT !.created = "true"]
           IN  /\ q \in PRDs /\ q.finalizer = p.finalizer /\ q.deleting = p.deleting
BY DEF PRDs

LEMMA WithEventType ==
    ASSUME NEW p \in PRDs, NEW e \in Events
    PROVE  /\ WithEvent(p, e) \in PRDs
           /\ WithEvent(p, e).finalizer = p.finalizer
           /\ WithEvent(p, e).deleting = p.deleting
BY DEF WithEvent, PRDs, Events

LEMMA NewPRDType ==
    ASSUME NEW sha \in SHAs, NEW clone \in Clones \cup {None}
    PROVE  /\ NewPRD(sha, clone) \in PRDs
           /\ ~NewPRD(sha, clone).finalizer
BY DEF NewPRD, PRDs, States, Messages, Phases

LEMMA BuildAppType ==
    ASSUME NEW p \in PRDs
    PROVE  BuildApp(p) \in Apps
BY ClusterAssumption DEF BuildApp, Apps, PRDs, Phases

LEMMA StateOfType ==
    ASSUME NEW phase \in Phases
    PROVE  StateOf(phase) \in States /\ phase \in Messages
BY DEF StateOf, States, Messages, Phases

-----------------------------------------------------------------------------
(* Writes *)

LEMMA FaultType ==
    ASSUME TypeOK, NEW kind, Fault(kind) \/ NoFault
    PROVE  faults' \in 0..MaxFaults
BY ClusterAssumption DEF TypeOK, ClusterTypeOK, Fault, NoFault

LEMMA StoreType ==
    ASSUME NEW p \in PRDs, NEW w \in Threads, Store(w, p)
    PROVE  /\ prd' \in PRDs
           /\ prd'.finalizer = p.finalizer /\ prd'.deleting = p.deleting
           /\ fresh' \subseteq Threads \cup {"cache"}
BY SerialisedType DEF Store

LEMMA UpdateType ==
    ASSUME TypeOK, NEW w \in Threads, NEW p \in PRDs, Update(w, p)
    PROVE  /\ prd \in PRDs /\ prd' \in PRDs
           /\ prd'.finalizer = p.finalizer /\ prd'.deleting = p.deleting
           /\ fresh' \subseteq Threads \cup {"cache"}
           /\ faults' = faults
<1>1. prd \in PRDs /\ faults' = faults
  BY DEF TypeOK, ClusterTypeOK, Update, Current, NoFault
<1>2. Store(w, WithStatusOf(p, prd))
  BY DEF Update
<1> QED BY <1>1, <1>2, WithStatusOfType, StoreType

LEMMA UpdateStatusType ==
    ASSUME TypeOK, NEW w \in Threads, NEW p \in PRDs, UpdateStatus(w, p)
    PROVE  /\ prd \in PRDs /\ prd' \in PRDs
           /\ prd'.finalizer = prd.finalizer /\ prd'.deleting = prd.deleting
           /\ fresh' \subseteq Threads \cup {"cache"}
           /\ faults' = faults
<1>1. prd \in PRDs /\ faults' = faults /\ fresh \subseteq Threads \cup {"cache"}
  BY DEF TypeOK, ClusterTypeOK, UpdateStatus, Current, NoFault
<1>2. Store(w, WithStatusOf(prd, p)) \/ UNCHANGED <<prd, fresh>>
  BY DEF UpdateStatus
<1> QED BY <1>1, <1>2, WithStatusOfType, StoreType

LEMMA RejectedType ==
    ASSUME TypeOK, NEW w, Rejected(w)
    PROVE  UNCHANGED <<prd, fresh>> /\ faults' \in 0..MaxFaults
BY FaultType DEF Rejected

LEMMA GetAndUpdateType ==
    ASSUME TypeOK, NEW w \in Threads, NEW p \in PRDs, GetAndUpdate(w, p)
    PROVE  /\ \/ /\ prd \in PRDs /\ "cache" \in fresh /\ prd' \in PRDs
                 /\ prd'.finalizer = p.finalizer /\ prd'.deleting = p.deleting
                 /\ fresh' = {w}
              \/ UNCHANGED <<prd, fresh>>
           /\ faults' \in 0..MaxFaults
<1>1. CASE Current("cache") /\ NoFault /\ Store(w, WithStatusOf(p, prd))
  <2>1. prd \in PRDs /\ faults' \in 0..MaxFaults
    BY <1>1 DEF TypeOK, ClusterTypeOK, Current, NoFault
  <2> QED BY <1>1, <2>1, WithStatusOfType, StoreType DEF Current, Store
<1>2. CASE Rejected("cache")
  BY <1>2, RejectedType
<1> QED BY <1>1, <1>2 DEF GetAndUpdate

LEMMA DeletePRDType ==
    ASSUME TypeOK, DeletePRD
    PROVE  /\ prd' \in PRDs \cup {None}
           /\ fresh' \subseteq Threads \cup {"cache"}
BY DEF TypeOK, ClusterTypeOK, DeletePRD, PRDs

LEMMA SetAppType ==
    ASSUME TypeOK, NEW a \in Apps \cup {None}, SetApp(a)
    PROVE  app' \in Apps \cup {None} /\ cachedApp' \in Apps \cup {None}
BY DEF TypeOK, ClusterTypeOK, SetApp

-----------------------------------------------------------------------------
(* The reconciler *)

LEMMA IdleType ==
    ASSUME rec' = Idle
    PROVE  RecTypeOK'
BY DEF RecTypeOK, Idle, RecPCs

LEMMA GoType ==
    ASSUME NEW pc \in RecPCs, NEW obj \in PRDs, NEW a \in Apps \cup {None},
           pc \in {"mirror", "notify", "comment", "flag"} => a # None,
           rec' = [pc |-> pc, obj |-> obj, app |-> a]
    PROVE  RecTypeOK'
BY ClusterAssumption DEF RecTypeOK

LEMMA RecFields ==
    ASSUME TypeOK, rec.pc # "idle"
    PROVE  /\ rec.obj \in PRDs /\ rec.app \in Apps \cup {None}
           /\ rec.pc \in {"mirror", "notify", "comment", "flag"} => rec.app \in Apps
BY DEF TypeOK, PRDeploymentTypeOK, RecTypeOK

LEMMA ReconcileType ==
    ASSUME TypeOK, ReconcileStep
    PROVE  ClusterTypeOK' /\ PRDeploymentTypeOK'
<1> USE DEF TypeOK, ClusterTypeOK, PRDeploymentTypeOK, clusterVars, recVars, reportVars
<1> DEFINE R == "reconciler"
<1>0. R \in Threads
  BY DEF Threads
<1>1. CASE ReconcileGone
  BY <1>1 DEF ReconcileGone, Dequeue, RecTypeOK
<1>2. CASE AddFinalizer
  <2>1. cachedPrd \in PRDs
    BY <1>2 DEF AddFinalizer
  <2>2. [cachedPrd EXCEPT !.finalizer = TRUE] \in PRDs
    BY <2>1 DEF PRDs
  <2>3. /\ prd' \in PRDs \cup {None} /\ fresh' \subseteq Threads \cup {"cache"}
        /\ faults' \in 0..MaxFaults
    BY <1>0, <1>2, <2>2, GetAndUpdateType DEF AddFinalizer
  <2> QED BY <1>2, <2>3 DEF AddFinalizer, RecTypeOK
<1>3. CASE ParentMissing
  BY <1>3 DEF ParentMissing, Dequeue, RecTypeOK
<1>4. CASE AwaitApp
  BY <1>4 DEF AwaitApp, Dequeue, RecTypeOK
<1>5. ASSUME NEW pc \in {"closing", "create"}, Start(pc)
      PROVE  ClusterTypeOK' /\ PRDeploymentTypeOK'
  BY <1>0, <1>5, GoType DEF Start, Dequeue, ReadPRD, Go, RecPCs
<1>6. ASSUME NEW pc \in {"mirror", "notify"}, Start(pc), cachedApp # None
      PROVE  ClusterTypeOK' /\ PRDeploymentTypeOK'
  BY <1>0, <1>6, GoType DEF Start, Dequeue, ReadPRD, Go, RecPCs
<1>7. CASE StartDelete
  BY <1>5, <1>7 DEF StartDelete
<1>8. CASE StartCreate
  BY <1>5, <1>8 DEF StartCreate
<1>9. CASE StartSync
  BY <1>6, <1>9 DEF StartSync
<1>10. CASE CreateApp
  <2>1. rec.obj \in PRDs /\ BuildApp(rec.obj) \in Apps
    BY <1>10, BuildAppType, RecFields DEF CreateApp, At
  <2>2. /\ app' \in Apps \cup {None} /\ cachedApp' \in Apps \cup {None}
        /\ faults' \in 0..MaxFaults
    BY <1>10, <2>1, SetAppType, FaultType DEF CreateApp
  <2>3. RecTypeOK'
    BY <1>10, <2>1, RecFields, IdleType, GoType
       DEF CreateApp, At, Continue, Go, Later, RecPCs
  <2> QED BY <1>10, <2>2, <2>3 DEF CreateApp, Continue, Later
<1>11. CASE RecordFailure
  <2> DEFINE p == WithStatus(rec.obj, "error", "App CR not created", None)
  <2>1. rec.obj \in PRDs /\ rec.pc \in {"createFailed", "buildFailed"}
    BY <1>11, RecFields DEF RecordFailure, At
  <2>2. p \in PRDs
    BY <2>1, WithStatusType DEF States, Messages
  <2>3. /\ prd' \in PRDs \cup {None} /\ fresh' \subseteq Threads \cup {"cache"}
        /\ faults' \in 0..MaxFaults
    BY <1>0, <1>11, <2>2, UpdateStatusType, RejectedType DEF RecordFailure
  <2>4. RecTypeOK'
    BY <1>11, <2>1, <2>2, RecFields, IdleType, GoType
       DEF RecordFailure, Continue, Go, Done, RecPCs
  <2> QED BY <1>11, <2>3, <2>4 DEF RecordFailure, Continue, Done
<1>12. ASSUME NEW sha \in SHAs, NEW s \in CommitStatuses, SetCommitStatus(sha, s)
       PROVE  commitStatus' \in [SHAs -> CommitStatuses] /\ faults' \in 0..MaxFaults
  BY <1>12, FaultType DEF SetCommitStatus
<1>13. CASE ReportBuild
  <2>1. rec.obj \in PRDs /\ rec.obj.headSHA \in SHAs
    BY <1>13, RecFields DEF ReportBuild, At, PRDs
  <2>2. commitStatus' \in [SHAs -> CommitStatuses] /\ faults' \in 0..MaxFaults
    BY <1>12, <1>13, <2>1 DEF ReportBuild, CommitStatuses
  <2> QED BY <1>13, <2>2, IdleType DEF ReportBuild, Done
<1>14. CASE Annotate
  <2> DEFINE p == [rec.obj EXCEPT !.created = "true"]
  <2>1. rec.obj \in PRDs /\ p \in PRDs
    BY <1>14, MarkedType, RecFields DEF Annotate, At
  <2>2. /\ prd' \in PRDs \cup {None} /\ fresh' \subseteq Threads \cup {"cache"}
        /\ faults' \in 0..MaxFaults
    BY <1>0, <1>14, <2>1, UpdateType, RejectedType DEF Annotate
  <2>3. cachedPrd' \in PRDs \cup {None} /\ (cachedPrd # None => cachedPrd' # None)
    BY <1>14, MarkedType, ClusterAssumption DEF Annotate
  <2>4. RecTypeOK'
    BY <1>14, <2>1, RecFields, IdleType, GoType
       DEF Annotate, At, Continue, Go, Fail, RecPCs
  <2> QED BY <1>14, <2>2, <2>3, <2>4 DEF Annotate, Continue, Fail
<1>15. CASE ReportPending
  <2>1. rec.obj \in PRDs /\ rec.obj.headSHA \in SHAs
    BY <1>15, RecFields DEF ReportPending, At, PRDs
  <2>2. commitStatus' \in [SHAs -> CommitStatuses] /\ faults' \in 0..MaxFaults
    BY <1>12, <1>15, <2>1 DEF ReportPending, CommitStatuses
  <2>3. RecTypeOK'
    BY <1>15, <2>1, RecFields, GoType DEF ReportPending, At, Continue, Go, RecPCs
  <2> QED BY <1>15, <2>2, <2>3 DEF ReportPending, Continue
<1>16. CASE RecordDeploying
  <2> DEFINE p == WithStatus(rec.obj, "deploying", "App CR created", None)
  <2>1. p \in PRDs
    BY <1>16, WithStatusType, RecFields DEF RecordDeploying, At, States, Messages
  <2>2. /\ prd' \in PRDs \cup {None} /\ fresh' \subseteq Threads \cup {"cache"}
        /\ faults' \in 0..MaxFaults
    BY <1>0, <1>16, <2>1, UpdateStatusType, RejectedType DEF RecordDeploying
  <2> QED BY <1>16, <2>2, IdleType DEF RecordDeploying, Later, Fail
<1>17. CASE Mirror
  <2> DEFINE p == WithStatus(rec.obj, StateOf(rec.app.phase), rec.app.phase, rec.app.commit)
  <2>1. rec.obj \in PRDs /\ rec.app \in Apps
    BY <1>17, RecFields DEF Mirror, At
  <2>2. p \in PRDs
    BY <2>1, StateOfType, WithStatusType DEF Apps
  <2>3. /\ prd' \in PRDs \cup {None} /\ fresh' \subseteq Threads \cup {"cache"}
        /\ faults' \in 0..MaxFaults
    BY <1>0, <1>17, <2>2, UpdateStatusType, RejectedType DEF Mirror
  <2>4. RecTypeOK'
    BY <1>17, <2>1, <2>2, IdleType, GoType, ClusterAssumption
       DEF Mirror, Continue, Go, Fail, RecPCs
  <2> QED BY <1>17, <2>3, <2>4 DEF Mirror, Continue, Fail
<1>18. ASSUME NEW kind \in Kinds, PostComment(kind)
       PROVE  /\ comments' \in [Kinds -> 0..MaxComments]
              /\ dropped' \subseteq NotifyKinds
              /\ faults' \in 0..MaxFaults
  BY <1>18, CommentAssumption, FaultType DEF PostComment
<1>26. CASE ReportOutcome
  <2>1. rec.obj \in PRDs /\ rec.app \in Apps /\ rec.obj.headSHA \in SHAs
    BY <1>26, RecFields DEF ReportOutcome, At, PRDs
  <2>2. commitStatus' \in [SHAs -> CommitStatuses] /\ faults' \in 0..MaxFaults
    BY <1>12, <1>26, <2>1 DEF ReportOutcome, CommitStatuses
  <2>3. RecTypeOK'
    BY <1>26, <2>1, GoType, ClusterAssumption DEF ReportOutcome, Continue, Go, RecPCs
  <2> QED BY <1>26, <2>2, <2>3 DEF ReportOutcome, Continue
<1>19. CASE NotifyReady
  <2> DEFINE p == [rec.obj EXCEPT !.notifiedDeploy = TRUE, !.state = "running",
                                  !.appPhase = rec.app.phase, !.commit = rec.app.commit]
  <2>1. rec.obj \in PRDs /\ rec.app \in Apps
    BY <1>19, RecFields DEF NotifyReady, At
  <2>2. p \in PRDs
    BY <2>1 DEF PRDs, Apps, States, Messages
  <2>3. /\ comments' \in [Kinds -> 0..MaxComments] /\ dropped' \subseteq NotifyKinds
        /\ faults' \in 0..MaxFaults
    BY <1>18, <1>19 DEF NotifyReady, Kinds
  <2>4. RecTypeOK'
    BY <1>19, <2>1, <2>2, GoType, ClusterAssumption DEF NotifyReady, Continue, Go, RecPCs
  <2> QED BY <1>19, <2>3, <2>4 DEF NotifyReady, Continue
<1>20. CASE NotifyFailed
  <2> DEFINE p == [rec.obj EXCEPT !.notifiedError = TRUE, !.state = "error",
                                  !.appPhase = rec.app.phase]
  <2>1. rec.obj \in PRDs /\ rec.app \in Apps
    BY <1>20, RecFields DEF NotifyFailed, At
  <2>2. p \in PRDs
    BY <2>1 DEF PRDs, Apps, States, Messages
  <2>3. /\ comments' \in [Kinds -> 0..MaxComments] /\ dropped' \subseteq NotifyKinds
        /\ faults' \in 0..MaxFaults
    BY <1>18, <1>20 DEF NotifyFailed, Kinds
  <2>4. RecTypeOK'
    BY <1>20, <2>1, <2>2, GoType, ClusterAssumption DEF NotifyFailed, Continue, Go, RecPCs
  <2> QED BY <1>20, <2>3, <2>4 DEF NotifyFailed, Continue
<1>21. CASE NothingToNotify
  BY <1>21, IdleType DEF NothingToNotify, Later
<1>22. CASE RecordNotified
  <2>1. rec.obj \in PRDs
    BY <1>22, RecFields DEF RecordNotified, At
  <2>2. /\ prd' \in PRDs \cup {None} /\ fresh' \subseteq Threads \cup {"cache"}
        /\ faults' \in 0..MaxFaults
    BY <1>0, <1>22, <2>1, UpdateStatusType, RejectedType DEF RecordNotified
  <2> QED BY <1>22, <2>2, IdleType DEF RecordNotified, Later, Fail
<1>23. CASE LookupApp
  BY <1>23, RecFields, GoType DEF LookupApp, At, Go, RecPCs
<1>24. CASE DeleteApp
  <2>1. /\ app' \in Apps \cup {None} /\ cachedApp' \in Apps \cup {None}
        /\ faults' \in 0..MaxFaults
    BY <1>24, SetAppType, FaultType DEF DeleteApp
  <2>2. RecTypeOK'
    BY <1>24, RecFields, IdleType, GoType DEF DeleteApp, At, Continue, Go, Fail, RecPCs
  <2> QED BY <1>24, <2>1, <2>2 DEF DeleteApp, Continue, Fail
<1>25. CASE RemoveFinalizer
  <2>1. /\ prd' \in PRDs \cup {None} /\ fresh' \subseteq Threads \cup {"cache"}
        /\ faults' \in 0..MaxFaults
    BY <1>25, RejectedType DEF RemoveFinalizer, NoFault
  <2> QED BY <1>25, <2>1, IdleType DEF RemoveFinalizer, Done, Fail
<1> QED BY <1>1, <1>2, <1>3, <1>4, <1>7, <1>8, <1>9, <1>10, <1>11, <1>13, <1>14,
           <1>15, <1>16, <1>17, <1>19, <1>20, <1>21, <1>22, <1>23, <1>24, <1>25, <1>26
        DEF ReconcileStep

-----------------------------------------------------------------------------
(* The handlers *)

LEMMA ProceedType ==
    ASSUME HandleEventTypeOK, NEW h \in Handlers, NEW pc \in HandlerPCs,
           NEW e \in Events, NEW obj \in PRDs \cup {None},
           pc \in {"upsert", "create"} => e.headSHA # None,
           pc \in {"deleteApp", "update"} => obj # None,
           Proceed(h, pc, e, obj)
    PROVE  HandleEventTypeOK'
<1>1. e # None
  BY HandleEventAssumption
<1>2. handler' = [handler EXCEPT ![h] = [pc |-> pc, event |-> e, obj |-> obj]]
  BY DEF Proceed
<1>3. handler' \in [Handlers -> [ pc : HandlerPCs, event : Events \cup {None},
                                  obj : PRDs \cup {None} ]]
  BY <1>2 DEF HandleEventTypeOK
<1>4. ASSUME NEW g \in Handlers
      PROVE  /\ handler'[g].pc # "idle" => handler'[g].event # None
             /\ handler'[g].pc \in {"upsert", "create"} => handler'[g].event.headSHA # None
             /\ handler'[g].pc \in {"deleteApp", "update"} => handler'[g].obj # None
  <2>1. CASE g = h
    BY <1>1, <1>2, <2>1 DEF HandleEventTypeOK
  <2>2. CASE g # h
    BY <1>2, <2>2 DEF HandleEventTypeOK
  <2> QED BY <2>1, <2>2
<1> QED BY <1>3, <1>4 DEF HandleEventTypeOK

LEMMA ReturnType ==
    ASSUME HandleEventTypeOK, NEW h \in Handlers, Return(h)
    PROVE  HandleEventTypeOK'
<1>1. IdleHandler \in [pc : HandlerPCs, event : Events \cup {None}, obj : PRDs \cup {None}]
  BY DEF IdleHandler, HandlerPCs
<1>2. handler' = [handler EXCEPT ![h] = IdleHandler]
  BY DEF Return
<1>3. ASSUME NEW g \in Handlers
      PROVE  /\ handler'[g].pc # "idle" => handler'[g].event # None
             /\ handler'[g].pc \in {"upsert", "create"} => handler'[g].event.headSHA # None
             /\ handler'[g].pc \in {"deleteApp", "update"} => handler'[g].obj # None
  BY <1>2 DEF HandleEventTypeOK, IdleHandler
<1> QED BY <1>1, <1>2, <1>3 DEF HandleEventTypeOK

LEMMA ServingFields ==
    ASSUME TypeOK, NEW h \in Handlers, handler[h].pc # "idle"
    PROVE  /\ handler[h].event \in Events
           /\ handler[h].pc \in {"upsert", "create"} => handler[h].event.headSHA \in SHAs
           /\ handler[h].pc \in {"deleteApp", "update"} => handler[h].obj \in PRDs
BY DEF TypeOK, HandleEventTypeOK, Events

LEMMA FetchHeadType ==
    ASSUME TypeOK, NEW h \in Handlers, NEW sha \in SHAs, NEW clone \in Clones,
           FetchHead(h, sha, clone)
    PROVE  ClusterTypeOK' /\ HandleEventTypeOK'
<1> DEFINE e == [handler[h].event EXCEPT !.headSHA = sha, !.cloneURL = HeadClone(clone)]
<1>1. e \in Events /\ e.headSHA # None
  BY ServingFields, ClusterAssumption DEF FetchHead, Serving, Events, HeadClone
<1>2. faults' \in 0..MaxFaults
  BY FaultType DEF FetchHead
<1>3. HandleEventTypeOK'
  <2>1. CASE Proceed(h, "upsert", e, None)
    BY <1>1, <2>1, ProceedType DEF TypeOK, HandlerPCs
  <2>2. CASE Return(h)
    BY <2>2, ReturnType DEF TypeOK
  <2> QED BY <2>1, <2>2 DEF FetchHead
<1> QED BY <1>2, <1>3 DEF FetchHead, TypeOK, ClusterTypeOK

LEMMA HandlerType ==
    ASSUME TypeOK, NEW h \in Handlers, HandlerStep(h)
    PROVE  ClusterTypeOK' /\ HandleEventTypeOK'
<1> USE DEF TypeOK, ClusterTypeOK
<1>0. h \in Threads
  BY DEF Threads
<1>1. CASE CreatePRDeployment(h)
  <2>1. handler[h].event \in Events /\ handler[h].event.headSHA \in SHAs
    BY <1>1, ServingFields DEF CreatePRDeployment, Serving
  <2>2. NewPRD(handler[h].event.headSHA, handler[h].event.cloneURL) \in PRDs
    BY <2>1, NewPRDType DEF Events
  <2>3. faults' \in 0..MaxFaults
    BY <1>1, FaultType DEF CreatePRDeployment
  <2> QED BY <1>1, <2>2, <2>3, ReturnType DEF CreatePRDeployment
<1>2. CASE UpdateHead(h)
  <2>1. cachedPrd \in PRDs /\ WithEvent(cachedPrd, handler[h].event) \in PRDs
    BY <1>2, ServingFields, WithEventType DEF UpdateHead, Serving
  <2>2. /\ prd' \in PRDs \cup {None} /\ fresh' \subseteq Threads \cup {"cache"}
        /\ faults' \in 0..MaxFaults
    BY <1>0, <1>2, <2>1, GetAndUpdateType, FaultType DEF UpdateHead
  <2> QED BY <1>2, <2>2, ReturnType DEF UpdateHead
<1>3. CASE StartReclone(h)
  <2>1. handler[h].event \in Events
    BY <1>3, ServingFields DEF StartReclone, Serving
  <2>2. WithEvent(cachedPrd, handler[h].event) \in PRDs
    BY <1>3, <2>1, WithEventType DEF StartReclone
  <2>3. HandleEventTypeOK'
    BY <1>3, <2>1, <2>2, ProceedType, ClusterAssumption DEF StartReclone, HandlerPCs
  <2> QED BY <1>0, <1>3, <2>3 DEF StartReclone, ReadPRD
<1>4. CASE DeleteOldApp(h)
  <2>1. handler[h].event \in Events /\ handler[h].obj \in PRDs
    BY <1>4, ServingFields DEF DeleteOldApp, Serving
  <2>2. /\ app' \in Apps \cup {None} /\ cachedApp' \in Apps \cup {None}
        /\ faults' \in 0..MaxFaults
    BY <1>4, SetAppType, FaultType DEF DeleteOldApp
  <2>3. CASE EmptyAnnotation(h)
    <3>1. HandleEventTypeOK'
      BY <2>1, <2>3, ClearCreatedType, ProceedType, ClusterAssumption
         DEF EmptyAnnotation, HandlerPCs
    <3>2. cachedPrd' \in PRDs \cup {None} /\ (shared # {} => cachedPrd' # None)
      BY <2>3, ClearCreatedType, ClusterAssumption DEF EmptyAnnotation
    <3> QED BY <1>4, <2>2, <3>1, <3>2 DEF DeleteOldApp
  <2>4. CASE Return(h) /\ UNCHANGED cachedPrd
    BY <1>4, <2>2, <2>4, ReturnType DEF DeleteOldApp
  <2> QED BY <1>4, <2>3, <2>4 DEF DeleteOldApp
<1>5. CASE UpdateClone(h)
  <2>1. handler[h].obj \in PRDs
    BY <1>5, ServingFields DEF UpdateClone, Serving
  <2>2. /\ prd' \in PRDs \cup {None} /\ fresh' \subseteq Threads \cup {"cache"}
        /\ faults' \in 0..MaxFaults
    BY <1>0, <1>5, <2>1, UpdateType, RejectedType DEF UpdateClone
  <2> QED BY <1>5, <2>2, ReturnType DEF UpdateClone
<1>6. CASE DeletePRDeployment(h)
  <2>1. /\ prd' \in PRDs \cup {None} /\ fresh' \subseteq Threads \cup {"cache"}
        /\ faults' \in 0..MaxFaults
    BY <1>6, DeletePRDType, FaultType DEF DeletePRDeployment
  <2> QED BY <1>6, <2>1, ReturnType DEF DeletePRDeployment
<1>7. CASE EnsureNamespace(h)
  <2>1. handler[h].event \in Events /\ handler[h].event.headSHA # None
    BY <1>7, ServingFields, ClusterAssumption DEF EnsureNamespace, Serving
  <2>2. faults' \in 0..MaxFaults
    BY <1>7, FaultType DEF EnsureNamespace
  <2>3. CASE Proceed(h, "create", handler[h].event, None)
    BY <1>7, <2>1, <2>2, <2>3, ProceedType DEF EnsureNamespace, HandlerPCs
  <2>4. CASE Return(h)
    BY <1>7, <2>2, <2>4, ReturnType DEF EnsureNamespace
  <2> QED BY <1>7, <2>3, <2>4 DEF EnsureNamespace
<1> QED BY <1>1, <1>2, <1>3, <1>4, <1>5, <1>6, <1>7 DEF HandlerStep

-----------------------------------------------------------------------------
(* The git platform and the deliveries *)

InboxTypeOK == /\ inbox \subseteq Events
               /\ \A e \in inbox : e.headSHA = None => e.action = "comment"

LEMMA EventForType ==
    ASSUME NEW p \in Pulls, NEW action \in Actions
    PROVE  /\ EventFor(p, action) \in Events
           /\ EventFor(p, action).headSHA = None => EventFor(p, action).action = "comment"
BY ClusterAssumption DEF EventFor, Events, Pulls

LEMMA PullMovesType ==
    ASSUME TypeOK, NEW p \in Pulls, NEW action \in Actions,
           PullMoves(p, {EventFor(p, action)})
    PROVE  pull' \in Pulls /\ InboxTypeOK'
BY EventForType DEF PullMoves, InboxTypeOK, TypeOK

LEMMA MoveType ==
    ASSUME TypeOK, NEW kind, Move(kind)
    PROVE  moves' \in 0..MaxMoves
BY MovesAssumption DEF Move, TypeOK

LEMMA OutsideMoveType ==
    ASSUME TypeOK, OutsideMove
    PROVE  pull' \in Pulls /\ InboxTypeOK' /\ moves' \in 0..MaxMoves
<1>0. pull \in Pulls
  BY DEF TypeOK
<1>1. CASE Push
  <2>1. PICK sha \in SHAs : LET p == [pull EXCEPT !.headSHA = sha]
                            IN  PullMoves(p, {EventFor(p, "synchronize")})
    BY <1>1 DEF Push
  <2>2. [pull EXCEPT !.headSHA = sha] \in Pulls
    BY <1>0 DEF Pulls
  <2> QED BY <1>1, <2>1, <2>2, MoveType, PullMovesType DEF Push, Actions
<1>2. CASE Transfer
  <2>1. PICK clone \in Clones : PullMoves([pull EXCEPT !.cloneURL = clone], {})
    BY <1>2 DEF Transfer
  <2>2. [pull EXCEPT !.cloneURL = clone] \in Pulls
    BY <1>0 DEF Pulls
  <2> QED BY <1>2, <2>1, <2>2, MoveType DEF Transfer, PullMoves, InboxTypeOK, TypeOK
<1>3. CASE Close
  <2>1. [pull EXCEPT !.open = FALSE] \in Pulls
    BY <1>0 DEF Pulls
  <2> QED BY <1>3, <2>1, MoveType, PullMovesType DEF Close, Actions
<1>4. CASE Reopen
  <2>1. [pull EXCEPT !.open = TRUE] \in Pulls
    BY <1>0 DEF Pulls
  <2> QED BY <1>4, <2>1, MoveType, PullMovesType DEF Reopen, Actions
<1>5. CASE Relabel
  <2> DEFINE p == [pull EXCEPT !.trusted = ~@]
             action == IF p.trusted THEN "labeled" ELSE "unlabeled"
  <2>1. p \in Pulls
    BY <1>0 DEF Pulls
  <2>2. action \in Actions
    BY DEF Actions
  <2>3. PullMoves(p, {EventFor(p, action)})
    BY <1>5 DEF Relabel
  <2> HIDE DEF p, action
  <2> QED BY <1>5, <2>1, <2>2, <2>3, MoveType, PullMovesType DEF Relabel
<1>6. CASE Comment
  BY <1>0, <1>6, MoveType, PullMovesType DEF Comment, Actions
<1> QED BY <1>1, <1>2, <1>3, <1>4, <1>5, <1>6 DEF OutsideMove

\* An event that is applied at once names its head commit: only comments may lack
\* it, and those are sent to fetchPRHead first.
LEMMA ReceiveType ==
    ASSUME TypeOK, NEW e \in inbox, NEW h \in Handlers, Receive(h, e)
    PROVE  HandleEventTypeOK'
<1>1. e \in Events /\ (e.headSHA = None => e.action = "comment")
  BY DEF TypeOK
<1>2. CASE Route(e) = "idle"
  BY <1>2, ReturnType DEF Receive, TypeOK
<1>3. CASE Route(e) # "idle"
  <2>1. Route(e) \in {"delete", "fetch", "upsert"}
    BY <1>1, <1>3 DEF Route, Events, Actions
  <2>2. Route(e) = "upsert" => e.headSHA # None
    BY <1>1 DEF Route, Events, Actions
  <2>3. Proceed(h, Route(e), e, None)
    BY <1>3 DEF Receive
  <2>4. HandleEventTypeOK /\ Route(e) \in HandlerPCs
    BY <2>1 DEF TypeOK, HandlerPCs
  <2> QED BY <1>1, <2>1, <2>2, <2>3, <2>4, ProceedType
<1> QED BY <1>2, <1>3

-----------------------------------------------------------------------------
(* Type correctness *)

LEMMA InitType == Init => TypeOK
<1> SUFFICES ASSUME Init PROVE TypeOK
  OBVIOUS
<1>1. ClusterTypeOK
  BY ClusterAssumption DEF Init, ClusterInit, ClusterTypeOK
<1>2. PRDeploymentTypeOK
  <2>1. RecTypeOK
    BY DEF Init, PRDeploymentInit, RecTypeOK, Idle, RecPCs
  <2>2. 0 \in 0..MaxComments
    BY CommentAssumption
  <2> QED BY <2>1, <2>2
          DEF Init, PRDeploymentInit, PRDeploymentTypeOK, CommitStatuses
<1>3. HandleEventTypeOK
  BY DEF Init, HandleEventInit, HandleEventTypeOK, IdleHandler, HandlerPCs
<1>4. pull \in Pulls
  BY DEF Init, Pulls
<1>5. InboxTypeOK
  BY <1>4, EventForType DEF Init, InboxTypeOK, Actions
<1> QED BY <1>1, <1>2, <1>3, <1>4, <1>5, MovesAssumption DEF Init, TypeOK, InboxTypeOK

LEMMA NextType == TypeOK /\ [Next]_vars => TypeOK'
<1> SUFFICES ASSUME TypeOK, [Next]_vars PROVE TypeOK'
  OBVIOUS
<1> USE DEF clusterVars, prdeploymentVars, recVars, reportVars, platformVars
<1>0. /\ ClusterTypeOK /\ PRDeploymentTypeOK /\ HandleEventTypeOK
      /\ pull \in Pulls /\ InboxTypeOK /\ moves \in 0..MaxMoves
  BY DEF TypeOK, InboxTypeOK
<1>a. UNCHANGED clusterVars => ClusterTypeOK'
  BY <1>0 DEF ClusterTypeOK
<1>b. UNCHANGED prdeploymentVars => PRDeploymentTypeOK'
  BY <1>0 DEF PRDeploymentTypeOK, RecTypeOK
<1>c. UNCHANGED handler => HandleEventTypeOK'
  BY <1>0 DEF HandleEventTypeOK
<1>d. UNCHANGED platformVars => pull' \in Pulls /\ InboxTypeOK' /\ moves' \in 0..MaxMoves
  BY <1>0 DEF InboxTypeOK
<1>e. ASSUME ClusterTypeOK', PRDeploymentTypeOK', HandleEventTypeOK',
             pull' \in Pulls, InboxTypeOK', moves' \in 0..MaxMoves
      PROVE  TypeOK'
  BY <1>e DEF TypeOK, InboxTypeOK
<1>1. CASE OutsideMove
  BY <1>1, <1>a, <1>b, <1>c, <1>e, OutsideMoveType DEF OutsideMove
<1>2. CASE AppAdvances
  <2>1. PICK phase \in Phases :
          SetApp([app EXCEPT !.phase = phase,
                             !.commit = IF phase = "Running" THEN pull.headSHA ELSE @])
    BY <1>2 DEF AppAdvances
  <2>2. app \in Apps /\ pull.headSHA \in SHAs
    BY <1>0, <1>2 DEF AppAdvances, ClusterTypeOK, Pulls
  <2>3. [app EXCEPT !.phase = phase,
                    !.commit = IF phase = "Running" THEN pull.headSHA ELSE @] \in Apps
    BY <2>2 DEF Apps
  <2>4. ClusterTypeOK'
    BY <1>0, <1>2, <2>1, <2>3, SetAppType DEF AppAdvances, ClusterTypeOK
  <2> QED BY <1>2, <2>4, <1>b, <1>c, <1>d, <1>e DEF AppAdvances
<1>3. CASE Rebuild
  <2>1. [app EXCEPT !.phase = "Building"] \in Apps
    BY <1>0, <1>3 DEF Rebuild, ClusterTypeOK, Apps, Phases
  <2>2. ClusterTypeOK'
    BY <1>0, <1>3, <2>1, SetAppType DEF Rebuild, ClusterTypeOK
  <2>3. moves' \in 0..MaxMoves
    BY <1>3, MoveType DEF Rebuild
  <2>4. InboxTypeOK'
    BY <1>0, <1>3 DEF Rebuild, InboxTypeOK
  <2> QED BY <1>0, <1>3, <2>2, <2>3, <2>4, <1>b, <1>c, <1>e DEF Rebuild
<1>4. CASE RemoveGitRepo
  <2>1. ClusterTypeOK'
    BY <1>0, <1>4 DEF RemoveGitRepo, ClusterTypeOK
  <2>2. moves' \in 0..MaxMoves
    BY <1>4, MoveType DEF RemoveGitRepo
  <2>3. InboxTypeOK'
    BY <1>0, <1>4 DEF RemoveGitRepo, InboxTypeOK
  <2> QED BY <1>0, <1>4, <2>1, <2>2, <2>3, <1>b, <1>c, <1>e DEF RemoveGitRepo
<1>5. CASE GarbageCollect
  <2>1. ClusterTypeOK'
    BY <1>0, <1>5, DeletePRDType DEF GarbageCollect, ClusterTypeOK
  <2> QED BY <1>5, <2>1, <1>b, <1>c, <1>d, <1>e DEF GarbageCollect
<1>6. CASE Deliver
  <2>1. PICK e \in inbox :
          /\ inbox' = inbox \ {e}
          /\ \/ (\E h \in Handlers : Receive(h, e)) /\ NoFault
             \/ (Fault("loss") \/ NoFault) /\ UNCHANGED handler
    BY <1>6 DEF Deliver
  <2>2. HandleEventTypeOK'
    BY <1>c, <2>1, ReceiveType
  <2>3. faults' \in 0..MaxFaults
    BY <2>1, FaultType
  <2>4. ClusterTypeOK'
    BY <1>0, <1>6, <2>3 DEF Deliver, ClusterTypeOK
  <2>5. InboxTypeOK' /\ pull' \in Pulls /\ moves' \in 0..MaxMoves
    BY <1>0, <1>6, <2>1 DEF Deliver, InboxTypeOK
  <2>6. UNCHANGED prdeploymentVars
    BY <1>6 DEF Deliver
  <2> QED BY <2>2, <2>4, <2>5, <2>6, <1>b, <1>e
<1>7. ASSUME NEW h \in Handlers, Handle(h)
      PROVE  TypeOK'
  <2>1. pull.headSHA \in SHAs /\ pull.cloneURL \in Clones
    BY <1>0 DEF Pulls
  <2>2. ClusterTypeOK' /\ HandleEventTypeOK'
    BY <1>7, <2>1, FetchHeadType, HandlerType DEF Handle
  <2> QED BY <1>7, <2>2, <1>b, <1>d, <1>e DEF Handle
<1>8. CASE Reconcile
  BY <1>8, <1>c, <1>d, <1>e, ReconcileType DEF Reconcile
<1>9. CASE Observe
  <2>1. ClusterTypeOK'
    BY <1>0, <1>9 DEF Observe, ObservePRD, SyncPRD, ObserveApp, SyncApp, ClusterTypeOK
  <2>2. PRDeploymentTypeOK'
    BY <1>0, <1>9 DEF Observe, ObservePRD, ObserveApp, PRDeploymentTypeOK, RecTypeOK
  <2> QED BY <1>9, <2>1, <2>2, <1>c, <1>d, <1>e DEF Observe
<1>10. CASE Requeue
  <2>1. PRDeploymentTypeOK'
    BY <1>0, <1>10 DEF Requeue, TimerFires, PRDeploymentTypeOK, RecTypeOK
  <2> QED BY <1>10, <2>1, <1>a, <1>c, <1>d, <1>e DEF Requeue, TimerFires
<1>11. CASE Restart
  <2>1. ClusterTypeOK'
    BY <1>0, <1>11, FaultType DEF Restart, ClusterTypeOK
  <2>2. PRDeploymentTypeOK'
    BY <1>0, <1>11, IdleType DEF Restart, PRDeploymentTypeOK
  <2>3. HandleEventTypeOK'
    BY <1>11 DEF Restart, HandleEventTypeOK, IdleHandler, HandlerPCs
  <2> QED BY <1>11, <2>1, <2>2, <2>3, <1>d, <1>e DEF Restart
<1>12. CASE UNCHANGED vars
  BY <1>12, <1>a, <1>b, <1>c, <1>d, <1>e DEF vars
<1> QED BY <1>1, <1>2, <1>3, <1>4, <1>5, <1>6, <1>7, <1>8, <1>9, <1>10, <1>11, <1>12
        DEF Next

\* Every state of the machine is well typed; above all, a reconcile or a handler
\* never goes on without the object, the App or the event its next request needs,
\* and createPRDeployment never runs without a head commit.
THEOREM TypeCorrect == Spec => []TypeOK
BY InitType, NextType, PTL DEF Spec
=============================================================================
