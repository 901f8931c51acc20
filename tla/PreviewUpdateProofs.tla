------------------------- MODULE PreviewUpdateProofs -------------------------
(***************************************************************************)
(* Proofs about the writes of a PRDeployment: no writer undoes what        *)
(* another stored, and no flag is stored before its comment is posted.     *)
(***************************************************************************)
EXTENDS PreviewTypeProofs

SameSpec(p, q) ==
    p.headSHA = q.headSHA /\ p.cloneURL = q.cloneURL /\ p.finalizer = q.finalizer

\* A copy that the API server would accept carries what an Update of it overwrites.  The
\* handlers' copies carry a head commit and a clone URL of their own.
CopiesCarry ==
    prd # None =>
      /\ "cache" \in fresh => cachedPrd # None /\ SameSpec(prd, cachedPrd)
      /\ "reconciler" \in fresh /\ rec.pc # "idle" => SameSpec(prd, rec.obj)
      /\ \A h \in Handlers :
           handler[h].pc \in {"deleteApp", "update"} /\ h \in fresh
             => prd.finalizer = handler[h].obj.finalizer

\* What NoLostUpdate says of a step.
KeepsUpdate ==
    prd # None /\ prd' # None =>
      /\ prd.finalizer => prd'.finalizer
      /\ UNCHANGED handler => /\ prd'.headSHA = prd.headSHA
                              /\ prd'.cloneURL = prd.cloneURL

-----------------------------------------------------------------------------
(* What the writes leave alone *)

LEMMA StoredSpec ==
    ASSUME NEW p \in PRDs, NEW q \in PRDs, NEW w, Store(w, WithStatusOf(p, q))
    PROVE  prd' \in PRDs /\ SameSpec(prd', p) /\ fresh' = {w}
BY DEF Store, Serialised, WithStatusOf, SameSpec, PRDs

LEMMA WithStatusSpec ==
    ASSUME NEW p \in PRDs, NEW s, NEW m, NEW c
    PROVE  SameSpec(WithStatus(p, s, m, c), p)
BY DEF WithStatus, SameSpec, PRDs

\* A write of the reconciler, or its refusal, from a copy that goes on with the same spec.
LEMMA WriteCarries ==
    ASSUME TypeOK, CopiesCarry, UNCHANGED handler, rec.pc # "idle",
           NEW p \in PRDs, SameSpec(p, rec.obj),
           \/ Update("reconciler", p)
           \/ UpdateStatus("reconciler", p)
           \/ Rejected("reconciler"),
           rec'.pc # "idle" => SameSpec(rec'.obj, rec.obj),
           \/ cachedPrd' = cachedPrd
           \/ cachedPrd' # None /\ SameSpec(cachedPrd', cachedPrd)
    PROVE  KeepsUpdate /\ CopiesCarry'
<1> DEFINE R == "reconciler"
<1>1. CASE UNCHANGED <<prd, fresh>>
  BY <1>1 DEF KeepsUpdate, CopiesCarry, SameSpec
<1>2. CASE \/ Current(R) /\ Store(R, WithStatusOf(p, prd))
           \/ Current(R) /\ Store(R, WithStatusOf(prd, p))
  <2>1. prd \in PRDs /\ prd # None /\ R \in fresh /\ SameSpec(prd, rec.obj)
    BY <1>2 DEF Current, TypeOK, ClusterTypeOK, CopiesCarry
  <2>2. SameSpec(prd', prd) /\ fresh' = {R}
    BY <1>2, <2>1, StoredSpec DEF SameSpec
  <2>3. "cache" \notin fresh' /\ \A h \in Handlers : h \notin fresh'
    BY <2>2, ClusterAssumption
  <2> QED BY <2>1, <2>2, <2>3 DEF KeepsUpdate, CopiesCarry, SameSpec
<1> QED BY <1>1, <1>2 DEF Update, UpdateStatus, Rejected

\* A deletion marks the object or removes it; the copies are outdated.
LEMMA DeleteCarries ==
    ASSUME TypeOK, CopiesCarry, DeletePRD, UNCHANGED <<cachedPrd, rec>>,
           \A h \in Handlers : handler'[h].pc \notin {"deleteApp", "update"}
                                 \/ handler'[h] = handler[h]
    PROVE  KeepsUpdate /\ CopiesCarry'
<1>1. CASE UNCHANGED <<prd, fresh>>
  BY <1>1 DEF KeepsUpdate, CopiesCarry
<1>2. CASE /\ prd # None /\ fresh' = {}
           /\ prd' = IF prd.finalizer THEN [prd EXCEPT !.deleting = TRUE] ELSE None
  <2>1. prd \in PRDs
    BY <1>2 DEF TypeOK, ClusterTypeOK
  <2>2. prd' # None => SameSpec(prd', prd)
    BY <1>2, <2>1 DEF SameSpec, PRDs
  <2> QED BY <1>2, <2>2 DEF KeepsUpdate, CopiesCarry, SameSpec
<1> QED BY <1>1, <1>2 DEF DeletePRD

-----------------------------------------------------------------------------
(* The steps *)

LEMMA ReconcileCarries ==
    ASSUME TypeOK, CopiesCarry, ReconcileStep, UNCHANGED handler
    PROVE  KeepsUpdate /\ CopiesCarry'
<1> DEFINE R == "reconciler"
<1>0. rec.pc # "idle" => rec.obj \in PRDs
  BY RecFields
<1>1. CASE \/ ReconcileGone \/ ParentMissing \/ AwaitApp
           \/ CreateApp \/ ReportBuild \/ ReportPending \/ ReportOutcome \/ NothingToNotify
           \/ LookupApp \/ DeleteApp
  <2>1. UNCHANGED <<prd, cachedPrd, fresh>>
    BY <1>1 DEF ReconcileGone, ParentMissing, AwaitApp, CreateApp, ReportBuild, ReportPending,
       ReportOutcome, NothingToNotify, LookupApp, DeleteApp, clusterVars
  <2>2. rec'.pc # "idle" => rec.pc # "idle" /\ rec'.obj = rec.obj
    BY <1>1 DEF ReconcileGone, ParentMissing, AwaitApp, CreateApp, ReportBuild, ReportPending,
       ReportOutcome, NothingToNotify, LookupApp, DeleteApp, Dequeue, At, Continue, Go, Done,
       Later, Fail, Idle
  <2> QED BY <2>1, <2>2 DEF KeepsUpdate, CopiesCarry
<1>2. CASE NotifyReady \/ NotifyFailed
  <2>1. UNCHANGED <<prd, cachedPrd, fresh>> /\ rec.pc # "idle"
    BY <1>2 DEF NotifyReady, NotifyFailed, At
  <2>2. SameSpec(rec'.obj, rec.obj)
    <3> DEFINE ready == [rec.obj EXCEPT !.notifiedDeploy = TRUE, !.state = "running",
                                        !.appPhase = rec.app.phase, !.commit = rec.app.commit]
               failed == [rec.obj EXCEPT !.notifiedError = TRUE, !.state = "error",
                                         !.appPhase = rec.app.phase]
    <3>1. rec'.obj = ready \/ rec'.obj = failed
      BY <1>2 DEF NotifyReady, NotifyFailed, Continue, Go
    <3>2. SameSpec(ready, rec.obj) /\ SameSpec(failed, rec.obj)
      BY <1>0, <2>1 DEF SameSpec, PRDs
    <3> HIDE DEF ready, failed
    <3> QED BY <3>1, <3>2
  <2> QED BY <2>1, <2>2 DEF KeepsUpdate, CopiesCarry, SameSpec
<1>3. CASE StartDelete \/ StartCreate \/ StartSync
  <2>1. PICK pc : Start(pc)
    BY <1>3 DEF StartDelete, StartCreate, StartSync
  <2>2. /\ UNCHANGED <<prd, cachedPrd>> /\ rec'.obj = cachedPrd
        /\ R \in fresh' => "cache" \in fresh
        /\ fresh' \subseteq fresh \cup {R}
    BY <2>1 DEF Start, ReadPRD, Go
  <2>3. \A x \in Handlers \cup {"cache"} : x \in fresh' => x \in fresh
    BY <2>2, ClusterAssumption
  <2> QED BY <2>2, <2>3 DEF KeepsUpdate, CopiesCarry
<1>4. CASE AddFinalizer
  <2> DEFINE p == [cachedPrd EXCEPT !.finalizer = TRUE]
  <2>1. /\ cachedPrd \in PRDs /\ rec.pc = "idle" /\ UNCHANGED <<rec, cachedPrd>>
        /\ GetAndUpdate(R, p)
    BY <1>4 DEF AddFinalizer, At, recVars, TypeOK, ClusterTypeOK
  <2>2. /\ p \in PRDs /\ p.finalizer
        /\ p.headSHA = cachedPrd.headSHA /\ p.cloneURL = cachedPrd.cloneURL
    BY <2>1 DEF PRDs
  <2> HIDE DEF p
  <2>3. CASE UNCHANGED <<prd, fresh>>
    BY <2>1, <2>3 DEF KeepsUpdate, CopiesCarry
  <2>4. CASE Current("cache") /\ Store(R, WithStatusOf(p, prd))
    <3>1. prd \in PRDs /\ SameSpec(prd, cachedPrd)
      BY <2>4 DEF Current, TypeOK, ClusterTypeOK, CopiesCarry
    <3>2. SameSpec(prd', p) /\ fresh' = {R}
      BY <2>2, <2>4, <3>1, StoredSpec
    <3>3. "cache" \notin fresh' /\ \A h \in Handlers : h \notin fresh'
      BY <3>2, ClusterAssumption
    <3> QED BY <2>1, <2>2, <3>1, <3>2, <3>3 DEF KeepsUpdate, CopiesCarry, SameSpec
  <2> QED BY <2>1, <2>3, <2>4 DEF GetAndUpdate, Rejected
<1>5. CASE RecordFailure
  <2> DEFINE p == WithStatus(rec.obj, "error", "App CR not created", None)
  <2>1. /\ rec.pc # "idle" /\ UNCHANGED cachedPrd
        /\ UpdateStatus(R, p) \/ Rejected(R)
    BY <1>5 DEF RecordFailure, At
  <2>3. rec' = Idle \/ rec' = [pc |-> "reportBuild", obj |-> p, app |-> rec.app]
    BY <1>5 DEF RecordFailure, Continue, Go, Done
  <2>2. p \in PRDs /\ SameSpec(p, rec.obj)
    <3>1. "error" \in States /\ "App CR not created" \in Messages /\ None \in SHAs \cup {None}
      BY DEF States, Messages
    <3> QED BY <1>0, <2>1, <3>1, WithStatusType, WithStatusSpec
  <2> HIDE DEF p
  <2>4. rec'.pc # "idle" => SameSpec(rec'.obj, rec.obj)
    BY <2>2, <2>3 DEF Idle
  <2> QED BY <2>1, <2>2, <2>4, WriteCarries
<1>6. CASE RecordDeploying
  <2> DEFINE p == WithStatus(rec.obj, "deploying", "App CR created", None)
  <2>1. /\ rec.pc # "idle" /\ UNCHANGED cachedPrd
        /\ UpdateStatus(R, p) \/ Rejected(R)
    BY <1>6 DEF RecordDeploying, At
  <2>3. rec' = Idle
    BY <1>6 DEF RecordDeploying, Later, Fail
  <2>2. p \in PRDs /\ SameSpec(p, rec.obj)
    <3>1. "deploying" \in States /\ "App CR created" \in Messages /\ None \in SHAs \cup {None}
      BY DEF States, Messages
    <3> QED BY <1>0, <2>1, <3>1, WithStatusType, WithStatusSpec
  <2> HIDE DEF p
  <2>4. rec'.pc = "idle"
    BY <2>3 DEF Idle
  <2> QED BY <2>1, <2>2, <2>4, WriteCarries
<1>7. CASE Mirror
  <2> DEFINE p == WithStatus(rec.obj, StateOf(rec.app.phase), rec.app.phase, rec.app.commit)
  <2>1. /\ rec.pc = "mirror" /\ UNCHANGED cachedPrd
        /\ UpdateStatus(R, p) \/ Rejected(R)
        /\ rec'.pc # "idle" => rec'.obj = p
    BY <1>7 DEF Mirror, At, Continue, Go, Fail, Idle
  <2>2. rec.app \in Apps
    BY <2>1, RecFields
  <2>3. p \in PRDs /\ SameSpec(p, rec.obj)
    BY <1>0, <2>1, <2>2, StateOfType, WithStatusType, WithStatusSpec DEF Apps
  <2> HIDE DEF p
  <2> QED BY <2>1, <2>3, WriteCarries
<1>8. CASE RecordNotified
  <2>1. /\ rec.pc # "idle" /\ UNCHANGED cachedPrd /\ rec'.pc = "idle"
        /\ UpdateStatus(R, rec.obj) \/ Rejected(R)
    BY <1>8 DEF RecordNotified, At, Later, Fail, Idle
  <2> QED BY <1>0, <2>1, WriteCarries DEF SameSpec
\* The mark may show in the cache first, where the two share the map.
<1>9. CASE Annotate
  <2> DEFINE p == [rec.obj EXCEPT !.created = "true"]
  <2>1. /\ rec.pc # "idle"
        /\ Update(R, p) \/ Rejected(R)
    BY <1>9 DEF Annotate, At
  <2>4. rec' = Idle \/ rec' = [pc |-> "pend", obj |-> p, app |-> rec.app]
    BY <1>9 DEF Annotate, Continue, Go, Fail
  <2>2. p \in PRDs /\ SameSpec(p, rec.obj)
    BY <1>0, <2>1 DEF SameSpec, PRDs
  <2>3. \/ cachedPrd' = cachedPrd
        \/ cachedPrd' # None /\ SameSpec(cachedPrd', cachedPrd)
    <3>1. R \in shared => cachedPrd \in PRDs
      BY DEF TypeOK, ClusterTypeOK
    <3>2. cachedPrd \in PRDs =>
            /\ [cachedPrd EXCEPT !.created = "true"] \in PRDs
            /\ SameSpec([cachedPrd EXCEPT !.created = "true"], cachedPrd)
      BY DEF SameSpec, PRDs
    <3> QED BY <1>9, <3>1, <3>2, ClusterAssumption DEF Annotate
  <2> HIDE DEF p
  <2>5. rec'.pc # "idle" => SameSpec(rec'.obj, rec.obj)
    BY <2>2, <2>4 DEF Idle
  <2> QED BY <2>1, <2>2, <2>3, <2>5, WriteCarries
<1>10. CASE RemoveFinalizer
  <2>1. rec'.pc = "idle" /\ UNCHANGED cachedPrd /\ (prd' = None \/ UNCHANGED <<prd, fresh>>)
    BY <1>10 DEF RemoveFinalizer, Rejected, Done, Fail, Idle
  <2> QED BY <2>1 DEF KeepsUpdate, CopiesCarry
<1> QED BY <1>1, <1>2, <1>3, <1>4, <1>5, <1>6, <1>7, <1>8, <1>9, <1>10 DEF ReconcileStep

LEMMA HandlerCarries ==
    ASSUME TypeOK, CopiesCarry, NEW h \in Handlers, HandlerStep(h), UNCHANGED rec
    PROVE  KeepsUpdate /\ CopiesCarry'
<1>0. /\ h \in Threads /\ h # "cache" /\ h # "reconciler"
      /\ DOMAIN handler = Handlers
      /\ prd \in PRDs \cup {None} /\ cachedPrd \in PRDs \cup {None}
  BY ClusterAssumption DEF Threads, TypeOK, HandleEventTypeOK, ClusterTypeOK
<1>1. handler[h].pc # "idle" /\ handler[h].event \in Events
  BY ServingFields DEF HandlerStep, EnsureNamespace, CreatePRDeployment, UpdateHead, StartReclone,
     DeleteOldApp, UpdateClone, DeletePRDeployment, Serving
\* A handler that returns has changed its program counter.
<1>2. ASSUME Return(h)
      PROVE  /\ handler' # handler
             /\ \A g \in Handlers : handler'[g].pc \notin {"deleteApp", "update"}
                                      \/ handler'[g] = handler[g]
  <2>1. handler' = [handler EXCEPT ![h] = IdleHandler] /\ IdleHandler.pc = "idle"
    BY <1>2 DEF Return, IdleHandler
  <2>2. handler'[h].pc = "idle" /\ \A g \in Handlers \ {h} : handler'[g] = handler[g]
    BY <1>0, <2>1
  <2> QED BY <1>1, <2>2
<1>9. CASE EnsureNamespace(h)
  <2>1. /\ UNCHANGED <<prd, cachedPrd, fresh>>
        /\ \/ Return(h)
           \/ handler' = [handler EXCEPT ![h] = [pc |-> "create", event |-> handler[h].event,
                                                 obj |-> None]]
    BY <1>9 DEF EnsureNamespace, Proceed
  <2>2. \A g \in Handlers : handler'[g].pc \notin {"deleteApp", "update"}
                             \/ handler'[g] = handler[g]
    BY <1>0, <1>2, <2>1
  <2> QED BY <2>1, <2>2 DEF KeepsUpdate, CopiesCarry
<1>3. CASE CreatePRDeployment(h)
  <2>1. Return(h) /\ UNCHANGED cachedPrd
    BY <1>3 DEF CreatePRDeployment
  <2>2. UNCHANGED <<prd, fresh>> \/ (prd = None /\ fresh' = {})
    BY <1>3 DEF CreatePRDeployment
  <2> QED BY <1>2, <2>1, <2>2 DEF KeepsUpdate, CopiesCarry
<1>4. CASE UpdateHead(h)
  <2> DEFINE p == WithEvent(cachedPrd, handler[h].event)
  <2>1. /\ cachedPrd \in PRDs /\ Return(h) /\ UNCHANGED cachedPrd
        /\ GetAndUpdate(h, p) \/ UNCHANGED <<prd, fresh>>
    BY <1>0, <1>4 DEF UpdateHead
  <2>2. p \in PRDs /\ p.finalizer = cachedPrd.finalizer
    BY <1>1, <2>1, WithEventType
  <2> HIDE DEF p
  <2>3. CASE UNCHANGED <<prd, fresh>>
    BY <1>2, <2>1, <2>3 DEF KeepsUpdate, CopiesCarry
  <2>4. CASE Current("cache") /\ Store(h, WithStatusOf(p, prd))
    <3>1. prd \in PRDs /\ SameSpec(prd, cachedPrd)
      BY <1>0, <2>4 DEF Current, CopiesCarry
    <3>2. SameSpec(prd', p) /\ fresh' = {h}
      BY <2>2, <2>4, <3>1, StoredSpec
    <3>3. \A g \in Handlers : g \in fresh' => handler'[g].pc = "idle"
      BY <1>0, <2>1, <3>2 DEF Return, IdleHandler
    <3>4. CopiesCarry'
      BY <1>0, <3>2, <3>3 DEF CopiesCarry
    <3> QED BY <1>2, <2>1, <2>2, <3>1, <3>2, <3>4 DEF KeepsUpdate, SameSpec
  <2> QED BY <2>1, <2>3, <2>4 DEF GetAndUpdate, Rejected
<1>5. CASE StartReclone(h)
  <2>1. /\ cachedPrd \in PRDs /\ UNCHANGED <<prd, cachedPrd>>
        /\ handler' = [handler EXCEPT ![h] = [pc |-> "deleteApp", event |-> handler[h].event,
                                              obj |-> WithEvent(cachedPrd, handler[h].event)]]
        /\ fresh' = IF "cache" \in fresh THEN fresh \cup {h} ELSE fresh \ {h}
    BY <1>0, <1>5 DEF StartReclone, Proceed, ReadPRD
  <2>2. /\ handler'[h].obj.finalizer = cachedPrd.finalizer
        /\ \A g \in Handlers \ {h} : handler'[g] = handler[g]
    BY <1>0, <1>1, <2>1, WithEventType
  <2> QED BY <1>0, <2>1, <2>2 DEF KeepsUpdate, CopiesCarry, SameSpec
<1>6. CASE DeleteOldApp(h)
  <2>1. UNCHANGED <<prd, fresh>> /\ handler[h].pc = "deleteApp" /\ handler[h].obj \in PRDs
    BY <1>6, ServingFields DEF DeleteOldApp, Serving
  <2>2. CASE Return(h) /\ UNCHANGED cachedPrd
    BY <1>2, <2>1, <2>2 DEF KeepsUpdate, CopiesCarry
  <2>3. CASE EmptyAnnotation(h)
    <3>1. ASSUME NEW p \in PRDs
          PROVE  ClearCreated(p) # None /\ SameSpec(ClearCreated(p), p)
      BY <3>1, ClusterAssumption, ClearCreatedType DEF ClearCreated, SameSpec, PRDs
    <3>2. \/ cachedPrd' = cachedPrd
          \/ cachedPrd' # None /\ SameSpec(cachedPrd', cachedPrd)
      <4>1. h \in shared => cachedPrd \in PRDs
        BY DEF TypeOK, ClusterTypeOK
      <4>2. cachedPrd' = IF h \in shared THEN ClearCreated(cachedPrd) ELSE cachedPrd
        BY <2>3 DEF EmptyAnnotation
      <4> QED BY <3>1, <4>1, <4>2
    <3>3. handler' = [handler EXCEPT ![h] = [pc |-> "update", event |-> handler[h].event,
                                             obj |-> ClearCreated(handler[h].obj)]]
      BY <2>3 DEF EmptyAnnotation, Proceed
    <3>4. /\ handler'[h].obj.finalizer = handler[h].obj.finalizer
          /\ \A g \in Handlers \ {h} : handler'[g] = handler[g]
      BY <1>0, <2>1, <3>1, <3>3 DEF SameSpec
    <3> QED BY <1>6, <2>1, <3>2, <3>4 DEF DeleteOldApp, KeepsUpdate, CopiesCarry, SameSpec
  <2> QED BY <1>6, <2>2, <2>3 DEF DeleteOldApp
<1>7. CASE UpdateClone(h)
  <2>1. /\ handler[h].obj \in PRDs /\ handler[h].pc = "update"
        /\ Update(h, handler[h].obj) \/ Rejected(h)
        /\ Return(h) /\ UNCHANGED cachedPrd
    BY <1>7, ServingFields DEF UpdateClone, Serving
  <2>2. CASE UNCHANGED <<prd, fresh>>
    BY <1>2, <2>1, <2>2 DEF KeepsUpdate, CopiesCarry
  <2>3. CASE Current(h) /\ Store(h, WithStatusOf(handler[h].obj, prd))
    <3>1. prd \in PRDs /\ prd.finalizer = handler[h].obj.finalizer
      BY <1>0, <2>1, <2>3 DEF Current, CopiesCarry
    <3>2. SameSpec(prd', handler[h].obj) /\ fresh' = {h}
      BY <2>1, <2>3, <3>1, StoredSpec
    <3>3. \A g \in Handlers : g \in fresh' => handler'[g].pc = "idle"
      BY <1>0, <2>1, <3>2 DEF Return, IdleHandler
    <3>4. CopiesCarry'
      BY <1>0, <3>2, <3>3 DEF CopiesCarry
    <3> QED BY <1>2, <2>1, <3>1, <3>2, <3>4 DEF KeepsUpdate, SameSpec
  <2> QED BY <2>1, <2>2, <2>3 DEF Update, Rejected
<1>8. CASE DeletePRDeployment(h)
  <2>1. Return(h) /\ UNCHANGED cachedPrd /\ (DeletePRD \/ UNCHANGED <<prd, fresh>>)
    BY <1>8 DEF DeletePRDeployment
  <2> QED BY <1>2, <2>1, DeleteCarries DEF KeepsUpdate, CopiesCarry
<1> QED BY <1>3, <1>4, <1>5, <1>6, <1>7, <1>8, <1>9 DEF HandlerStep

LEMMA NextCarries ==
    ASSUME TypeOK, CopiesCarry, [Next]_vars
    PROVE  KeepsUpdate /\ CopiesCarry'
<1> USE DEF clusterVars, prdeploymentVars, recVars, platformVars
<1>1. CASE OutsideMove \/ AppAdvances \/ Rebuild \/ RemoveGitRepo \/ Requeue \/ UNCHANGED vars
  <2>1. UNCHANGED <<prd, cachedPrd, fresh, rec, handler>>
    BY <1>1 DEF OutsideMove, AppAdvances, Rebuild, RemoveGitRepo, Requeue, TimerFires, vars
  <2> QED BY <2>1 DEF KeepsUpdate, CopiesCarry
<1>2. CASE GarbageCollect
  <2>1. DeletePRD /\ UNCHANGED <<cachedPrd, rec, handler>>
    BY <1>2 DEF GarbageCollect
  <2> QED BY <2>1, DeleteCarries
\* A handler that begins or fetches holds no copy yet.
<1>3. ASSUME UNCHANGED <<prd, cachedPrd, fresh, rec>>,
             \A h \in Handlers : handler'[h].pc \notin {"deleteApp", "update"}
                                   \/ handler'[h] = handler[h]
      PROVE  KeepsUpdate /\ CopiesCarry'
  BY <1>3 DEF KeepsUpdate, CopiesCarry
<1>4. DOMAIN handler = Handlers
  BY DEF TypeOK, HandleEventTypeOK
<1>5. CASE Deliver
  <2>1. UNCHANGED <<prd, cachedPrd, fresh, rec>>
    BY <1>5 DEF Deliver
  <2>2. CASE UNCHANGED handler
    BY <1>3, <2>1, <2>2
  <2>3. ASSUME NEW e, NEW h \in Handlers, Receive(h, e)
        PROVE  KeepsUpdate /\ CopiesCarry'
    <3>1. handler' = [handler EXCEPT ![h] = IdleHandler]
          \/ handler' = [handler EXCEPT ![h] = [pc |-> Route(e), event |-> e, obj |-> None]]
      BY <2>3 DEF Receive, Return, Proceed
    <3>2. IdleHandler.pc = "idle" /\ Route(e) \notin {"deleteApp", "update"}
      BY DEF IdleHandler, Route
    <3>3. \A g \in Handlers : handler'[g].pc \notin {"deleteApp", "update"}
                               \/ handler'[g] = handler[g]
      BY <1>4, <3>1, <3>2
    <3> QED BY <1>3, <2>1, <3>3
  <2> QED BY <1>5, <2>2, <2>3 DEF Deliver
<1>6. ASSUME NEW h \in Handlers, Handle(h)
      PROVE  KeepsUpdate /\ CopiesCarry'
  <2>1. UNCHANGED rec
    BY <1>6 DEF Handle
  <2>2. CASE HandlerStep(h)
    BY <2>1, <2>2, HandlerCarries
  <2>3. CASE FetchHead(h, pull.headSHA, pull.cloneURL)
    <3>1. UNCHANGED <<prd, cachedPrd, fresh>>
      BY <2>3 DEF FetchHead
    <3>2. \E e : \/ handler' = [handler EXCEPT ![h] = IdleHandler]
                 \/ handler' = [handler EXCEPT ![h] = [pc |-> "upsert", event |-> e, obj |-> None]]
      BY <2>3 DEF FetchHead, Return, Proceed
    <3>3. \A g \in Handlers : handler'[g].pc \notin {"deleteApp", "update"}
                               \/ handler'[g] = handler[g]
      BY <1>4, <3>2 DEF IdleHandler
    <3> QED BY <1>3, <2>1, <3>1, <3>3
  <2> QED BY <1>6, <2>2, <2>3 DEF Handle
<1>7. CASE Reconcile
  BY <1>7, ReconcileCarries DEF Reconcile
<1>8. CASE Observe
  <2>1. UNCHANGED <<prd, rec, handler>>
    BY <1>8 DEF Observe, ObservePRD, SyncPRD, ObserveApp, SyncApp
  <2>2. \/ cachedPrd' = prd /\ fresh' = fresh \cup {"cache"}
        \/ UNCHANGED <<cachedPrd, fresh>>
    BY <1>8 DEF Observe, ObservePRD, SyncPRD, ObserveApp, SyncApp
  <2> QED BY <2>1, <2>2, ClusterAssumption DEF KeepsUpdate, CopiesCarry, SameSpec
<1>9. CASE Restart
  <2>1. /\ UNCHANGED prd /\ cachedPrd' = prd /\ fresh' = {"cache"}
        /\ rec' = Idle
    BY <1>9 DEF Restart
  <2>2. rec'.pc = "idle" /\ \A h \in Handlers : h \notin fresh'
    BY <2>1, ClusterAssumption DEF Idle
  <2> QED BY <2>1, <2>2 DEF KeepsUpdate, CopiesCarry, SameSpec
<1> QED BY <1>1, <1>2, <1>5, <1>6, <1>7, <1>8, <1>9 DEF Next

\* The reconciler's writes never undo the head commit or the clone URL that a handler
\* stored, and no handler's write undoes the finalizer that the reconciler stored.
THEOREM NothingLost == Spec => NoLostUpdate
<1>1. Init => CopiesCarry
  BY DEF Init, ClusterInit, CopiesCarry
<1>2. TypeOK /\ CopiesCarry /\ [Next]_vars => CopiesCarry'
  BY NextCarries
<1>3. TypeOK /\ CopiesCarry /\ [Next]_vars =>
        [ prd # None /\ prd' # None =>
            /\ prd.finalizer => prd'.finalizer
            /\ UNCHANGED handler => /\ prd'.headSHA = prd.headSHA
                                    /\ prd'.cloneURL = prd.cloneURL ]_vars
  BY NextCarries DEF KeepsUpdate
<1> QED BY <1>1, <1>2, <1>3, InitType, NextType, PTL DEF Spec, NoLostUpdate

-----------------------------------------------------------------------------
(* FlagAfterPost *)

\* The flags that p carries are those of comments that were posted or lost.
Posted(p) ==
    p # None => /\ p.notifiedDeploy => Announced("deploy")
                /\ p.notifiedError => Announced("error")

\* The object, and every copy that a status write may store.
FlagsPosted ==
    Posted(prd) /\ Posted(cachedPrd) /\ (rec.pc # "idle" => Posted(rec.obj))

FlagsOf(p, q) == p.notifiedDeploy = q.notifiedDeploy /\ p.notifiedError = q.notifiedError

LEMMA StoredFlags ==
    ASSUME NEW p \in PRDs, NEW q \in PRDs, NEW w, Store(w, WithStatusOf(p, q))
    PROVE  FlagsOf(prd', q)
BY DEF Store, Serialised, WithStatusOf, FlagsOf, PRDs

LEMMA WithStatusFlags ==
    ASSUME NEW p \in PRDs, NEW s, NEW m, NEW c
    PROVE  FlagsOf(WithStatus(p, s, m, c), p)
BY DEF WithStatus, FlagsOf, PRDs

\* A step that posts nothing and takes each flag from an object that has it.
LEMMA FlagsKept ==
    ASSUME FlagsPosted, UNCHANGED <<comments, dropped>>,
           prd' # None => \/ prd # None /\ FlagsOf(prd', prd)
                          \/ rec.pc # "idle" /\ rec.obj # None /\ FlagsOf(prd', rec.obj)
                          \/ ~prd'.notifiedDeploy /\ ~prd'.notifiedError,
           cachedPrd' # None => \/ cachedPrd # None /\ FlagsOf(cachedPrd', cachedPrd)
                                \/ cachedPrd' = prd,
           rec'.pc # "idle" => \/ rec.pc # "idle" /\ rec.obj # None /\ FlagsOf(rec'.obj, rec.obj)
                               \/ rec'.obj = cachedPrd
    PROVE  FlagsPosted'
BY DEF FlagsPosted, Posted, Announced, FlagsOf

\* A write of the reconciler, or its refusal.
LEMMA WriteFlags ==
    ASSUME TypeOK, FlagsPosted, UNCHANGED <<comments, dropped>>, rec.pc # "idle",
           NEW p \in PRDs, FlagsOf(p, rec.obj),
           \/ Update("reconciler", p)
           \/ UpdateStatus("reconciler", p)
           \/ Rejected("reconciler"),
           rec'.pc # "idle" => FlagsOf(rec'.obj, rec.obj),
           \/ cachedPrd' = cachedPrd
           \/ cachedPrd # None /\ FlagsOf(cachedPrd', cachedPrd)
    PROVE  FlagsPosted'
<1>1. rec.obj # None
  BY RecFields, ClusterAssumption
<1>2. prd' # None => \/ prd # None /\ FlagsOf(prd', prd)
                     \/ FlagsOf(prd', rec.obj)
  <2>1. CASE UNCHANGED prd
    BY <2>1 DEF FlagsOf
  <2>2. CASE \/ Current("reconciler") /\ Store("reconciler", WithStatusOf(p, prd))
             \/ Current("reconciler") /\ Store("reconciler", WithStatusOf(prd, p))
    <3>1. prd \in PRDs /\ prd # None
      BY <2>2 DEF Current, TypeOK, ClusterTypeOK
    <3> QED BY <2>2, <3>1, StoredFlags DEF FlagsOf
  <2> QED BY <2>1, <2>2 DEF Update, UpdateStatus, Rejected
<1> QED BY <1>1, <1>2, FlagsKept DEF FlagsOf

\* A comment is counted, or its loss is; none is forgotten.
LEMMA PostAnnounces ==
    ASSUME TypeOK, NEW kind \in Kinds, PostComment(kind)
    PROVE  /\ Announced(kind)'
           /\ \A k \in Kinds : Announced(k) => Announced(k)'
<1>1. comments \in [Kinds -> Nat]
  BY CommentAssumption DEF TypeOK, PRDeploymentTypeOK
<1>2. CASE UNCHANGED comments /\ dropped' = dropped \cup {kind}
  BY <1>2 DEF Announced
<1>3. CASE kind \notin NotifyKinds /\ UNCHANGED <<comments, dropped>>
  BY <1>3 DEF Announced
<1>4. CASE /\ comments' = [comments EXCEPT ![kind] = IF @ < MaxComments THEN @ + 1 ELSE @]
           /\ UNCHANGED dropped
  <2>1. comments'[kind] > 0 /\ \A k \in Kinds : comments[k] > 0 => comments'[k] > 0
    BY <1>1, <1>4, CommentAssumption
  <2> QED BY <1>4, <2>1 DEF Announced
<1> QED BY <1>2, <1>3, <1>4 DEF PostComment

LEMMA NotifyFlags ==
    ASSUME TypeOK, FlagsPosted, NotifyReady \/ NotifyFailed
    PROVE  FlagsPosted'
<1>1. rec.pc # "idle" /\ rec.obj \in PRDs /\ UNCHANGED <<prd, cachedPrd>>
  <2>1. rec.pc # "idle"
    BY DEF NotifyReady, NotifyFailed, At
  <2> QED BY <2>1, RecFields DEF NotifyReady, NotifyFailed
<1>2. "deploy" \in Kinds /\ "error" \in Kinds
  BY DEF Kinds
<1>3. CASE NotifyReady
  <2>1. PostComment("deploy")
    BY <1>3 DEF NotifyReady
  <2>2. rec'.obj = [rec.obj EXCEPT !.notifiedDeploy = TRUE, !.state = "running",
                                   !.appPhase = rec.app.phase, !.commit = rec.app.commit]
    BY <1>3 DEF NotifyReady, Continue, Go
  <2>3. rec'.obj.notifiedError = rec.obj.notifiedError
    BY <1>1, <2>2 DEF PRDs
  <2>4. Announced("deploy")' /\ (Announced("error") => Announced("error")')
    BY <1>2, <2>1, PostAnnounces
  <2> QED BY <1>1, <2>3, <2>4, ClusterAssumption DEF FlagsPosted, Posted
<1>4. CASE NotifyFailed
  <2>1. PostComment("error")
    BY <1>4 DEF NotifyFailed
  <2>2. rec'.obj = [rec.obj EXCEPT !.notifiedError = TRUE, !.state = "error",
                                   !.appPhase = rec.app.phase]
    BY <1>4 DEF NotifyFailed, Continue, Go
  <2>3. rec'.obj.notifiedDeploy = rec.obj.notifiedDeploy
    BY <1>1, <2>2 DEF PRDs
  <2>4. Announced("error")' /\ (Announced("deploy") => Announced("deploy")')
    BY <1>2, <2>1, PostAnnounces
  <2> QED BY <1>1, <2>3, <2>4, ClusterAssumption DEF FlagsPosted, Posted
<1> QED BY <1>3, <1>4

LEMMA ReconcileFlags ==
    ASSUME TypeOK, FlagsPosted, ReconcileStep
    PROVE  FlagsPosted'
<1> DEFINE R == "reconciler"
<1>0. rec.pc # "idle" => rec.obj \in PRDs /\ rec.obj # None
  BY RecFields, ClusterAssumption
<1>1. CASE \/ ReconcileGone \/ ParentMissing \/ AwaitApp
           \/ CreateApp \/ ReportBuild \/ ReportPending \/ ReportOutcome \/ NothingToNotify
           \/ LookupApp \/ DeleteApp
  <2>1. UNCHANGED <<prd, cachedPrd, comments, dropped>>
    BY <1>1 DEF ReconcileGone, ParentMissing, AwaitApp, CreateApp, ReportBuild, ReportPending,
       ReportOutcome, NothingToNotify, LookupApp, DeleteApp, clusterVars, reportVars
  <2>2. rec'.pc # "idle" => rec.pc # "idle" /\ rec'.obj = rec.obj
    BY <1>1 DEF ReconcileGone, ParentMissing, AwaitApp, CreateApp, ReportBuild, ReportPending,
       ReportOutcome, NothingToNotify, LookupApp, DeleteApp, Dequeue, At, Continue, Go, Done,
       Later, Fail, Idle
  <2> QED BY <2>1, <2>2 DEF FlagsPosted, Posted, Announced
<1>2. CASE NotifyReady \/ NotifyFailed
  BY <1>2, NotifyFlags
<1>3. CASE StartDelete \/ StartCreate \/ StartSync
  <2>1. PICK pc : Start(pc)
    BY <1>3 DEF StartDelete, StartCreate, StartSync
  <2>2. UNCHANGED <<prd, cachedPrd, comments, dropped>> /\ rec'.obj = cachedPrd
    BY <2>1 DEF Start, Go, reportVars
  <2> QED BY <2>2 DEF FlagsPosted, Posted, Announced
<1>4. CASE AddFinalizer
  <2> DEFINE p == [cachedPrd EXCEPT !.finalizer = TRUE]
  <2>1. /\ cachedPrd \in PRDs /\ UNCHANGED <<rec, cachedPrd, comments, dropped>>
        /\ GetAndUpdate(R, p)
    BY <1>4 DEF AddFinalizer, recVars, reportVars, TypeOK, ClusterTypeOK
  <2>2. p \in PRDs
    BY <2>1 DEF PRDs
  <2> HIDE DEF p
  <2>3. prd' # None => prd # None /\ FlagsOf(prd', prd)
    <3>1. CASE UNCHANGED prd
      BY <3>1 DEF FlagsOf
    <3>2. CASE Current("cache") /\ Store(R, WithStatusOf(p, prd))
      <4>1. prd \in PRDs /\ prd # None
        BY <3>2 DEF Current, TypeOK, ClusterTypeOK
      <4> QED BY <2>2, <3>2, <4>1, StoredFlags
    <3> QED BY <2>1, <3>1, <3>2 DEF GetAndUpdate, Rejected
  <2> QED BY <2>1, <2>3 DEF FlagsPosted, Posted, Announced, FlagsOf
<1>5. CASE RecordFailure
  <2> DEFINE p == WithStatus(rec.obj, "error", "App CR not created", None)
  <2>1. /\ rec.pc # "idle" /\ UNCHANGED <<cachedPrd, comments, dropped>>
        /\ UpdateStatus(R, p) \/ Rejected(R)
    BY <1>5 DEF RecordFailure, At, reportVars
  <2>2. rec' = Idle \/ rec' = [pc |-> "reportBuild", obj |-> p, app |-> rec.app]
    BY <1>5 DEF RecordFailure, Continue, Go, Done
  <2>3. p \in PRDs /\ FlagsOf(p, rec.obj)
    <3>1. "error" \in States /\ "App CR not created" \in Messages /\ None \in SHAs \cup {None}
      BY DEF States, Messages
    <3> QED BY <1>0, <2>1, <3>1, WithStatusType, WithStatusFlags
  <2> HIDE DEF p
  <2>4. rec'.pc # "idle" => FlagsOf(rec'.obj, rec.obj)
    BY <2>2, <2>3 DEF Idle
  <2> QED BY <2>1, <2>3, <2>4, WriteFlags
<1>6. CASE RecordDeploying
  <2> DEFINE p == WithStatus(rec.obj, "deploying", "App CR created", None)
  <2>1. /\ rec.pc # "idle" /\ UNCHANGED <<cachedPrd, comments, dropped>>
        /\ UpdateStatus(R, p) \/ Rejected(R)
    BY <1>6 DEF RecordDeploying, At, reportVars
  <2>2. rec' = Idle
    BY <1>6 DEF RecordDeploying, Later, Fail
  <2>3. p \in PRDs /\ FlagsOf(p, rec.obj)
    <3>1. "deploying" \in States /\ "App CR created" \in Messages /\ None \in SHAs \cup {None}
      BY DEF States, Messages
    <3> QED BY <1>0, <2>1, <3>1, WithStatusType, WithStatusFlags
  <2> HIDE DEF p
  <2>4. rec'.pc = "idle"
    BY <2>2 DEF Idle
  <2> QED BY <2>1, <2>3, <2>4, WriteFlags
<1>7. CASE Mirror
  <2> DEFINE p == WithStatus(rec.obj, StateOf(rec.app.phase), rec.app.phase, rec.app.commit)
  <2>1. /\ rec.pc = "mirror" /\ UNCHANGED <<cachedPrd, comments, dropped>>
        /\ UpdateStatus(R, p) \/ Rejected(R)
    BY <1>7 DEF Mirror, At, reportVars
  <2>2. rec' = Idle \/ rec' = [pc |-> "notify", obj |-> p, app |-> rec.app]
    BY <1>7 DEF Mirror, Continue, Go, Fail
  <2>3. rec.app \in Apps
    BY <2>1, RecFields
  <2>4. p \in PRDs /\ FlagsOf(p, rec.obj)
    BY <1>0, <2>1, <2>3, StateOfType, WithStatusType, WithStatusFlags DEF Apps
  <2> HIDE DEF p
  <2>5. rec'.pc # "idle" => FlagsOf(rec'.obj, rec.obj)
    BY <2>2, <2>4 DEF Idle
  <2> QED BY <2>1, <2>4, <2>5, WriteFlags
<1>8. CASE RecordNotified
  <2>1. /\ rec.pc # "idle" /\ UNCHANGED <<cachedPrd, comments, dropped>> /\ rec'.pc = "idle"
        /\ UpdateStatus(R, rec.obj) \/ Rejected(R)
    BY <1>8 DEF RecordNotified, At, Later, Fail, Idle, reportVars
  <2> QED BY <1>0, <2>1, WriteFlags DEF FlagsOf
<1>9. CASE Annotate
  <2> DEFINE p == [rec.obj EXCEPT !.created = "true"]
  <2>1. /\ rec.pc # "idle" /\ UNCHANGED <<comments, dropped>>
        /\ Update(R, p) \/ Rejected(R)
    BY <1>9 DEF Annotate, At, reportVars
  <2>2. rec' = Idle \/ rec' = [pc |-> "pend", obj |-> p, app |-> rec.app]
    BY <1>9 DEF Annotate, Continue, Go, Fail
  <2>3. p \in PRDs /\ FlagsOf(p, rec.obj)
    BY <1>0, <2>1 DEF FlagsOf, PRDs
  <2>4. \/ cachedPrd' = cachedPrd
        \/ cachedPrd # None /\ FlagsOf(cachedPrd', cachedPrd)
    <3>1. R \in shared => cachedPrd \in PRDs /\ cachedPrd # None
      BY DEF TypeOK, ClusterTypeOK
    <3>2. cachedPrd \in PRDs => FlagsOf([cachedPrd EXCEPT !.created = "true"], cachedPrd)
      BY DEF FlagsOf, PRDs
    <3> QED BY <1>9, <3>1, <3>2 DEF Annotate
  <2> HIDE DEF p
  <2>5. rec'.pc # "idle" => FlagsOf(rec'.obj, rec.obj)
    BY <2>2, <2>3 DEF Idle
  <2> QED BY <2>1, <2>3, <2>4, <2>5, WriteFlags
<1>10. CASE RemoveFinalizer
  <2>1. /\ rec'.pc = "idle" /\ UNCHANGED <<cachedPrd, comments, dropped>>
        /\ prd' = None \/ prd' = prd
    BY <1>10 DEF RemoveFinalizer, Rejected, Done, Fail, Idle, reportVars
  <2> QED BY <2>1 DEF FlagsPosted, Posted, Announced
<1> QED BY <1>1, <1>2, <1>3, <1>4, <1>5, <1>6, <1>7, <1>8, <1>9, <1>10 DEF ReconcileStep

\* A handler's Update leaves the status to the API server, which keeps the one stored.
LEMMA HandlerFlags ==
    ASSUME TypeOK, FlagsPosted, NEW h \in Handlers, HandlerStep(h),
           UNCHANGED <<rec, comments, dropped>>
    PROVE  FlagsPosted'
<1>0. prd \in PRDs \cup {None} /\ cachedPrd \in PRDs \cup {None}
  BY DEF TypeOK, ClusterTypeOK
<1>1. handler[h].pc # "idle" /\ handler[h].event \in Events
  BY ServingFields DEF HandlerStep, EnsureNamespace, CreatePRDeployment, UpdateHead, StartReclone,
     DeleteOldApp, UpdateClone, DeletePRDeployment, Serving
<1>2. ASSUME UNCHANGED cachedPrd, prd' # None => prd # None /\ FlagsOf(prd', prd)
      PROVE  FlagsPosted'
  BY <1>2 DEF FlagsPosted, Posted, Announced, FlagsOf
<1>3. ASSUME NEW p \in PRDs, UNCHANGED cachedPrd, Current("cache") \/ Current(h),
             Store(h, WithStatusOf(p, prd))
      PROVE  FlagsPosted'
  <2>1. prd \in PRDs /\ prd # None
    BY <1>0, <1>3 DEF Current
  <2> QED BY <1>2, <1>3, <2>1, StoredFlags
<1>4. ASSUME UNCHANGED <<prd, cachedPrd>>
      PROVE  FlagsPosted'
  BY <1>4 DEF FlagsPosted, Posted, Announced
<1>5. CASE CreatePRDeployment(h)
  <2>1. UNCHANGED cachedPrd
    BY <1>5 DEF CreatePRDeployment
  <2>2. CASE UNCHANGED prd
    BY <1>4, <2>1, <2>2
  <2>3. CASE prd' = NewPRD(handler[h].event.headSHA, handler[h].event.cloneURL)
    <3>1. ~prd'.notifiedDeploy /\ ~prd'.notifiedError
      BY <2>3 DEF NewPRD
    <3> QED BY <2>1, <3>1 DEF FlagsPosted, Posted, Announced
  <2> QED BY <1>5, <2>2, <2>3 DEF CreatePRDeployment
<1>6. CASE UpdateHead(h)
  <2> DEFINE p == WithEvent(cachedPrd, handler[h].event)
  <2>1. /\ cachedPrd \in PRDs /\ UNCHANGED cachedPrd
        /\ GetAndUpdate(h, p) \/ UNCHANGED <<prd, fresh>>
    BY <1>0, <1>6 DEF UpdateHead
  <2>2. p \in PRDs
    BY <1>1, <2>1, WithEventType
  <2> HIDE DEF p
  <2> QED BY <1>3, <1>4, <2>1, <2>2 DEF GetAndUpdate, Rejected
<1>7. CASE StartReclone(h) \/ EnsureNamespace(h)
  BY <1>4, <1>7 DEF StartReclone, EnsureNamespace
<1>8. CASE DeleteOldApp(h)
  <2>1. UNCHANGED prd
    BY <1>8 DEF DeleteOldApp
  <2>2. cachedPrd' = cachedPrd \/ (h \in shared /\ cachedPrd' = ClearCreated(cachedPrd))
    BY <1>8 DEF DeleteOldApp, EmptyAnnotation
  <2>3. h \in shared => cachedPrd \in PRDs /\ cachedPrd # None
    BY DEF TypeOK, ClusterTypeOK
  <2>4. cachedPrd \in PRDs => FlagsOf(ClearCreated(cachedPrd), cachedPrd)
    BY DEF ClearCreated, FlagsOf, PRDs
  <2> QED BY <2>1, <2>2, <2>3, <2>4 DEF FlagsPosted, Posted, Announced, FlagsOf
<1>9. CASE UpdateClone(h)
  <2>1. /\ handler[h].obj \in PRDs /\ UNCHANGED cachedPrd
        /\ Update(h, handler[h].obj) \/ Rejected(h)
    BY <1>9, ServingFields DEF UpdateClone, Serving
  <2> QED BY <1>3, <1>4, <2>1 DEF Update, Rejected
<1>10. CASE DeletePRDeployment(h)
  <2>1. UNCHANGED cachedPrd /\ (DeletePRD \/ UNCHANGED prd)
    BY <1>10 DEF DeletePRDeployment
  <2> QED BY <1>0, <1>2, <1>4, <2>1 DEF DeletePRD, FlagsOf, PRDs
<1> QED BY <1>5, <1>6, <1>7, <1>8, <1>9, <1>10 DEF HandlerStep

LEMMA NextFlags ==
    ASSUME TypeOK, FlagsPosted, [Next]_vars
    PROVE  FlagsPosted'
<1> USE DEF clusterVars, prdeploymentVars, recVars, reportVars, platformVars
<1>0. prd \in PRDs \cup {None}
  BY DEF TypeOK, ClusterTypeOK
<1>1. ASSUME UNCHANGED <<prd, cachedPrd, rec, comments, dropped>>
      PROVE  FlagsPosted'
  BY <1>1 DEF FlagsPosted, Posted, Announced
<1>2. CASE \/ OutsideMove \/ AppAdvances \/ Rebuild \/ RemoveGitRepo \/ Requeue \/ Deliver
           \/ UNCHANGED vars
  <2>1. UNCHANGED <<prd, cachedPrd, rec, comments, dropped>>
    BY <1>2 DEF OutsideMove, AppAdvances, Rebuild, RemoveGitRepo, Requeue, TimerFires, Deliver, vars
  <2> QED BY <1>1, <2>1
<1>3. CASE GarbageCollect
  <2>1. DeletePRD /\ UNCHANGED <<cachedPrd, rec, comments, dropped>>
    BY <1>3 DEF GarbageCollect
  <2>2. prd' # None => prd # None /\ FlagsOf(prd', prd)
    BY <1>0, <2>1 DEF DeletePRD, FlagsOf, PRDs
  <2> QED BY <2>1, <2>2 DEF FlagsPosted, Posted, Announced, FlagsOf
<1>4. ASSUME NEW h \in Handlers, Handle(h)
      PROVE  FlagsPosted'
  <2>1. UNCHANGED <<rec, comments, dropped>>
    BY <1>4 DEF Handle
  <2>2. CASE HandlerStep(h)
    BY <2>1, <2>2, HandlerFlags
  <2>3. CASE FetchHead(h, pull.headSHA, pull.cloneURL)
    <3>1. UNCHANGED <<prd, cachedPrd>>
      BY <2>3 DEF FetchHead
    <3> QED BY <1>1, <2>1, <3>1
  <2> QED BY <1>4, <2>2, <2>3 DEF Handle
<1>5. CASE Reconcile
  BY <1>5, ReconcileFlags DEF Reconcile
<1>6. CASE Observe \/ Restart
  <2>1. UNCHANGED <<prd, comments, dropped>> /\ cachedPrd' \in {prd, cachedPrd}
    BY <1>6 DEF Observe, ObservePRD, SyncPRD, ObserveApp, SyncApp, Restart
  <2>2. rec' = rec \/ rec' = Idle
    BY <1>6 DEF Observe, ObservePRD, SyncPRD, ObserveApp, SyncApp, Restart
  <2> QED BY <2>1, <2>2 DEF FlagsPosted, Posted, Announced, Idle
<1> QED BY <1>2, <1>3, <1>4, <1>5, <1>6 DEF Next

\* A flag is stored only after its comment was posted, whatever crash, conflict or old
\* copy lies between; or after a request for it had failed.
THEOREM PostedFirst == Spec => []FlagAfterPost
<1>1. Init => FlagsPosted
  BY DEF Init, ClusterInit, PRDeploymentInit, Idle, FlagsPosted, Posted
<1>2. TypeOK /\ FlagsPosted /\ [Next]_vars => FlagsPosted'
  BY NextFlags
<1>3. FlagsPosted => FlagAfterPost
  BY DEF FlagsPosted, Posted, FlagAfterPost
<1> QED BY <1>1, <1>2, <1>3, InitType, NextType, PTL DEF Spec
=============================================================================
