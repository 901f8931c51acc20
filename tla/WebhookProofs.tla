--------------------------- MODULE WebhookProofs ----------------------------
(***************************************************************************)
(* Proofs about WebhookRegistration: the hook a GitRepo records exists, is *)
(* served and is never replaced, and no route outlives its GitRepo.        *)
(***************************************************************************)
EXTENDS WebhookRegistration, TLAPS

LEMMA HookFaultType ==
  ASSUME TypeOK, NEW kind, Fault(kind) \/ NoFault
  PROVE  faults' \in 0..MaxFaults
  <1>1. MaxFaults \in Nat /\ faults \in 0..MaxFaults
    BY WebhookAssumption DEF TypeOK
  <1> QED
    BY <1>1 DEF Fault, NoFault

LEMMA HookMoveType ==
  ASSUME TypeOK, NEW kind, Move(kind)
  PROVE  moves' \in 0..MaxMoves
  BY WebhookAssumption DEF TypeOK, Move

\* Only three copies of the GitRepo carry an ID at a time, so a new one is left.
LEMMA NewHookID == TypeOK => NewID \in HookIds /\ NewID \notin Carried
  <1> SUFFICES ASSUME TypeOK PROVE \E id \in HookIds : id \notin Carried
    BY DEF NewID
  <1> DEFINE ID(g) == IF g = None THEN None ELSE g.hookID
  <1>1. ID(gr) \in HookIds \cup {None} /\ ID(cached) \in HookIds \cup {None}
          /\ ID(rec.obj) \in HookIds \cup {None}
    BY DEF TypeOK, GitRepos
  <1>2. PICK id \in HookIds : id \notin {ID(gr), ID(cached), ID(rec.obj)}
    <2>1. HookIds \ {ID(gr), ID(cached), ID(rec.obj)} # {}
      <3> HIDE DEF ID
      <3> QED
        BY <1>1, WebhookAssumption
    <2> QED
      BY <2>1
  <1>3. id \notin Carried
    BY <1>2 DEF Carried
  <1> QED
    BY <1>3

\* A GitRepo as its user creates it.
LEMMA NewGitRepoType ==
  ASSUME NEW g \in NewGitRepos
  PROVE  g \in GitRepos /\ g.hookID = None /\ ~g.deleting
  <1>1. [phase |-> "", hook |-> ""] \in Statuses
    BY DEF Statuses
  <1> QED
    BY <1>1 DEF NewGitRepos, GitRepos

LEMMA WebhookTypeInit == Init => TypeOK
  <1> SUFFICES ASSUME Init PROVE TypeOK
    OBVIOUS
  <1>1. gr \in GitRepos
    BY NewGitRepoType DEF Init
  <1>2. moves \in 0..MaxMoves /\ faults \in 0..MaxFaults
    <2>1. MaxMoves \in Nat /\ MaxFaults \in Nat
      BY WebhookAssumption
    <2> QED
      BY <2>1 DEF Init
  <1>3. rec \in [pc : RecPCs, obj : GitRepos \cup {None}] /\ rec.pc = "idle"
    BY DEF Init, Idle, RecPCs
  <1> QED
    BY <1>1, <1>2, <1>3 DEF Init, TypeOK

\* A copy of a GitRepo whose status or hook is set is a GitRepo.
LEMMA CopyType ==
  ASSUME NEW g \in GitRepos
  PROVE  /\ g # None
         /\ \A id \in HookIds : [g EXCEPT !.hookID = id] \in GitRepos
         /\ \A id \in HookIds :
              [g EXCEPT !.hookID = id, !.status.hook = "registered"] \in GitRepos
         /\ \A h \in {"", "manual", "failed", "registered"} :
              [g EXCEPT !.status.hook = h] \in GitRepos
         /\ \A s \in Statuses : [g EXCEPT !.status = s] \in GitRepos
         /\ Erroneous(g) \in GitRepos /\ Failed(g) \in GitRepos
  BY WebhookAssumption DEF GitRepos, Statuses, Erroneous, Failed

LEMMA StateType ==
  ASSUME NEW g \in GitRepos
  PROVE  /\ WebhookState(g).pc \in {"register", "ready"}
         /\ WebhookState(g).obj \in GitRepos /\ WebhookState(g).obj # None
         /\ WebhookState(g) \in [pc : RecPCs, obj : GitRepos \cup {None}]
         /\ WebhookState(g).pc = "register" =>
              g.secret /\ g.hookID = None /\ WebhookState(g).obj = g
         /\ WebhookState(g).obj.path = g.path
         /\ WebhookState(g).obj.hookID = g.hookID
         /\ WebhookState(g).obj.finalizer = g.finalizer
         /\ WebhookState(g).obj.deleting = g.deleting
  <1>1. CASE g.hookID = None /\ g.secret
    BY <1>1, CopyType DEF WebhookState, RecPCs
  <1>2. CASE g.hookID # None
    BY <1>2, CopyType DEF WebhookState, RecPCs, GitRepos
  <1>3. CASE g.hookID = None /\ ~g.secret
    BY <1>3, CopyType DEF WebhookState, RecPCs, GitRepos
  <1> QED
    BY <1>1, <1>2, <1>3

LEMMA StartType == TypeOK /\ (ReconcileGone \/ StartWebhook \/ StartDelete) => TypeOK'
  <1> SUFFICES ASSUME TypeOK, ReconcileGone \/ StartWebhook \/ StartDelete PROVE TypeOK'
    OBVIOUS
  <1>1. CASE ReconcileGone
    BY <1>1 DEF TypeOK, ReconcileGone, Read
  <1>2. CASE StartWebhook
    <2>1. cached \in GitRepos /\ cached.path \in Paths
      BY <1>2 DEF TypeOK, StartWebhook, Accepted, GitRepos
    <2>2. routes' \subseteq Paths
      BY <1>2, <2>1 DEF TypeOK, StartWebhook
    <2>3. rec' = WebhookState(cached)
      BY <1>2 DEF StartWebhook
    <2>4. /\ rec' \in [pc : RecPCs, obj : GitRepos \cup {None}] /\ rec'.obj # None
          /\ rec'.pc = "register" => rec'.obj.secret /\ rec'.obj.hookID = None
          /\ rec'.pc \notin {"record", "deregister"}
      <3> HIDE <2>3
      <3> QED
        BY <2>1, <2>3, StateType
    <2> QED
      BY <1>2, <2>2, <2>4 DEF TypeOK, StartWebhook, Read
  <1>3. CASE StartDelete
    BY <1>3 DEF TypeOK, StartDelete, Read, Proceed, RecPCs
  <1> QED
    BY <1>1, <1>2, <1>3

LEMMA FinalizerType == TypeOK /\ (AddFinalizer \/ RemoveFinalizer) => TypeOK'
  <1> SUFFICES ASSUME TypeOK, AddFinalizer \/ RemoveFinalizer PROVE TypeOK'
    OBVIOUS
  <1>1. CASE AddFinalizer
    <2>1. faults' \in 0..MaxFaults
      BY <1>1, HookFaultType DEF AddFinalizer, Rejected
    <2>2. gr' \in GitRepos \cup {None} /\ fresh' \subseteq {"cache", "reconciler"}
      BY <1>1 DEF TypeOK, AddFinalizer, Current, Store, Rejected, GitRepos
    <2> QED
      BY <1>1, <2>1, <2>2 DEF TypeOK, AddFinalizer, queueVars
  <1>2. CASE RemoveFinalizer
    <2>1. faults' \in 0..MaxFaults
      BY <1>2, HookFaultType DEF RemoveFinalizer, Rejected
    <2>2. /\ rec' = Idle /\ rec' \in [pc : RecPCs, obj : GitRepos \cup {None}]
          /\ rec'.pc = "idle"
      BY <1>2 DEF RemoveFinalizer, Done, Fail, Idle, RecPCs
    <2>3. gr' \in GitRepos \cup {None} /\ fresh' \subseteq {"cache", "reconciler"}
      BY <1>2 DEF TypeOK, RemoveFinalizer, Rejected
    <2>4. queued' \in BOOLEAN /\ timer' \in BOOLEAN
      BY <1>2 DEF TypeOK, RemoveFinalizer, Done, Fail, queueVars
    <2> QED
      BY <1>2, <2>1, <2>2, <2>3, <2>4 DEF TypeOK, RemoveFinalizer
  <1> QED
    BY <1>1, <1>2

LEMMA RegisterType == TypeOK /\ RegisterHook => TypeOK'
  <1> SUFFICES ASSUME TypeOK, RegisterHook PROVE TypeOK'
    OBVIOUS
  <1>1. faults' \in 0..MaxFaults
    BY HookFaultType DEF RegisterHook
  <1>2. rec.obj \in GitRepos /\ rec.obj.path \in Paths
    BY DEF TypeOK, RegisterHook, At, GitRepos
  <1>3. NewID \in HookIds /\ NewID # None
    BY NewHookID, WebhookAssumption
  <1>4. hooks' \subseteq Hooks
    BY <1>2, <1>3 DEF TypeOK, RegisterHook, IssueHook, Hooks
  <1>5. CASE Annotate(NewID)
    <2>1. cached' \in GitRepos \cup {None} /\ (cached' = None <=> cached = None)
      BY <1>3, <1>5, CopyType DEF TypeOK, Annotate
    <2>2. /\ rec'.pc = "record" /\ rec'.obj \in GitRepos /\ rec'.obj.hookID # None
          /\ rec' \in [pc : RecPCs, obj : GitRepos \cup {None}]
      <3> DEFINE g == [rec.obj EXCEPT !.hookID = NewID, !.status.hook = "registered"]
      <3>1. g \in GitRepos
        BY <1>2, <1>3, CopyType
      <3>2. g.hookID = NewID
        BY <1>2 DEF GitRepos
      <3>3. rec' = [pc |-> "record", obj |-> g]
        BY <1>5 DEF Annotate, Go
      <3> HIDE DEF g
      <3> QED
        BY <1>3, <3>1, <3>2, <3>3 DEF RecPCs
    <2> QED
      BY <1>1, <1>4, <1>5, <2>1, <2>2, WebhookAssumption DEF TypeOK, RegisterHook,
         Annotate, Go, queueVars
  <1>6. CASE /\ UNCHANGED cached
             /\ \/ Go("retry", Erroneous(rec.obj)) \/ Go("retry", Failed(rec.obj))
                \/ Go("refused", Erroneous(rec.obj))
    <2>1. Erroneous(rec.obj) \in GitRepos /\ Failed(rec.obj) \in GitRepos
      BY <1>2, CopyType
    <2>2. rec' \in [pc : {"retry", "refused"}, obj : GitRepos] /\ UNCHANGED queueVars
      BY <1>6, <2>1 DEF Go
    <2>3. /\ rec' \in [pc : RecPCs, obj : GitRepos \cup {None}]
          /\ rec'.pc \in {"retry", "refused"} /\ rec'.obj # None
      BY <2>2, WebhookAssumption DEF RecPCs
    <2> QED
      BY <1>1, <1>4, <1>6, <2>2, <2>3 DEF TypeOK, RegisterHook, queueVars
  <1> QED
    BY <1>5, <1>6 DEF RegisterHook

LEMMA RecordType == TypeOK /\ RecordHook => TypeOK'
  <1> SUFFICES ASSUME TypeOK, RecordHook PROVE TypeOK'
    OBVIOUS
  <1>1. faults' \in 0..MaxFaults
    BY HookFaultType DEF RecordHook, Update, Rejected
  <1>2. rec.obj \in GitRepos
    BY DEF TypeOK, RecordHook, At
  <1>3. CASE Update("reconciler", rec.obj) /\ Go("ready", Answered(rec.obj))
    <2>1. gr \in GitRepos /\ gr.status \in Statuses
      BY <1>3 DEF TypeOK, Update, Current, GitRepos
    <2>2. gr' \in GitRepos
      BY <1>2, <1>3, <2>1, CopyType DEF Update, Store
    <2>3. Answered(rec.obj) \in GitRepos /\ Answered(rec.obj) # None
      <3>1. gr.status.hook \in {"", "manual", "failed", "registered"}
              /\ rec.obj.status.hook \in {"", "manual", "failed", "registered"}
        BY <1>2, <2>1 DEF GitRepos, Statuses
      <3> QED
        BY <1>2, <3>1, CopyType DEF Answered
    <2> QED
      BY <1>1, <1>3, <2>2, <2>3 DEF TypeOK, RecordHook, Update, Store, Go, RecPCs,
         queueVars
  <1>4. CASE Rejected("reconciler") /\ Fail
    BY <1>1, <1>4 DEF TypeOK, RecordHook, Rejected, Fail, Idle, RecPCs
  <1> QED
    BY <1>3, <1>4 DEF RecordHook

LEMMA ReportType == TypeOK /\ ReportStatus => TypeOK'
  <1> SUFFICES ASSUME TypeOK, ReportStatus PROVE TypeOK'
    OBVIOUS
  <1>1. faults' \in 0..MaxFaults
    BY HookFaultType DEF ReportStatus, UpdateStatus, Rejected
  <1>2. rec.obj \in GitRepos
    BY DEF TypeOK, ReportStatus, At
  <1>3. gr' \in GitRepos \cup {None} /\ fresh' \subseteq {"cache", "reconciler"}
    <2>1. CASE Rejected("reconciler")
      BY <2>1 DEF TypeOK, Rejected
    <2>2. ASSUME NEW s \in Statuses, UpdateStatus("reconciler", s)
          PROVE  gr' \in GitRepos \cup {None} /\ fresh' \subseteq {"cache", "reconciler"}
      <3>1. gr \in GitRepos /\ [gr EXCEPT !.status = s] \in GitRepos
        BY <2>2, CopyType DEF TypeOK, UpdateStatus, Current
      <3> QED
        BY <2>2, <3>1 DEF TypeOK, UpdateStatus, Store
    <2>3. rec.obj.status \in Statuses /\ [rec.obj.status EXCEPT !.phase = "Ready"] \in Statuses
      BY <1>2 DEF GitRepos, Statuses
    <2> QED
      BY <2>1, <2>2, <2>3 DEF ReportStatus
  <1> QED
    <2>1. /\ rec' \in [pc : RecPCs, obj : GitRepos \cup {None}] /\ rec'.pc = "idle"
          /\ queued' \in BOOLEAN /\ timer' \in BOOLEAN
      <3>1. /\ rec' = Idle /\ Idle \in [pc : RecPCs, obj : GitRepos \cup {None}]
            /\ Idle.pc = "idle"
        BY DEF ReportStatus, Later, Done, Idle, RecPCs
      <3>2. queued' = queued /\ timer' \in {timer, TRUE}
        BY DEF ReportStatus, Later, Done, queueVars
      <3> QED
        BY <3>1, <3>2 DEF TypeOK
    <2> QED
      BY <1>1, <1>3, <2>1 DEF TypeOK, ReportStatus

LEMMA DeregisterType == TypeOK /\ DeregisterHook => TypeOK'
  <1> SUFFICES ASSUME TypeOK, DeregisterHook PROVE TypeOK'
    OBVIOUS
  <1>1. faults' \in 0..MaxFaults
    BY HookFaultType DEF DeregisterHook
  <1> QED
    BY <1>1 DEF TypeOK, DeregisterHook, At, Go, RecPCs, queueVars, storeVars

LEMMA WatchType == TypeOK /\ (Observe \/ Enqueue \/ TimerFires \/ Restart) => TypeOK'
  <1> SUFFICES ASSUME TypeOK, Observe \/ Enqueue \/ TimerFires \/ Restart PROVE TypeOK'
    OBVIOUS
  <1>1. CASE Observe
    BY <1>1 DEF TypeOK, Observe, queueVars
  <1>3. CASE Enqueue
    BY <1>3 DEF TypeOK, Enqueue
  <1>4. CASE TimerFires
    BY <1>4 DEF TypeOK, TimerFires, storeVars
  <1>2. CASE Restart
    <2>1. faults' \in 0..MaxFaults
      BY <1>2, HookFaultType DEF Restart
    <2> QED
      BY <1>2, <2>1 DEF TypeOK, Restart, Idle, RecPCs
  <1> QED
    BY <1>1, <1>2, <1>3, <1>4

LEMMA UserType == TypeOK /\ UserMove => TypeOK'
  <1> SUFFICES ASSUME TypeOK, UserMove PROVE TypeOK'
    OBVIOUS
  <1>1. moves' \in 0..MaxMoves
    BY HookMoveType DEF UserMove, Edit, Delete, Create
  <1>2. gr' \in GitRepos \cup {None} /\ fresh' = {}
    <2>2. CASE Create
      BY <2>2, NewGitRepoType DEF Create, Write
    <2>3. CASE Edit \/ Delete
      <3>1. gr \in GitRepos
        BY <2>3 DEF TypeOK, Edit, Delete
      <3>2. /\ [gr EXCEPT !.secret = ~@] \in GitRepos
            /\ [gr EXCEPT !.deleting = TRUE] \in GitRepos
            /\ \A p \in Paths : [gr EXCEPT !.path = p] \in GitRepos
        BY <3>1 DEF GitRepos
      <3> QED
        BY <2>3, <3>1, <3>2 DEF Edit, Delete, Write
    <2> QED
      BY <2>2, <2>3 DEF UserMove
  <1> QED
    BY <1>1, <1>2 DEF TypeOK, UserMove, queueVars

LEMMA WebhookTypeNext == TypeOK /\ [Next]_vars => TypeOK'
  <1> SUFFICES ASSUME TypeOK, [Next]_vars PROVE TypeOK'
    OBVIOUS
  <1>1. CASE UNCHANGED vars
    BY <1>1 DEF TypeOK, vars, storeVars, queueVars
  <1> QED
    BY <1>1, StartType, FinalizerType, RegisterType, RecordType, ReportType,
       DeregisterType,
       WatchType, UserType DEF Next, ReconcileStep

\* Every reachable state is well typed: a hook is registered only for a GitRepo that
\* carries no ID, and one is removed only by the ID it was recorded with.
THEOREM WebhookTypeCorrect == Spec => []TypeOK
  BY WebhookTypeInit, WebhookTypeNext, PTL DEF Spec

-----------------------------------------------------------------------------
(* The inductive invariant.  An Update is accepted from a copy of the present version   *)
(* only, so what the reconciler may write over is what its object was made of.          *)

\* What the cache shows while it has the current version: at most an ID too many.
CacheCurrent ==
    "cache" \in fresh =>
      /\ (cached = None) <=> (gr = None)
      /\ gr # None => /\ cached.deleting = gr.deleting
                      /\ cached.path = gr.path /\ cached.finalizer = gr.finalizer
                      /\ gr.hookID # None => cached.hookID = gr.hookID

\* What the reconciler may write over, and the object it made of it.
CopyCurrent ==
    "reconciler" \in fresh /\ rec.pc # "idle" =>
      /\ gr # None => rec.obj.path = gr.path /\ rec.obj.deleting = gr.deleting
      /\ rec.pc \in {"register", "record"} =>
           "cache" \in fresh /\ (gr # None => gr.hookID = None)

\* Only while the cache holds what the reconciler read do the two share an annotation map.
MapShared ==
    shared /\ rec.pc = "register" =>
      cached.finalizer /\ ("cache" \in fresh => "reconciler" \in fresh)

\* A hook is registered for a GitRepo that is kept, and torn down for one that is not.
Stages ==
    /\ rec.pc \in {"register", "record"} =>
         rec.obj.finalizer /\ ~rec.obj.deleting /\ rec.obj.path \in routes
    /\ rec.pc = "record" => \E h \in hooks : h.id = rec.obj.hookID /\ h.path = rec.obj.path
    /\ rec.pc \in {"deregister", "unfinalize"} =>
         rec.obj.deleting /\ rec.obj.path \notin routes

\* A copy that shows a deletion is older than a GitRepo without one, which has no hook yet.
Younger ==
    gr # None /\ ~gr.deleting /\ gr.hookID # None =>
      /\ cached # None => ~cached.deleting
      /\ rec.obj # None => ~rec.obj.deleting

\* An ID is carried with a finalizer only.
Guarded ==
    /\ gr # None /\ gr.hookID # None => gr.finalizer
    /\ cached # None /\ cached.hookID # None => cached.finalizer

Invariants ==
    /\ CacheCurrent /\ CopyCurrent /\ MapShared
    /\ Stages /\ Younger /\ Guarded /\ RecordedHookExists

\* What each step keeps: a recorded hook stays served, unless the process restarts ...
KeepsServed == (Recorded => Served) /\ Recorded' => Served'

\* ... and is not replaced, and the object goes only after its route.
KeepsHook == gr # None /\ gr.hookID # None /\ gr' # None => gr'.hookID = gr.hookID
RemovesRoute == gr # None /\ gr.finalizer /\ gr' = None => gr.path \notin routes

Kept == Invariants' /\ KeepsHook /\ RemovesRoute /\ (KeepsServed \/ Restart)

LEMMA InvariantsInit == Init => Invariants
  <1> SUFFICES ASSUME Init PROVE Invariants
    OBVIOUS
  <1>1. gr.hookID = None /\ rec.pc = "idle" /\ cached = None /\ fresh = {}
    BY NewGitRepoType DEF Init, Idle
  <1> QED
    BY <1>1 DEF Invariants, CacheCurrent, CopyCurrent, MapShared, Stages, Younger,
       Guarded,
                RecordedHookExists

\* Steps that touch neither copies, routes nor hooks, and leave the reconcile or end it.
LEMMA KeptUndisturbed ==
  ASSUME Invariants, UNCHANGED <<gr, cached, fresh, shared, routes, hooks>>,
         rec' = rec \/ rec' = Idle
  PROVE  Kept
  <1>1. Invariants'
    <2>1. UNCHANGED rec \/ (rec'.pc = "idle" /\ rec'.obj = None)
      BY DEF Idle
    <2> QED
      BY <2>1 DEF Invariants, CacheCurrent, CopyCurrent, MapShared, Stages, Younger,
                  Guarded, RecordedHookExists
  <1>2. KeepsHook /\ RemovesRoute /\ KeepsServed
    BY DEF KeepsHook, RemovesRoute, KeepsServed, Recorded, Served
  <1> QED
    BY <1>1, <1>2 DEF Kept

LEMMA KeptStarting ==
  ASSUME TypeOK, Invariants, ReconcileGone \/ StartWebhook \/ StartDelete
  PROVE  Kept
  <1>1. UNCHANGED <<gr, cached, hooks>> /\ Read
    BY DEF ReconcileGone, StartWebhook, StartDelete
  <1>2. CASE ReconcileGone
    BY <1>1, <1>2 DEF Kept, ReconcileGone, Read, At, TypeOK, Invariants, CacheCurrent,
       CopyCurrent, MapShared, Stages,
       Younger, Guarded, RecordedHookExists, KeepsHook, RemovesRoute, KeepsServed, Recorded, Served
  <1>3. CASE StartWebhook
    <2>1. /\ cached \in GitRepos /\ cached # None /\ ~cached.deleting /\ cached.finalizer
          /\ routes' = routes \cup {cached.path}
      BY <1>3 DEF TypeOK, StartWebhook, Accepted
    <2>2. rec' = WebhookState(cached)
      BY <1>3 DEF StartWebhook
    <2>3. /\ rec'.pc \in {"register", "ready"} /\ rec'.obj.path = cached.path
          /\ rec'.obj.deleting = cached.deleting /\ rec'.obj.finalizer
          /\ rec'.pc = "register" => cached.hookID = None
      <3> HIDE <2>2
      <3> QED
        BY <2>1, <2>2, StateType
    <2>4. CacheCurrent' /\ CopyCurrent' /\ MapShared'
      BY <1>1, <2>1, <2>3 DEF Read, Invariants, CacheCurrent, CopyCurrent, MapShared
    <2>5. Stages' /\ Younger' /\ Guarded' /\ RecordedHookExists'
      BY <1>1, <2>1, <2>3 DEF Invariants, Stages, Younger, Guarded, RecordedHookExists
    <2> QED
      BY <1>1, <2>1, <2>4, <2>5 DEF Kept, Invariants, KeepsHook, RemovesRoute,
         KeepsServed, Recorded, Served
  <1>4. CASE StartDelete
    <2>1. cached \in GitRepos /\ cached.deleting /\ routes' = routes \ {cached.path}
      BY <1>4 DEF TypeOK, StartDelete
    <2>2. rec'.pc \in {"deregister", "unfinalize"} /\ rec'.obj = cached
      BY <1>4 DEF StartDelete, Proceed
    <2>3. CacheCurrent' /\ CopyCurrent' /\ MapShared'
      BY <1>1, <2>1, <2>2 DEF Read, Invariants, CacheCurrent, CopyCurrent, MapShared
    <2>4. Stages' /\ Younger' /\ Guarded' /\ RecordedHookExists'
      BY <1>1, <2>1, <2>2 DEF Invariants, Stages, Younger, Guarded, RecordedHookExists
    <2>5. ~Recorded'
      BY <1>1, <1>4, <2>1 DEF StartDelete, Invariants, Younger, Recorded
    <2> QED
      BY <1>1, <2>3, <2>4, <2>5 DEF Kept, Invariants, KeepsHook, RemovesRoute, KeepsServed
  <1> QED
    BY <1>2, <1>3, <1>4

LEMMA KeptAddingFinalizer ==
  ASSUME TypeOK, Invariants, AddFinalizer
  PROVE  Kept
  <1>1. cached \in GitRepos /\ cached.hookID = None /\ ~cached.deleting
    BY DEF TypeOK, AddFinalizer, Invariants, Guarded
  <1>2. rec.pc = "idle" /\ UNCHANGED <<rec, cached, shared, routes, hooks>>
    BY DEF AddFinalizer, At
  <1>3. CASE Rejected("cache")
    BY <1>2, <1>3, KeptUndisturbed DEF Rejected
  <1>4. CASE /\ Current("cache")
             /\ Store("reconciler", [cached EXCEPT !.finalizer = TRUE, !.status = gr.status])
    <2>1. gr # None /\ gr.hookID = None
      BY <1>1, <1>4 DEF Current, Invariants, CacheCurrent
    <2>2. gr'.hookID = None /\ gr' # None /\ fresh' = {"reconciler"}
      BY <1>1, <1>4, <2>1, WebhookAssumption DEF Store, GitRepos, TypeOK
    <2> QED
      BY <1>2, <2>1, <2>2 DEF
         Kept, Invariants, CacheCurrent, CopyCurrent, MapShared, Stages, Younger, Guarded,
         RecordedHookExists, KeepsHook, RemovesRoute, KeepsServed, Recorded, Served
  <1> QED
    BY <1>3, <1>4 DEF AddFinalizer

\* A new hook has an ID nobody carries, so the recorded one stays.
LEMMA KeptRegistering ==
  ASSUME TypeOK, Invariants, RegisterHook
  PROVE  Kept
  <1>1. /\ rec.pc = "register" /\ rec.obj \in GitRepos
        /\ UNCHANGED <<gr, fresh, shared, routes>>
    BY DEF TypeOK, RegisterHook, At
  <1>2. rec.obj.finalizer /\ ~rec.obj.deleting /\ rec.obj.path \in routes
    BY <1>1 DEF Invariants, Stages
  <1>3. \A h \in hooks : gr # None /\ h.id = gr.hookID => h \in hooks'
    <2>1. CASE UNCHANGED hooks
      BY <2>1
    <2>2. CASE IssueHook
      BY <2>2, NewHookID DEF IssueHook, Carried
    <2> QED
      BY <2>1, <2>2 DEF RegisterHook
  <1>4. RecordedHookExists' /\ KeepsHook /\ RemovesRoute /\ KeepsServed
    BY <1>1, <1>3 DEF Invariants, RecordedHookExists, KeepsHook, RemovesRoute,
       KeepsServed, Recorded, Served
  <1>5. CASE Annotate(NewID)
    <2> DEFINE g == [rec.obj EXCEPT !.hookID = NewID, !.status.hook = "registered"]
    <2>1. /\ g.path = rec.obj.path /\ g.finalizer /\ g.deleting = rec.obj.deleting
          /\ g.hookID = NewID
      BY <1>1, <1>2 DEF GitRepos
    <2>2. rec' = [pc |-> "record", obj |-> g]
      BY <1>5 DEF Annotate, Go
    <2> HIDE DEF g
    <2>3. CopyCurrent' /\ MapShared'
      BY <1>1, <2>1, <2>2 DEF Invariants, CopyCurrent, MapShared
    <2>4. Stages'
      <3>1. CASE NoFault /\ IssueHook
        <4>1. [id |-> NewID, path |-> rec.obj.path] \in hooks'
          BY <3>1 DEF IssueHook
        <4> QED
          BY <1>1, <1>2, <2>1, <2>2, <4>1 DEF Stages
      <3> QED
        BY <1>5, <3>1 DEF RegisterHook, Annotate, Go
    <2>5. CacheCurrent' /\ Younger' /\ Guarded'
      <3>1. CASE shared /\ cached' = [cached EXCEPT !.hookID = NewID]
        <4>1. cached \in GitRepos /\ NewID \in HookIds
          BY <3>1, NewHookID DEF TypeOK
        <4>2. cached # None /\ cached' # None
          BY <3>1, <4>1, CopyType
        <4>3. /\ cached'.path = cached.path /\ cached'.finalizer = cached.finalizer
              /\ cached'.deleting = cached.deleting
          BY <3>1, <4>1 DEF GitRepos
        <4>4. /\ cached.finalizer
              /\ "cache" \in fresh => gr = None \/ gr.hookID = None
          BY <1>1, <3>1 DEF Invariants, MapShared, CopyCurrent
        <4>5. CacheCurrent'
          BY <1>1, <4>2, <4>3, <4>4 DEF Invariants, CacheCurrent
        <4> QED
          BY <1>1, <1>2, <2>1, <2>2, <4>2, <4>3, <4>4, <4>5 DEF Invariants, Younger,
             Guarded
      <3>2. CASE cached' = cached
        BY <1>1, <1>2, <2>1, <2>2, <3>2 DEF Invariants, CacheCurrent, Younger, Guarded
      <3> QED
        BY <1>5, <3>1, <3>2 DEF Annotate
    <2> QED
      BY <1>4, <2>3, <2>4, <2>5 DEF Kept, Invariants
  <1>6. CASE /\ UNCHANGED cached
             /\ \/ Go("retry", Erroneous(rec.obj)) \/ Go("retry", Failed(rec.obj))
                \/ Go("refused", Erroneous(rec.obj))
    <2>1. /\ rec'.pc \in {"retry", "refused"} /\ rec'.obj.path = rec.obj.path
          /\ rec'.obj.deleting = rec.obj.deleting
      BY <1>1, <1>2, <1>6 DEF Go, Erroneous, Failed, GitRepos
    <2> QED
      BY <1>1, <1>2, <1>4, <1>6, <2>1 DEF Kept, Invariants, CacheCurrent, CopyCurrent,
         MapShared, Stages,
         Younger, Guarded
  <1> QED
    BY <1>5, <1>6 DEF RegisterHook

\* The ID is stored while the GitRepo has none, after its route was added and its hook made.
LEMMA KeptRecording ==
  ASSUME TypeOK, Invariants, RecordHook
  PROVE  Kept
  <1>1. /\ rec.pc = "record" /\ rec.obj \in GitRepos
        /\ UNCHANGED <<cached, shared, routes, hooks>>
    BY DEF TypeOK, RecordHook, At
  <1>2. rec.obj.finalizer /\ ~rec.obj.deleting /\ rec.obj.path \in routes
    BY <1>1 DEF Invariants, Stages
  <1>3. CASE Update("reconciler", rec.obj) /\ Go("ready", Answered(rec.obj))
    <2>1. /\ gr # None /\ gr.hookID = None /\ gr.path = rec.obj.path /\ ~gr.deleting
          /\ cached # None => ~cached.deleting
      BY <1>1, <1>2, <1>3 DEF Update, Current, Invariants, CopyCurrent, CacheCurrent
    <2>2. /\ gr' # None /\ gr'.path = rec.obj.path /\ gr'.hookID = rec.obj.hookID
          /\ gr'.finalizer /\ gr'.deleting = rec.obj.deleting /\ fresh' = {"reconciler"}
      <3>1. gr' = [rec.obj EXCEPT !.status = gr.status] /\ fresh' = {"reconciler"}
        BY <1>3 DEF Update, Store
      <3>2. gr' # None
        <4>1. gr.status \in Statuses
          BY <2>1 DEF TypeOK, GitRepos
        <4> QED
          BY <1>1, <3>1, <4>1, CopyType
      <3> QED
        BY <1>1, <1>2, <3>1, <3>2 DEF GitRepos
    <2>3. /\ rec'.pc = "ready" /\ rec'.obj.path = rec.obj.path
          /\ rec'.obj.deleting = rec.obj.deleting
      BY <1>1, <1>2, <1>3 DEF Go, Answered, GitRepos
    <2>4. \E h \in hooks : h.id = gr'.hookID /\ h.path \in routes
      BY <1>1, <1>2, <2>2 DEF Invariants, Stages
    <2>5. CacheCurrent' /\ CopyCurrent' /\ MapShared' /\ Stages'
      BY <1>1, <2>2, <2>3 DEF CacheCurrent, CopyCurrent, MapShared, Stages
    <2>6. Younger' /\ Guarded' /\ RecordedHookExists'
      BY <1>1, <1>2, <2>1, <2>2, <2>3, <2>4 DEF Invariants, Younger, Guarded,
         RecordedHookExists
    <2>7. KeepsServed
      BY <1>1, <2>4 DEF KeepsServed, Served
    <2> QED
      BY <2>1, <2>2, <2>5, <2>6, <2>7 DEF Kept, Invariants, KeepsHook, RemovesRoute
  <1>4. CASE Rejected("reconciler") /\ Fail
    BY <1>1, <1>4, KeptUndisturbed DEF Rejected, Fail
  <1> QED
    BY <1>3, <1>4 DEF RecordHook

LEMMA KeptReporting ==
  ASSUME TypeOK, Invariants, ReportStatus
  PROVE  Kept
  <1>1. rec' = Idle /\ UNCHANGED <<cached, shared, routes, hooks>>
    BY DEF ReportStatus, Later, Done
  <1>2. CASE UNCHANGED <<gr, fresh>>
    BY <1>1, <1>2, KeptUndisturbed
  <1>3. ASSUME gr # None, NEW s \in Statuses, Store("reconciler", [gr EXCEPT !.status = s])
        PROVE  Kept
    <2>1. gr' # None
      BY <1>3, CopyType DEF TypeOK, Store
    <2>2. /\ gr'.path = gr.path /\ gr'.hookID = gr.hookID /\ gr'.finalizer = gr.finalizer
          /\ gr'.deleting = gr.deleting /\ fresh' = {"reconciler"}
      BY <1>3 DEF TypeOK, Store, GitRepos
    <2> QED
      BY <1>1, <1>3, <2>1, <2>2 DEF Idle,
         Kept, Invariants, CacheCurrent, CopyCurrent, MapShared, Stages, Younger, Guarded,
         RecordedHookExists, KeepsHook, RemovesRoute, KeepsServed, Recorded, Served
  <1>4. rec.obj.status \in Statuses /\ [rec.obj.status EXCEPT !.phase = "Ready"] \in Statuses
    BY DEF TypeOK, ReportStatus, At, GitRepos, Statuses
  <1> QED
    BY <1>2, <1>3, <1>4 DEF ReportStatus, UpdateStatus, Current, Rejected

LEMMA KeptDeregistering ==
  ASSUME TypeOK, Invariants, DeregisterHook
  PROVE  Kept
  <1>1. /\ rec.pc = "deregister" /\ rec' = [pc |-> "unfinalize", obj |-> rec.obj]
        /\ UNCHANGED <<gr, cached, fresh, shared, routes>>
    BY DEF DeregisterHook, At, Go, storeVars
  <1>2. rec.obj # None /\ rec.obj.deleting /\ rec.obj.path \notin routes
    BY <1>1 DEF TypeOK, Invariants, Stages
  <1>3. ~Recorded
    BY <1>2 DEF Invariants, Younger, Recorded
  <1>4. RecordedHookExists' /\ KeepsServed
    BY <1>1, <1>3 DEF RecordedHookExists, KeepsServed, Recorded
  <1> QED
    BY <1>1, <1>2, <1>4 DEF Kept, Invariants, CacheCurrent, CopyCurrent, MapShared,
       Stages,
       Younger, Guarded, KeepsHook, RemovesRoute

LEMMA KeptRemovingFinalizer ==
  ASSUME TypeOK, Invariants, RemoveFinalizer
  PROVE  Kept
  <1>1. /\ rec.pc = "unfinalize" /\ rec' = Idle
        /\ UNCHANGED <<cached, shared, routes, hooks>>
    BY DEF RemoveFinalizer, At, Done, Fail
  <1>2. rec.obj.path \notin routes
    BY <1>1 DEF Invariants, Stages
  <1>3. CASE Rejected("reconciler")
    BY <1>1, <1>3, KeptUndisturbed DEF Rejected
  <1>4. CASE Current("reconciler") /\ gr' = None /\ fresh' = {}
    <2>1. gr.path = rec.obj.path
      BY <1>1, <1>4 DEF Current, Invariants, CopyCurrent
    <2> QED
      BY <1>1, <1>2, <1>4, <2>1 DEF Idle,
         Kept, Invariants, CacheCurrent, CopyCurrent, MapShared, Stages, Younger, Guarded,
         RecordedHookExists, KeepsHook, RemovesRoute, KeepsServed, Recorded, Served
  <1> QED
    BY <1>3, <1>4 DEF RemoveFinalizer

LEMMA KeptWatching ==
  ASSUME TypeOK, Invariants, Observe \/ Enqueue \/ TimerFires \/ Restart \/ UNCHANGED vars
  PROVE  Kept
  <1>1. CASE Observe
    BY <1>1 DEF Observe,
       Kept, Invariants, CacheCurrent, CopyCurrent, MapShared, Stages, Younger, Guarded,
       RecordedHookExists, KeepsHook, RemovesRoute, KeepsServed, Recorded, Served
  <1>2. CASE Restart
    BY <1>2 DEF Restart, Idle,
       Kept, Invariants, CacheCurrent, CopyCurrent, MapShared, Stages, Younger, Guarded,
       RecordedHookExists, KeepsHook, RemovesRoute, KeepsServed, Recorded, Served
  <1>3. CASE UNCHANGED <<gr, cached, fresh, shared, routes, hooks, rec>>
    BY <1>3, KeptUndisturbed
  <1> QED
    BY <1>1, <1>2, <1>3 DEF Enqueue, TimerFires, vars, storeVars

LEMMA KeptByUser ==
  ASSUME TypeOK, Invariants, UserMove
  PROVE  Kept
  <1>1. fresh' = {} /\ UNCHANGED <<cached, shared, routes, hooks, rec>>
    BY DEF UserMove, Edit, Delete, Create, Write
  <1>2. CASE Create
    <2>1. gr = None /\ gr' \in NewGitRepos
      BY <1>2 DEF Create, Write
    <2>2. gr'.hookID = None
      BY <2>1, NewGitRepoType
    <2> QED
      BY <1>1, <2>1, <2>2 DEF
         Kept, Invariants, CacheCurrent, CopyCurrent, MapShared, Stages, Younger, Guarded,
         RecordedHookExists, KeepsHook, RemovesRoute, KeepsServed, Recorded, Served
  <1>3. CASE gr # None /\ gr' = None /\ ~gr.finalizer
    BY <1>1, <1>3 DEF
       Kept, Invariants, CacheCurrent, CopyCurrent, MapShared, Stages, Younger, Guarded,
       RecordedHookExists, KeepsHook, RemovesRoute, KeepsServed, Recorded, Served
  <1>4. CASE /\ gr # None /\ gr' # None /\ gr'.hookID = gr.hookID
             /\ gr'.finalizer = gr.finalizer /\ (gr.deleting => gr'.deleting)
    BY <1>1, <1>4 DEF
       Kept, Invariants, CacheCurrent, CopyCurrent, MapShared, Stages, Younger, Guarded,
       RecordedHookExists, KeepsHook, RemovesRoute, KeepsServed, Recorded, Served
  <1>5. CASE Edit \/ Delete
    <2>1. gr \in GitRepos
      BY <1>5 DEF TypeOK, Edit, Delete
    <2>2. CASE Edit
      <3>1. PICK p \in Paths :
              gr' \in {gr, [gr EXCEPT !.secret = ~@], [gr EXCEPT !.path = p]}
        BY <2>1, <2>2 DEF Edit, Write, GitRepos
      <3>2. gr' \in GitRepos /\ gr'.hookID = gr.hookID /\ gr'.finalizer = gr.finalizer
              /\ gr'.deleting = gr.deleting
        BY <2>1, <3>1 DEF GitRepos
      <3> QED
        BY <1>4, <2>1, <3>2, CopyType
    <2>3. CASE Delete
      <3>1. CASE gr.finalizer
        <4>1. gr' = [gr EXCEPT !.deleting = TRUE]
          BY <2>3, <3>1 DEF Delete, Write
        <4>2. gr' \in GitRepos /\ gr'.hookID = gr.hookID /\ gr'.finalizer = gr.finalizer
                /\ gr'.deleting
          BY <2>1, <4>1 DEF GitRepos
        <4> QED
          BY <1>4, <2>1, <4>2, CopyType
      <3>2. CASE ~gr.finalizer
        BY <1>3, <2>3, <3>2 DEF Delete, Write
      <3> QED
        BY <3>1, <3>2
    <2> QED
      BY <1>5, <2>2, <2>3
  <1> QED
    BY <1>2, <1>5 DEF UserMove

LEMMA KeptNext == TypeOK /\ Invariants /\ [Next]_vars => Kept
  BY KeptStarting, KeptAddingFinalizer, KeptRegistering, KeptRecording, KeptReporting,
     KeptDeregistering, KeptRemovingFinalizer, KeptWatching, KeptByUser DEF Next,
     ReconcileStep

LEMMA InvariantsHold == Spec => [](TypeOK /\ Invariants)
  <1>1. TypeOK /\ Invariants /\ [Next]_vars => (TypeOK /\ Invariants)'
    BY WebhookTypeNext, KeptNext DEF Kept
  <1> QED
    BY <1>1, WebhookTypeInit, InvariantsInit, PTL DEF Spec

\* gitrepo.go:34, "so we can deregister it when the GitRepo is deleted": whatever was lost,
\* refused, retried or read from an old copy, the hook a GitRepo records is on the platform.
THEOREM HookExists == Spec => []RecordedHookExists
  <1>1. Invariants => RecordedHookExists
    BY DEF Invariants
  <1> QED
    BY <1>1, InvariantsHold, PTL

\* A recorded ID is never replaced, by which the hook before would stay for ever.
THEOREM HookStays == Spec => HookNotReplaced
  <1>1. TypeOK /\ Invariants /\ [Next]_vars =>
          [gr # None /\ gr.hookID # None /\ gr' # None => gr'.hookID = gr.hookID]_vars
    BY KeptNext DEF Kept, KeepsHook
  <1> QED
    BY <1>1, InvariantsHold, PTL DEF Spec, HookNotReplaced

\* No route outlives its GitRepo: no reconcile that started earlier puts it back.
THEOREM RouteRemoved == Spec => RouteGone
  <1>1. TypeOK /\ Invariants /\ [Next]_vars =>
          [gr # None /\ gr.finalizer /\ gr' = None => gr.path \notin routes]_vars
    BY KeptNext DEF Kept, RemovesRoute
  <1> QED
    BY <1>1, InvariantsHold, PTL DEF Spec, RouteGone

\* quickstart-webhook.md:6-8: a recorded hook reaches a route until the process restarts.
THEOREM HookReached == Spec => HookServed
  <1>1. TypeOK /\ Invariants /\ [Next]_vars =>
          [(Recorded => Served) /\ Recorded' => Served' \/ Restart]_vars
    BY KeptNext DEF Kept, KeepsServed
  <1> QED
    BY <1>1, InvariantsHold, PTL DEF Spec, HookServed
=============================================================================
