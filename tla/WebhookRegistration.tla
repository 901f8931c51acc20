------------------------ MODULE WebhookRegistration -------------------------
(***************************************************************************)
(* GitRepoReconciler for one GitRepo in webhook mode: its finalizer, its   *)
(* route in the HTTP server of this process, and its hook on the git       *)
(* platform, whose ID it keeps in an annotation.  The route table lives in *)
(* memory, the hook on the platform and the annotation in the API server,  *)
(* so a crash, a refused Update or a change of the GitRepo by its user     *)
(* falls between any two of them.                                          *)
(***************************************************************************)
EXTENDS Naturals

CONSTANTS
    None,       \* "no GitRepo", "no hook"
    Paths,      \* webhook paths the GitRepo may be given
    HookIds,    \* IDs of hooks, as many as are told apart
    Moves,      \* what users do: "touch", "path", "secret", "delete", "create"
    MaxMoves,   \* bound on how often they do
    FaultKinds, \* "secret", "register", "lost", "deregister", "api", "crash"
    MaxFaults   \* bound on the number of failures

Hooks == [id : HookIds, path : Paths]

\* Status.Phase and Status.WebhookStatus.
Statuses == [phase : {"", "Ready", "Error"}, hook : {"", "manual", "failed", "registered"}]

\* secret: a webhook secret is named and the external URL is known, so that hooks
\* can be registered; usable: the repository's URL is one platform.New accepts;
\* annotated: the user gave the object annotations of his own.
GitRepos == [ path : Paths, secret : BOOLEAN, usable : BOOLEAN, annotated : BOOLEAN,
              hookID : HookIds \cup {None}, finalizer : BOOLEAN, deleting : BOOLEAN,
              status : Statuses ]

ASSUME WebhookAssumption ==
    /\ None \notin HookIds \cup GitRepos
    /\ \A a, b, c \in HookIds \cup {None} : HookIds \ {a, b, c} # {}
    /\ MaxMoves \in Nat /\ MaxFaults \in Nat
    /\ Moves \subseteq {"touch", "path", "secret", "delete", "create"}
    /\ FaultKinds \subseteq {"secret", "register", "lost", "deregister", "api", "crash"}

VARIABLES
    gr,         \* the GitRepo in the API server, or None
    cached,     \* the GitRepo in the informer cache, or None
    fresh,      \* holders of a current copy: "cache", "reconciler"
    shared,     \* the reconciler's copy shares its annotation map with the cache
    notify,     \* the cache changed, its event is not enqueued yet
    routes,     \* paths in the route table of the HTTP server
    hooks,      \* hooks on the platform
    rec,        \* the reconcile in progress: program counter and object
    queued, timer,
    moves, faults

storeVars == <<gr, cached, fresh, shared, notify>>
queueVars == <<queued, timer>>
vars == <<storeVars, routes, hooks, rec, queueVars, moves, faults>>

-----------------------------------------------------------------------------
RecPCs == {"idle", "register", "record", "ready", "retry", "refused",
            "deregister", "unfinalize"}

Idle == [pc |-> "idle", obj |-> None]

TypeOK ==
    /\ gr \in GitRepos \cup {None} /\ cached \in GitRepos \cup {None}
    /\ fresh \subseteq {"cache", "reconciler"}
    /\ shared \in BOOLEAN /\ (shared => cached # None)
    /\ notify \in BOOLEAN
    /\ routes \subseteq Paths
    /\ hooks \subseteq Hooks
    /\ rec \in [pc : RecPCs, obj : GitRepos \cup {None}]
    /\ rec.pc # "idle" => rec.obj # None
    /\ rec.pc = "register" => rec.obj.secret /\ rec.obj.hookID = None
    /\ rec.pc \in {"record", "deregister"} => rec.obj.hookID # None
    /\ queued \in BOOLEAN /\ timer \in BOOLEAN
    /\ moves \in 0..MaxMoves /\ faults \in 0..MaxFaults

NewGitRepos ==
    [ path : Paths, secret : BOOLEAN, usable : BOOLEAN, annotated : BOOLEAN,
      hookID : {None}, finalizer : {FALSE}, deleting : {FALSE},
      status : {[phase |-> "", hook |-> ""]} ]

Init ==
    /\ gr \in NewGitRepos
    /\ cached = None /\ fresh = {} /\ shared = FALSE /\ notify = FALSE
    /\ routes = {} /\ hooks = {}
    /\ rec = Idle /\ queued = FALSE /\ timer = FALSE
    /\ moves = 0 /\ faults = 0

Fault(kind) == kind \in FaultKinds /\ faults < MaxFaults /\ faults' = faults + 1
NoFault == UNCHANGED faults

-----------------------------------------------------------------------------
(* The API server *)

Current(w) == gr # None /\ w \in fresh

Store(w, g) == gr' = g /\ fresh' = {w}

Update(w, g) == /\ Current(w) /\ NoFault
                /\ Store(w, [g EXCEPT !.status = gr.status])

UpdateStatus(w, s) ==
    /\ Current(w) /\ NoFault
    /\ \/ Store(w, [gr EXCEPT !.status = s])
       \/ gr.status = s /\ UNCHANGED <<gr, fresh>> \* LastUpdated, in seconds, is the same

Rejected(w) == /\ \/ ~Current(w) /\ NoFault
                  \/ Fault("api")
               /\ UNCHANGED <<gr, fresh>>

-----------------------------------------------------------------------------
(* Control flow of a reconcile *)

At(pc) == rec.pc = pc
Go(pc, g) == rec' = [pc |-> pc, obj |-> g] /\ UNCHANGED queueVars
Done == rec' = Idle /\ UNCHANGED queueVars
Later == rec' = Idle /\ timer' = TRUE /\ UNCHANGED queued
Fail == rec' = Idle /\ queued' = TRUE /\ UNCHANGED timer

\* r.Get from the cache; the copy shares the annotation map, if there is one.
Read == /\ At("idle") /\ queued /\ queued' = FALSE
        /\ UNCHANGED timer
        /\ fresh' = IF "cache" \in fresh THEN fresh \cup {"reconciler"}
                                         ELSE fresh \ {"reconciler"}
        /\ shared' = (cached # None)

Proceed(pc) == rec' = [pc |-> pc, obj |-> cached]

-----------------------------------------------------------------------------
(* Reconcile *)

ReconcileGone ==
    /\ cached = None /\ Read
    /\ UNCHANGED <<rec, gr, cached, notify, routes, hooks, moves, faults>>

\* Requeue: true, or the error's retry: the key comes back either way.
AddFinalizer ==
    /\ At("idle") /\ queued
    /\ cached # None /\ ~cached.deleting /\ ~cached.finalizer
    /\ \/ /\ Current("cache") /\ NoFault
          /\ Store("reconciler", [cached EXCEPT !.finalizer = TRUE, !.status = gr.status])
       \/ Rejected("cache")
    /\ UNCHANGED <<rec, queueVars, cached, shared, notify, routes, hooks, moves>>

Accepted == cached # None /\ ~cached.deleting /\ cached.finalizer

\* Where reconcileWebhook goes on: registration, or the status it reports.
WebhookState(g) ==
    CASE g.hookID = None /\ g.secret  -> [pc |-> "register", obj |-> g]
      [] g.hookID # None -> [pc |-> "ready", obj |-> [g EXCEPT !.status.hook = "registered"]]
      [] OTHER           -> [pc |-> "ready", obj |-> [g EXCEPT !.status.hook = "manual"]]

\* Defect: the route is added with the hook only.
StartWebhookOnce ==
    /\ Accepted /\ Read
    /\ routes' = IF cached.hookID = None THEN routes \cup {cached.path} ELSE routes
    /\ rec' = WebhookState(cached)
    /\ UNCHANGED <<gr, cached, notify, hooks, moves, faults>>

\* Defect: a new path takes the place of the old one in the route table.
StartWebhookMoving ==
    /\ Accepted /\ Read
    /\ routes' = {cached.path}
    /\ rec' = WebhookState(cached)
    /\ UNCHANGED <<gr, cached, notify, hooks, moves, faults>>

\* reconcileWebhook up to its first request: the route is added on every pass.
StartWebhook ==
    /\ Accepted /\ Read
    /\ routes' = routes \cup {cached.path}
    /\ rec' = WebhookState(cached)
    /\ UNCHANGED <<gr, cached, notify, hooks, moves, faults>>

\* The IDs that some copy of the GitRepo carries.
Carried == {g.hookID : g \in {gr, cached, rec.obj} \ {None}}

\* The ID the platform gives a hook.  An ID that nobody carries, that is of a hook
\* nobody can ever remove, is not told apart from a new one.
NewID == CHOOSE id \in HookIds : id \notin Carried

\* The platform makes a hook; it does not look for one with the same URL.
IssueHook == hooks' = {h \in hooks : h.id # NewID} \cup {[id |-> NewID, path |-> rec.obj.path]}

Erroneous(g) == [g EXCEPT !.status.phase = "Error"]
Failed(g) == [g EXCEPT !.status = [phase |-> "Error", hook |-> "failed"]]

\* gr.Annotations[...] = hookID: when the object had annotations before, the map is
\* also the cache's, which shows the ID before the API server has it.
Annotate(id) ==
    /\ Go("record", [rec.obj EXCEPT !.hookID = id, !.status.hook = "registered"])
    /\ cached' = IF shared /\ rec.obj.annotated THEN [cached EXCEPT !.hookID = id] ELSE cached

\* Defect: an error of the registration is logged only.
RegisterHookIgnoring ==
    /\ At("register")
    /\ Annotate(NewID)
    /\ \/ NoFault /\ IssueHook
       \/ Fault("register") /\ UNCHANGED hooks
    /\ UNCHANGED <<gr, fresh, shared, notify, routes, moves>>

\* loadGitToken and loadWebhookSecret, platform.New, and then RegisterWebhook,
\* whose answer may be lost.
RegisterHook ==
    /\ At("register")
    /\ \/ /\ rec.obj.usable /\ NoFault
          /\ IssueHook /\ Annotate(NewID)
       \/ /\ \/ Fault("secret") /\ Go("retry", Erroneous(rec.obj))
             \/ ~rec.obj.usable /\ NoFault /\ Go("refused", Erroneous(rec.obj))
             \/ rec.obj.usable /\ Fault("register") /\ Go("retry", Failed(rec.obj))
          /\ UNCHANGED <<cached, hooks>>
       \/ /\ rec.obj.usable /\ Fault("lost")
          /\ IssueHook
          /\ Go("retry", Failed(rec.obj))
          /\ UNCHANGED cached
    /\ UNCHANGED <<gr, fresh, shared, notify, routes, moves>>

\* The answer to an Update is decoded over the object: a stored WebhookStatus
\* replaces the one just set in memory, which the next reconcile puts right.
Answered(g) == [g EXCEPT !.status.hook = IF gr.status.hook = "" THEN @ ELSE gr.status.hook]

\* Defect: the error of the Update is not returned.
RecordHookOnce ==
    /\ At("record")
    /\ \/ Update("reconciler", rec.obj) /\ Go("ready", Answered(rec.obj))
       \/ Rejected("reconciler") /\ Done
    /\ UNCHANGED <<cached, shared, notify, routes, hooks, moves>>

\* Defect: the ID is stored over whatever version there is.
RecordHookForced ==
    /\ At("record") /\ gr # None /\ NoFault
    /\ Store("reconciler", [rec.obj EXCEPT !.status = gr.status])
    /\ Go("ready", Answered(rec.obj))
    /\ UNCHANGED <<cached, shared, notify, routes, hooks, moves>>

RecordHook ==
    /\ At("record")
    /\ \/ Update("reconciler", rec.obj) /\ Go("ready", Answered(rec.obj))
       \/ Rejected("reconciler") /\ Fail
    /\ UNCHANGED <<cached, shared, notify, routes, hooks, moves>>

\* setStatus, whose error is dropped: the reconcile ends, or is repeated later.
ReportStatus ==
    /\ At("ready") \/ At("retry") \/ At("refused")
    /\ \/ UpdateStatus("reconciler",
            IF At("ready") THEN [rec.obj.status EXCEPT !.phase = "Ready"] ELSE rec.obj.status)
       \/ Rejected("reconciler")
    /\ IF At("retry") THEN Later ELSE Done
    /\ UNCHANGED <<cached, shared, notify, routes, hooks, moves>>

-----------------------------------------------------------------------------
(* reconcileDelete *)

\* Defect: the route is removed together with a recorded hook only.
StartDeleteHooked ==
    /\ cached # None /\ cached.deleting /\ Read
    /\ routes' = IF cached.hookID = None THEN routes ELSE routes \ {cached.path}
    /\ Proceed(IF cached.hookID = None THEN "unfinalize" ELSE "deregister")
    /\ UNCHANGED <<gr, cached, notify, hooks, moves, faults>>

\* Defect: a hook is removed from the platform although none was recorded.
StartDeleteAlways ==
    /\ cached # None /\ cached.deleting /\ Read
    /\ routes' = routes \ {cached.path}
    /\ Proceed("deregister")
    /\ UNCHANGED <<gr, cached, notify, hooks, moves, faults>>

StartDelete ==
    /\ cached # None /\ cached.deleting /\ Read
    /\ routes' = routes \ {cached.path}
    /\ Proceed(IF cached.hookID = None THEN "unfinalize" ELSE "deregister")
    /\ UNCHANGED <<gr, cached, notify, hooks, moves, faults>>

\* The hook is removed, or it stays: errors are logged only.
DeregisterHook ==
    /\ At("deregister")
    /\ \/ NoFault /\ hooks' = {h \in hooks : h.id # rec.obj.hookID}
       \/ Fault("deregister") /\ UNCHANGED hooks
    /\ Go("unfinalize", rec.obj)
    /\ UNCHANGED <<storeVars, routes, moves>>

\* Defect: the error of the Update is not returned.
RemoveFinalizerOnce ==
    /\ At("unfinalize")
    /\ \/ Current("reconciler") /\ NoFault /\ gr' = None /\ fresh' = {}
       \/ Rejected("reconciler")
    /\ Done
    /\ UNCHANGED <<cached, shared, notify, routes, hooks, moves>>

\* The API server removes a terminating object with its last finalizer.
RemoveFinalizer ==
    /\ At("unfinalize")
    /\ \/ /\ Current("reconciler") /\ NoFault
          /\ gr' = None /\ fresh' = {}
          /\ Done
       \/ Rejected("reconciler") /\ Fail
    /\ UNCHANGED <<cached, shared, notify, routes, hooks, moves>>

-----------------------------------------------------------------------------
(* Watches, timers, restarts *)

\* The informer stores the newest object; its handlers run afterwards.
Observe ==
    /\ "cache" \notin fresh
    /\ cached' = gr /\ fresh' = fresh \cup {"cache"} /\ shared' = FALSE
    /\ notify' = TRUE
    /\ UNCHANGED <<gr, routes, hooks, rec, queueVars, moves, faults>>

Enqueue ==
    /\ notify /\ notify' = FALSE /\ queued' = TRUE
    /\ UNCHANGED <<gr, cached, fresh, shared, routes, hooks, rec, timer, moves, faults>>

TimerFires ==
    /\ timer /\ timer' = FALSE /\ queued' = TRUE
    /\ UNCHANGED <<storeVars, routes, hooks, rec, moves, faults>>

\* The route table is gone; the GitRepo is listed and enqueued anew.
Restart ==
    /\ Fault("crash")
    /\ routes' = {} /\ rec' = Idle /\ timer' = FALSE
    /\ cached' = gr /\ fresh' = {"cache"} /\ shared' = FALSE /\ notify' = FALSE
    /\ queued' = (gr # None)
    /\ UNCHANGED <<gr, hooks, moves>>

-----------------------------------------------------------------------------
(* Users *)

Move(kind) == kind \in Moves /\ moves < MaxMoves /\ moves' = moves + 1

Write(g) == gr' = g /\ fresh' = {}

Edit ==
    /\ gr # None
    /\ \/ Move("touch") /\ Write(gr)
       \/ Move("secret") /\ Write([gr EXCEPT !.secret = ~@])
       \/ /\ Move("path")
          /\ \E p \in Paths \ {gr.path} : Write([gr EXCEPT !.path = p])

Delete ==
    /\ Move("delete")
    /\ gr # None /\ ~gr.deleting
    /\ Write(IF gr.finalizer THEN [gr EXCEPT !.deleting = TRUE] ELSE None)

Create ==
    /\ Move("create") /\ gr = None
    /\ \E g \in NewGitRepos : Write(g)

UserMove == /\ Edit \/ Delete \/ Create
            /\ UNCHANGED <<cached, shared, notify, routes, hooks, rec, queueVars, faults>>

-----------------------------------------------------------------------------
ReconcileStep ==
    \/ ReconcileGone \/ AddFinalizer \/ StartWebhook \/ RegisterHook \/ RecordHook
    \/ ReportStatus \/ StartDelete \/ DeregisterHook \/ RemoveFinalizer

Next == ReconcileStep \/ Observe \/ Enqueue \/ TimerFires \/ Restart \/ UserMove

\* The controller runs, watches deliver, timers fire; users and failures are free.
Fairness == WF_vars(ReconcileStep) /\ WF_vars(Observe) /\ WF_vars(Enqueue) /\ WF_vars(TimerFires)

Spec == Init /\ [][Next]_vars
FairSpec == Spec /\ Fairness

-----------------------------------------------------------------------------
(* Safety *)

\* "so we can deregister it when the GitRepo is deleted" (gitrepo.go:34): the ID a
\* GitRepo carries is that of a hook the platform has, whatever was retried,
\* refused or read from an old copy.
RecordedHookExists ==
    gr # None /\ gr.hookID # None /\ ~gr.deleting => \E h \in hooks : h.id = gr.hookID

\* A hook registered once more, by a reconcile that read an old copy, never takes
\* the place of the one recorded, which would then never be removed.
HookNotReplaced ==
    [][gr # None /\ gr.hookID # None /\ gr' # None => gr'.hookID = gr.hookID]_vars

\* When the GitRepo goes, reconcileDelete has removed its route, and no reconcile
\* that started before has put it back.
RouteGone == [][gr # None /\ gr.finalizer /\ gr' = None => gr.path \notin routes]_vars

Recorded == gr # None /\ gr.hookID # None /\ ~gr.deleting
Served == \E h \in hooks : h.id = gr.hookID /\ h.path \in routes

\* quickstart-webhook.md:6-8, "You do not need to manually configure anything on the
\* platform side after that": a GitRepo records a hook whose route is served, and the
\* hook stays served even when the GitRepo is given another path, which the platform
\* never hears of.  Only a restart ends that, because it forgets the old path.
HookServed == [][(Recorded => Served) /\ Recorded' => Served' \/ Restart]_vars

(* Liveness *)

Live == gr # None /\ ~gr.deleting

\* A GitRepo that stays gets its route, again after each restart.
Routed == \A p \in Paths : <>[](Live /\ gr.path = p) => <>[](p \in routes)

\* A GitRepo with a secret and a usable URL gets its hook and keeps its ID, although the cache may
\* show an ID that the API server never accepted.
HookRecorded == <>[](Live /\ gr.secret /\ gr.usable) => <>[](Live /\ gr.hookID # None)

\* Every deletion completes: a GitRepo's finalizer never blocks it for ever.
RemovalCompletes == (gr # None /\ gr.deleting) ~> (gr = None)
=============================================================================
