------------------------------ MODULE Cluster ------------------------------
(***************************************************************************)
(* What kube-gitops shares when it works on one pull request: the          *)
(* Kubernetes API server, which holds the PRDeployment of that pull        *)
(* request and its kube-deploy App, and controller-runtime's informer      *)
(* caches, which hold older copies of both.  Every r.Get and r.List of the *)
(* operator reads a cache; every Create, Update, Status().Update and       *)
(* Delete goes to the API server.                                          *)
(*                                                                         *)
(* Resource versions are not counted.  fresh is the set of holders of a    *)
(* copy of the PRDeployment whose resourceVersion is the server's current  *)
(* one: "cache" for the informer cache, "reconciler" for the object the    *)
(* PRDeployment reconciler works on, and one handler per webhook request   *)
(* being served.  An Update is accepted exactly from a fresh holder.       *)
(***************************************************************************)
EXTENDS Naturals

CONSTANTS
    None,       \* "no such object", "no such value"
    SHAs,       \* head commits a pull request can have
    Clones,     \* clone URLs a pull request can have
    Upstream,   \* the one of the repository the GitRepo watches
    Handlers,   \* webhook requests that can be served at one time
    AppLag,     \* TRUE: the App cache may lag behind the API server
    FaultKinds, \* kinds of failure the environment may inject, see Fault
    MaxFaults   \* bound on the number of injected failures

VARIABLES
    prd,        \* the PRDeployment in the API server, or None
    cachedPrd,  \* the PRDeployment in the informer cache, or None
    app,        \* the App in the API server, or None
    cachedApp,  \* the App in the informer cache, or None
    gitrepo,    \* TRUE while the parent GitRepo exists
    fresh,      \* holders of a current copy of the PRDeployment
    shared,     \* threads whose copy shares its annotation map with the cache
    faults      \* failures injected so far

clusterVars == <<prd, cachedPrd, app, cachedApp, gitrepo, fresh, shared, faults>>

-----------------------------------------------------------------------------
Threads == Handlers \cup {"reconciler"}

\* App status.phase; kube-deploy's other in-between phases behave as Building.
Phases == {"", "Building", "Running", "Failed"}

\* Status.AppPhase of a PRDeployment: setPRDStatus stores its message there, so
\* the two messages that are not phases appear in it too.
Messages == Phases \cup {"App CR created", "App CR not created"}

States == {"", "pending", "deploying", "running", "error"}

\* created is the annotation app-created: "nil" when the map is absent, "true"
\* when it is set, "emptied" when the key was deleted from the map in memory.
PRDs == [ headSHA : SHAs, cloneURL : Clones \cup {None},
          created : {"nil", "emptied", "true"},
          finalizer : BOOLEAN, deleting : BOOLEAN,
          state : States, appPhase : Messages, commit : SHAs \cup {None},
          notifiedDeploy : BOOLEAN, notifiedError : BOOLEAN ]

\* commit stands for Status.Commit and Status.Image: kube-deploy fills both when
\* an image is built.
Apps == [ repo : Clones, phase : Phases, commit : SHAs \cup {None} ]

ASSUME ClusterAssumption ==
    /\ Upstream \in Clones
    /\ None \notin SHAs \cup Clones
    /\ None \notin PRDs /\ None \notin Apps
    /\ "cache" \notin Handlers /\ "reconciler" \notin Handlers
    /\ AppLag \in BOOLEAN
    /\ MaxFaults \in Nat

\* The object createPRDeployment submits.
NewPRD(sha, clone) ==
    [ headSHA |-> sha, cloneURL |-> clone, created |-> "nil",
      finalizer |-> FALSE, deleting |-> FALSE, state |-> "", appPhase |-> "",
      commit |-> None, notifiedDeploy |-> FALSE, notifiedError |-> FALSE ]

ClusterTypeOK ==
    /\ prd \in PRDs \cup {None}
    /\ cachedPrd \in PRDs \cup {None}
    /\ app \in Apps \cup {None}
    /\ cachedApp \in Apps \cup {None}
    /\ gitrepo \in BOOLEAN
    /\ fresh \subseteq Threads \cup {"cache"}
    /\ shared \subseteq Threads
    /\ shared # {} => cachedPrd # None
    /\ faults \in 0..MaxFaults

ClusterInit ==
    /\ prd = None /\ cachedPrd = None /\ app = None /\ cachedApp = None
    /\ gitrepo = TRUE /\ fresh = {"cache"} /\ shared = {} /\ faults = 0

-----------------------------------------------------------------------------
(* Failures *)

Fault(kind) == /\ kind \in FaultKinds
               /\ faults < MaxFaults
               /\ faults' = faults + 1

NoFault == UNCHANGED faults

-----------------------------------------------------------------------------
(* Reading and writing the PRDeployment *)

\* r.Get from the cache: the copy is as current as the cache, and it shares the
\* cache's annotation map, because DeepCopyObject copies the struct only.
ReadPRD(w) ==
    /\ fresh' = IF "cache" \in fresh THEN fresh \cup {w} ELSE fresh \ {w}
    /\ shared' = shared \cup {w}

\* What the API server keeps of p: an empty annotation map is not serialised.
Serialised(p) == IF p # None /\ p.created = "emptied"
                 THEN [p EXCEPT !.created = "nil"] ELSE p

\* An accepted write: every other copy is outdated.
Store(w, p) == /\ prd' = Serialised(p)
               /\ fresh' = {w}

\* Optimistic concurrency: the resourceVersion sent must be the current one.
Current(w) == prd # None /\ w \in fresh

\* The object p with the status of q: the CRD has the status subresource, so an
\* Update leaves the status alone and a Status().Update everything else.
WithStatusOf(p, q) ==
    [p EXCEPT !.state = q.state, !.appPhase = q.appPhase, !.commit = q.commit,
              !.notifiedDeploy = q.notifiedDeploy, !.notifiedError = q.notifiedError]

\* r.Update(p), accepted
Update(w, p) == /\ Current(w) /\ NoFault
                /\ Store(w, WithStatusOf(p, prd))

\* r.Status().Update(p), accepted.  Even when p brings nothing new this is a write
\* of a new version, unless LastUpdated falls into the second already recorded.
UpdateStatus(w, p) ==
    /\ Current(w) /\ NoFault
    /\ \/ Store(w, WithStatusOf(prd, p))
       \/ WithStatusOf(prd, p) = prd /\ UNCHANGED <<prd, fresh>>

\* Either of them answered with an error: a conflict, NotFound, or a failed request.
Rejected(w) == /\ \/ ~Current(w) /\ NoFault
                  \/ Fault("api")
               /\ UNCHANGED <<prd, fresh>>

\* r.Get and r.Update of p, made from the copy read: refused when the cache is behind.
GetAndUpdate(w, p) ==
    \/ /\ Current("cache") /\ NoFault
       /\ Store(w, WithStatusOf(p, prd))
    \/ Rejected("cache")

\* r.Delete: with a finalizer the object stays, marked as terminating.
DeletePRD ==
    IF prd = None \/ (prd # None /\ prd.deleting)
    THEN UNCHANGED <<prd, fresh>>
    ELSE /\ prd' = IF prd.finalizer THEN [prd EXCEPT !.deleting = TRUE] ELSE None
         /\ fresh' = {}

\* The watch delivers the newest PRDeployment (intermediate ones are skipped).
SyncPRD ==
    /\ "cache" \notin fresh
    /\ cachedPrd' = prd
    /\ fresh' = fresh \cup {"cache"}
    /\ shared' = {}

-----------------------------------------------------------------------------
(* The App *)

SetApp(a) == /\ app' = a
             /\ cachedApp' = IF AppLag THEN cachedApp ELSE a

SyncApp == /\ cachedApp # app
           /\ cachedApp' = app
           /\ UNCHANGED <<prd, cachedPrd, app, gitrepo, fresh, shared, faults>>
=============================================================================
