---------------------------- MODULE HandleEvent -----------------------------
(***************************************************************************)
(* GitRepoReconciler.HandleEvent: what a pull request event of the git     *)
(* platform does to the PRDeployment.  The HTTP server serves every        *)
(* delivery on its own goroutine, so several handlers run at one time and  *)
(* next to the PRDeployment reconciler; nothing but the API server's       *)
(* resourceVersion check orders them.  A handler that fails answers 500    *)
(* and the event is gone: git platforms do not redeliver on their own.     *)
(***************************************************************************)
EXTENDS Cluster

CONSTANT Platform   \* the git platform, "github", "gitlab" or "gitea"

VARIABLE handler    \* per handler: program counter, event, copy of the PRDeployment

-----------------------------------------------------------------------------
Actions == {"opened", "synchronize", "closed", "labeled", "unlabeled", "comment"}

\* passes is the verdict of policy.EvaluatePR on the event; headSHA is None for
\* a comment event of GitHub or Gitea, cloneURL where the payload has none.
Events == [ action : Actions, headSHA : SHAs \cup {None},
            cloneURL : Clones \cup {None}, passes : BOOLEAN ]

ASSUME HandleEventAssumption ==
    /\ Platform \in {"github", "gitlab", "gitea"}
    /\ None \notin Events

HandlerPCs == {"idle", "fetch", "upsert", "create", "deleteApp", "update", "delete"}

IdleHandler == [pc |-> "idle", event |-> None, obj |-> None]

HandleEventTypeOK ==
    /\ handler \in [Handlers -> [ pc : HandlerPCs, event : Events \cup {None},
                                  obj : PRDs \cup {None} ]]
    /\ \A h \in Handlers :
         /\ handler[h].pc # "idle" => handler[h].event # None
         /\ handler[h].pc \in {"upsert", "create"} => handler[h].event.headSHA # None
         /\ handler[h].pc \in {"deleteApp", "update"} => handler[h].obj # None

HandleEventInit == handler = [h \in Handlers |-> IdleHandler]

-----------------------------------------------------------------------------
\* Defect: a comment is applied without fetching the head of its pull request.
RouteUnfetched(e) ==
    CASE e.action = "closed"  -> "delete"
      [] e.action = "comment" -> IF e.passes THEN "upsert" ELSE "idle"
      [] e.action \in {"labeled", "unlabeled"}
                              -> IF e.passes THEN "upsert" ELSE "delete"
      [] OTHER                -> IF e.passes THEN "upsert" ELSE "idle"

\* HandleEvent's switch: where an event goes, by action and policy verdict.
Route(e) ==
    CASE e.action = "closed"  -> "delete"
      [] e.action = "comment" -> IF ~e.passes THEN "idle"
                                 ELSE IF e.headSHA = None THEN "fetch" ELSE "upsert"
      [] e.action \in {"labeled", "unlabeled"}
                              -> IF e.passes THEN "upsert" ELSE "delete"
      [] OTHER                -> IF e.passes THEN "upsert" ELSE "idle"

Serving(h, pc) == handler[h].pc = pc

Proceed(h, pc, e, obj) ==
    handler' = [handler EXCEPT ![h] = [pc |-> pc, event |-> e, obj |-> obj]]

Return(h) == handler' = [handler EXCEPT ![h] = IdleHandler]

\* The server hands a delivery to an idle goroutine.
Receive(h, e) ==
    /\ Serving(h, "idle")
    /\ IF Route(e) = "idle" THEN Return(h) ELSE Proceed(h, Route(e), e, None)

\* fetchPRHead: only GitHub's answer carries the clone URL of the head
\* repository; for the others the watched repository is assumed.
HeadClone(clone) == IF Platform = "github" THEN clone ELSE Upstream

FetchHead(h, sha, clone) ==
    /\ Serving(h, "fetch")
    /\ \/ /\ NoFault
          /\ Proceed(h, "upsert", [handler[h].event EXCEPT !.headSHA = sha,
                                                      !.cloneURL = HeadClone(clone)], None)
       \/ Fault("api") /\ Return(h)
    /\ UNCHANGED <<prd, cachedPrd, app, cachedApp, gitrepo, fresh, shared>>

-----------------------------------------------------------------------------
(* createOrUpdatePRDeployment *)

NewClone(p, e) == e.cloneURL # None /\ p.cloneURL # e.cloneURL
NewHead(p, e) == e.headSHA # None /\ p.headSHA # e.headSHA

WithEvent(p, e) ==
    [p EXCEPT !.headSHA  = IF e.headSHA = None THEN @ ELSE e.headSHA,
              !.cloneURL = IF e.cloneURL = None THEN @ ELSE e.cloneURL]

\* createPRDeployment: nothing found in the cache, the namespace is ensured first ...
EnsureNamespace(h) ==
    /\ Serving(h, "upsert")
    /\ cachedPrd = None
    /\ \/ NoFault /\ Proceed(h, "create", handler[h].event, None)
       \/ Fault("api") /\ Return(h)
    /\ UNCHANGED <<prd, cachedPrd, app, cachedApp, gitrepo, fresh, shared>>

\* ... and then the object is created; the event is lost when the name is taken.
CreatePRDeployment(h) ==
    /\ Serving(h, "create")
    /\ \/ /\ prd = None /\ NoFault
          /\ prd' = NewPRD(handler[h].event.headSHA, handler[h].event.cloneURL)
          /\ fresh' = {}
       \/ /\ prd # None /\ NoFault \* AlreadyExists
          /\ UNCHANGED <<prd, fresh>>
       \/ /\ Fault("api")
          /\ UNCHANGED <<prd, fresh>>
    /\ Return(h)
    /\ UNCHANGED <<cachedPrd, app, cachedApp, gitrepo, shared>>

\* Nothing to change, or a new head commit only: one Update of the copy read.
UpdateHead(h) ==
    /\ Serving(h, "upsert")
    /\ cachedPrd # None /\ ~NewClone(cachedPrd, handler[h].event)
    /\ IF NewHead(cachedPrd, handler[h].event)
       THEN GetAndUpdate(h, WithEvent(cachedPrd, handler[h].event))
       ELSE NoFault /\ UNCHANGED <<prd, fresh>>
    /\ Return(h)
    /\ UNCHANGED <<cachedPrd, app, cachedApp, gitrepo, shared>>

\* A new clone URL: the App is deleted first, so that it is rebuilt.
StartReclone(h) ==
    /\ Serving(h, "upsert")
    /\ cachedPrd # None /\ NewClone(cachedPrd, handler[h].event)
    /\ ReadPRD(h)
    /\ Proceed(h, "deleteApp", handler[h].event, WithEvent(cachedPrd, handler[h].event))
    /\ UNCHANGED <<prd, cachedPrd, app, cachedApp, gitrepo, faults>>

\* delete(existing.Annotations, ...) also takes the key out of the cache's copy
\* when the two share the map.
ClearCreated(p) == IF p.created = "true" THEN [p EXCEPT !.created = "emptied"] ELSE p

EmptyAnnotation(h) ==
    /\ Proceed(h, "update", handler[h].event, ClearCreated(handler[h].obj))
    /\ cachedPrd' = IF h \in shared THEN ClearCreated(cachedPrd) ELSE cachedPrd

\* deleteAppCR, which reports NotFound of the Delete (not of the cached Get) as
\* an error, and then the removal of the annotation from the copy.
DeleteOldApp(h) ==
    /\ Serving(h, "deleteApp")
    /\ \/ /\ cachedApp = None /\ NoFault
          /\ EmptyAnnotation(h)
          /\ UNCHANGED <<app, cachedApp>>
       \/ /\ cachedApp # None /\ app # None /\ NoFault
          /\ SetApp(None)
          /\ EmptyAnnotation(h)
       \/ /\ \/ cachedApp # None /\ app = None /\ NoFault
             \/ Fault("api")
          /\ Return(h)
          /\ UNCHANGED <<app, cachedApp, cachedPrd>>
    /\ UNCHANGED <<prd, gitrepo, fresh, shared>>

UpdateClone(h) ==
    /\ Serving(h, "update")
    /\ Update(h, handler[h].obj) \/ Rejected(h)
    /\ Return(h)
    /\ UNCHANGED <<cachedPrd, app, cachedApp, gitrepo, shared>>

\* deletePRDeployment: lists the cache and deletes what it finds there, by name.
DeletePRDeployment(h) ==
    /\ Serving(h, "delete")
    /\ \/ /\ NoFault
          /\ IF cachedPrd = None THEN UNCHANGED <<prd, fresh>> ELSE DeletePRD
       \/ /\ Fault("api")
          /\ UNCHANGED <<prd, fresh>>
    /\ Return(h)
    /\ UNCHANGED <<cachedPrd, app, cachedApp, gitrepo, shared>>

HandlerStep(h) ==
    \/ EnsureNamespace(h) \/ CreatePRDeployment(h)
    \/ UpdateHead(h) \/ StartReclone(h) \/ DeleteOldApp(h) \/ UpdateClone(h)
    \/ DeletePRDeployment(h)
=============================================================================
