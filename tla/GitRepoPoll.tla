---------------------------- MODULE GitRepoPoll -----------------------------
(***************************************************************************)
(* GitRepoReconciler in poll mode: each pass asks the platform for the open *)
(* pull requests, lists the PRDeployments it knows of from the cache, and  *)
(* creates, updates or deletes one PRDeployment after another.  The pull   *)
(* requests change meanwhile, and so do the PRDeployments, which their own *)
(* controller (module PRDeployment) writes and finally removes.            *)
(***************************************************************************)
EXTENDS Naturals, FiniteSets

CONSTANTS
    PRs,        \* pull request numbers
    SHAs,       \* head commits
    None,       \* "no PRDeployment"
    PageSize,   \* open pull requests in one answer of the platform
    Moves,      \* what the outside world may do: see OutsideMove
    MaxMoves,   \* bound on how often it does
    FaultKinds, \* "fetch", "empty", "api", "crash"
    MaxFaults   \* bound on the number of failures

Pulls == [open : BOOLEAN, headSHA : SHAs, trusted : BOOLEAN]
PRDs == [headSHA : SHAs, deleting : BOOLEAN]

ASSUME PollAssumption ==
    /\ PRs \subseteq Nat /\ IsFiniteSet(PRs)
    /\ None \notin PRDs
    /\ PageSize \in Nat \ {0} /\ MaxMoves \in Nat /\ MaxFaults \in Nat
    /\ Moves \subseteq {"push", "close", "reopen", "label", "write"}
    /\ FaultKinds \subseteq {"fetch", "empty", "api", "crash"}

VARIABLES
    pulls,      \* the pull requests on the platform
    stored,     \* per pull request: its PRDeployment in the API server, or None
    cached,     \* the same in the informer cache
    cacheFresh, \* pull requests whose cached object has the current version
    pass,       \* the pass in progress: program counter and locals
    queued,     \* the GitRepo is in the workqueue
    timer,      \* its RequeueAfter (the poll interval) is pending
    moves, faults

pollVars == <<pass, queued, timer>>
clusterVars == <<stored, cached, cacheFresh>>
vars == <<pulls, clusterVars, pollVars, moves, faults>>

-----------------------------------------------------------------------------
\* answer: the openPRs of the pass; existing: the PRDeployments it listed;
\* current: those of them still at the version listed; todo: left to visit; reopened is a
\* history of the pull requests reopened since the answer, which no step reads.
NoPass == [pc |-> "idle", answer |-> {}, existing |-> [pr \in PRs |-> None],
           current |-> {}, todo |-> {}, reopened |-> {}]

OpenPRs == [number : PRs, headSHA : SHAs, trusted : BOOLEAN]

Numbers(answer) == {o.number : o \in answer}

TypeOK ==
    /\ pulls \in [PRs -> Pulls]
    /\ stored \in [PRs -> PRDs \cup {None}]
    /\ cached \in [PRs -> PRDs \cup {None}]
    /\ cacheFresh \subseteq PRs
    /\ pass \in [ pc : {"idle", "fetch", "list", "apply", "delete", "error"},
                  answer : SUBSET OpenPRs, existing : [PRs -> PRDs \cup {None}],
                  current : SUBSET PRs, todo : SUBSET PRs, reopened : SUBSET PRs ]
    /\ pass.pc = "apply" => pass.todo \subseteq Numbers(pass.answer)
    /\ pass.pc = "delete" => pass.todo \cap Numbers(pass.answer) = {}
    /\ queued \in BOOLEAN /\ timer \in BOOLEAN
    /\ moves \in 0..MaxMoves /\ faults \in 0..MaxFaults

Init ==
    /\ pulls \in [PRs -> [open : BOOLEAN, headSHA : SHAs, trusted : {TRUE}]]
    /\ stored = [pr \in PRs |-> None] /\ cached = stored /\ cacheFresh = PRs
    /\ pass = NoPass /\ queued = TRUE /\ timer = FALSE
    /\ moves = 0 /\ faults = 0

Fault(kind) == kind \in FaultKinds /\ faults < MaxFaults /\ faults' = faults + 1
NoFault == UNCHANGED faults

-----------------------------------------------------------------------------
(* The API server, for one PRDeployment *)

Write(pr, p) == /\ stored' = [stored EXCEPT ![pr] = p]
                /\ cacheFresh' = cacheFresh \ {pr}

\* The copies the pass holds of pr are outdated.
Outdate(pr) == [pass EXCEPT !.current = @ \ {pr}]

Observe(pr) ==
    /\ pr \notin cacheFresh
    /\ cached' = [cached EXCEPT ![pr] = stored[pr]]
    /\ cacheFresh' = cacheFresh \cup {pr}
    /\ UNCHANGED <<stored, pulls, pollVars, moves, faults>>

-----------------------------------------------------------------------------
(* Reconcile and poll *)

\* Reconcile of a GitRepo in poll mode with its finalizer and without a webhook
\* GitRepo for the same repository.
StartPoll ==
    /\ pass.pc = "idle" /\ queued
    /\ queued' = FALSE
    /\ pass' = [pass EXCEPT !.pc = "fetch"]
    /\ UNCHANGED <<timer, pulls, clusterVars, moves, faults>>

\* One page is asked for, the newest first; there is no second request.
FirstPage(open) ==
    {pr \in open : Cardinality({q \in open : q > pr}) < PageSize}

OpenPR(pr) == [number |-> pr, headSHA |-> pulls[pr].headSHA, trusted |-> pulls[pr].trusted]

\* fetchOpenPRs: the platform answers, fails, or answers with nothing by mistake.
FetchOpenPRs ==
    /\ pass.pc = "fetch"
    /\ \/ /\ NoFault
          /\ pass' = [pass EXCEPT !.pc = "list", !.reopened = {},
                        !.answer = {OpenPR(pr) : pr \in FirstPage({q \in PRs : pulls[q].open})}]
       \/ Fault("empty") /\ pass' = [pass EXCEPT !.pc = "list", !.reopened = {}]
       \/ Fault("fetch") /\ pass' = [pass EXCEPT !.pc = "error"]
    /\ UNCHANGED <<queued, timer, pulls, clusterVars, moves>>

ListExisting ==
    /\ pass.pc = "list"
    /\ pass' = [pass EXCEPT !.pc = "apply", !.existing = cached,
                            !.current = cacheFresh, !.todo = Numbers(pass.answer)]
    /\ UNCHANGED <<queued, timer, pulls, clusterVars, moves, faults>>

Visited(pr) == [pass EXCEPT !.todo = @ \ {pr}, !.current = @ \ {pr}]

\* A PRDeployment was listed for the open pull request: its head is brought up to
\* date, unless somebody wrote the object since; that error is logged only.
UpdateHead(o) ==
    LET pr == o.number
        old == pass.existing[pr]
    IN  /\ old # None
        /\ pass' = Visited(pr)
        /\ \/ /\ old.headSHA # o.headSHA /\ pr \in pass.current /\ NoFault
              /\ Write(pr, [old EXCEPT !.headSHA = o.headSHA])
           \/ /\ \/ old.headSHA = o.headSHA /\ NoFault
                 \/ old.headSHA # o.headSHA /\ pr \notin pass.current /\ NoFault
                 \/ old.headSHA # o.headSHA /\ Fault("api")
              /\ UNCHANGED <<stored, cacheFresh>>

\* None was listed: one is created if the policy lets it; AlreadyExists and other
\* errors are logged only.
CreateMissing(o) ==
    LET pr == o.number
    IN  /\ pass.existing[pr] = None
        /\ pass' = Visited(pr)
        /\ \/ /\ o.trusted /\ stored[pr] = None /\ NoFault
              /\ Write(pr, [headSHA |-> o.headSHA, deleting |-> FALSE])
           \/ /\ \/ ~o.trusted /\ NoFault
                 \/ o.trusted /\ stored[pr] # None /\ NoFault
                 \/ o.trusted /\ Fault("api")
              /\ UNCHANGED <<stored, cacheFresh>>

ApplyOpenPR ==
    /\ pass.pc = "apply"
    /\ \E o \in pass.answer : o.number \in pass.todo /\ (UpdateHead(o) \/ CreateMissing(o))
    /\ UNCHANGED <<queued, timer, pulls, cached, moves>>

\* Defect: those whose head was brought up to date are left over too.
LeftoverUpdated ==
    {pr \in PRs : pass.existing[pr] # None}

\* What poll has not struck off the list of existing PRDeployments.
Leftover == {pr \in PRs \ Numbers(pass.answer) : pass.existing[pr] # None}

\* Defect: no guard against an empty answer.
ToDeleteAlways == Leftover

\* Defect: the guard takes the answer of a single pull request for a failure too.
ToDeleteSeldom == IF Cardinality(pass.answer) < 2 THEN {} ELSE Leftover

\* The guard against an empty answer that would wipe all previews.
ToDelete == IF pass.answer = {} THEN {} ELSE Leftover

StartDeletePass ==
    /\ pass.pc = "apply" /\ pass.todo = {}
    /\ pass' = [pass EXCEPT !.pc = "delete", !.todo = ToDelete]
    /\ UNCHANGED <<queued, timer, pulls, clusterVars, moves, faults>>

\* The finalizer keeps the object; its controller removes it in TeardownEnds.
DeleteClosed ==
    /\ pass.pc = "delete"
    /\ \E pr \in pass.todo :
         /\ pass' = Visited(pr)
         /\ \/ /\ stored[pr] # None /\ ~stored[pr].deleting /\ NoFault
               /\ Write(pr, [stored[pr] EXCEPT !.deleting = TRUE])
            \/ /\ \/ stored[pr] = None \/ (stored[pr] # None /\ stored[pr].deleting)
               /\ NoFault
               /\ UNCHANGED <<stored, cacheFresh>>
            \/ Fault("api") /\ UNCHANGED <<stored, cacheFresh>>
    /\ UNCHANGED <<queued, timer, pulls, cached, moves>>

\* Defect: a failed fetch ends the pass without asking for another one.
FinishPassOnError ==
    /\ \/ pass.pc = "delete" /\ pass.todo = {} /\ timer' = TRUE
       \/ pass.pc = "error" /\ UNCHANGED timer
    /\ pass' = NoPass
    /\ \E changed \in BOOLEAN : queued' = (queued \/ changed)
    /\ UNCHANGED <<pulls, clusterVars, moves, faults>>

\* setStatus, then RequeueAfter the interval.  The status carries the time of the
\* poll, so the write changes the GitRepo and the controller's own watch queues it
\* again, unless the write fails or falls into the second already recorded.
FinishPass ==
    /\ \/ pass.pc = "delete" /\ pass.todo = {}
       \/ pass.pc = "error"
    /\ pass' = NoPass
    /\ \E changed \in BOOLEAN : queued' = (queued \/ changed)
    /\ timer' = TRUE
    /\ UNCHANGED <<pulls, clusterVars, moves, faults>>

IntervalEnds ==
    /\ timer
    /\ timer' = FALSE /\ queued' = TRUE
    /\ UNCHANGED <<pass, pulls, clusterVars, moves, faults>>

\* The process starts again: empty workqueue, caches and objects listed anew.
Restart ==
    /\ Fault("crash")
    /\ pass' = NoPass /\ queued' = TRUE /\ timer' = FALSE
    /\ cached' = stored /\ cacheFresh' = PRs
    /\ UNCHANGED <<pulls, stored, moves>>

-----------------------------------------------------------------------------
(* The outside world *)

Move(kind) == kind \in Moves /\ moves < MaxMoves /\ moves' = moves + 1

PullMoves(pr, p) == pulls' = [pulls EXCEPT ![pr] = p] /\ UNCHANGED clusterVars

Push(pr) == /\ Move("push") /\ pulls[pr].open
            /\ \E sha \in SHAs \ {pulls[pr].headSHA} :
                 PullMoves(pr, [pulls[pr] EXCEPT !.headSHA = sha])
            /\ UNCHANGED pass
Close(pr) == /\ Move("close") /\ pulls[pr].open
             /\ PullMoves(pr, [pulls[pr] EXCEPT !.open = FALSE])
             /\ UNCHANGED pass
Reopen(pr) == /\ Move("reopen") /\ ~pulls[pr].open
              /\ PullMoves(pr, [pulls[pr] EXCEPT !.open = TRUE])
              /\ pass' = [pass EXCEPT !.reopened = @ \cup {pr}]
Relabel(pr) == /\ Move("label")
               /\ PullMoves(pr, [pulls[pr] EXCEPT !.trusted = ~@])
               /\ UNCHANGED pass

\* The PRDeployment controller writes the object (finalizer, annotation, status).
OwnWrite(pr) == /\ Move("write") /\ stored[pr] # None
                /\ Write(pr, stored[pr])
                /\ pass' = Outdate(pr)
                /\ UNCHANGED <<pulls, cached>>

OutsideMove(pr) ==
    /\ Push(pr) \/ Close(pr) \/ Reopen(pr) \/ Relabel(pr) \/ OwnWrite(pr)
    /\ UNCHANGED <<queued, timer, faults>>

\* The PRDeployment controller removes its finalizer, see DeletionCompletes there.
TeardownEnds(pr) ==
    /\ stored[pr] # None /\ stored[pr].deleting
    /\ Write(pr, None)
    /\ pass' = Outdate(pr)
    /\ UNCHANGED <<pulls, cached, queued, timer, moves, faults>>

-----------------------------------------------------------------------------
PollStep == StartPoll \/ FetchOpenPRs \/ ListExisting \/ ApplyOpenPR
              \/ StartDeletePass \/ DeleteClosed \/ FinishPass

Next ==
    \/ PollStep \/ IntervalEnds \/ Restart
    \/ \E pr \in PRs : Observe(pr) \/ OutsideMove(pr) \/ TeardownEnds(pr)

\* The controller runs, its interval passes, watches deliver, teardowns end; no
\* failure and no move of the platform is forced.
Fairness ==
    /\ WF_vars(PollStep) /\ WF_vars(IntervalEnds)
    /\ \A pr \in PRs : WF_vars(Observe(pr)) /\ WF_vars(TeardownEnds(pr))

Spec == Init /\ [][Next]_vars
FairSpec == Spec /\ Fairness

-----------------------------------------------------------------------------
(* Safety *)

IsLive(pr) == stored[pr] # None /\ ~stored[pr].deleting

\* gitrepo.go:319, "Only delete PRDeployments for PRs no longer open": a pass that
\* works on a cached list and an answer of some time ago, through pushes, closings,
\* reopenings, label changes, spurious empty answers, failures and restarts, still never
\* deletes the preview of a pull request that is open, unless that one was reopened
\* since the answer, or a full page left it out: there is no second request, so an answer
\* proves that a pull request is closed only if it has room for another one.
OpenIsKept ==
    [][ \A pr \in PRs :
          /\ pulls[pr].open /\ pr \notin pass.reopened /\ IsLive(pr)
          /\ pr \in Numbers(pass.answer) \/ Cardinality(pass.answer) < PageSize
          => IsLive(pr)' ]_vars

-----------------------------------------------------------------------------
(* Liveness *)

\* quickstart-poll.md:88: an open pull request of a trusted author gets a
\* PRDeployment, and in the end one of its present head, although every failed
\* request of a pass is dropped and an earlier preview may still be going down.
OpenIsDeployed ==
    \A pr \in PRs, sha \in SHAs :
      <>[](pulls[pr].open /\ pulls[pr].trusted /\ pulls[pr].headSHA = sha)
        => <>[](IsLive(pr) /\ stored[pr].headSHA = sha)

\* A closed pull request loses its preview as long as another one stays open.
ClosedIsTornDown ==
    \A pr, other \in PRs :
      <>[](~pulls[pr].open /\ pulls[other].open) => <>[](stored[pr] = None)

=============================================================================
