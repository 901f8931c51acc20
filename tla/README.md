# A TLA+ verification of kube-gitops

kube-gitops is a Kubernetes operator. It watches a git repository (a `GitRepo`
object) for pull requests and keeps, for every pull request that its policy
accepts, one preview environment: a `PRDeployment` object, and through it one
kube-deploy `App`. This directory holds TLA+ modules that model the operator's
control flow, TLC configurations that check them on small instances, and proofs
that TLAPS checks for every instance.

Line numbers below refer to the commit this directory stands next to;
`PROJECT.json` maps every definition to the lines it stands for.

## 1. Inventory

### The parts and what they keep

| Part | Source | State | Operations |
|---|---|---|---|
| PRDeployment controller | `controllers/pr_deployment.go` | the `PRDeployment` (spec, finalizer, annotation `app-created`, status), one workqueue key per object, `RequeueAfter` timers | `Reconcile`, `createApp`, `syncStatus`, `reconcileDelete` |
| GitRepo controller, events | `controllers/gitrepo.go` 340-522 | nothing of its own; locals of one HTTP request | `HandleWebhookEvent`, `HandleEvent`, `createOrUpdatePRDeployment`, `createPRDeployment`, `deleteAppCR`, `deletePRDeployment` |
| GitRepo controller, polling | `controllers/gitrepo.go` 110-144, 254-338, `platform_*.go` | the `GitRepo`'s status, its timer | `poll`, `fetchOpenPRs` |
| GitRepo controller, webhook registration | `controllers/gitrepo.go` 146-252 | finalizer and annotation `webhook-id` of the `GitRepo`, the hooks on the platform | `reconcileWebhook`, `reconcileDelete` |
| Webhook server | `webhook/server.go` | the route table (in memory, under a lock) | `Register`, `Deregister`, `handleWebhook` |
| Payload parsers | `webhook/github.go`, `gitlab.go`, `gitea.go`, `parse.go` | none (pure) | payload to `PREvent` or "skip" |
| Trust policy | `policy/trust.go` | none (pure) | `EvaluatePR`, `EvaluateComment` |
| App builder | `builder/app.go` | none (pure) | `BuildApp`, `AppName`, `slugify` |
| Platform clients | `platform/*.go` | none | comments, commit statuses, hooks |
| API types | `api/v1alpha1/types.go`, `kubedeploy/types.go` | the objects | `DeepCopyObject` |
| Process wiring | `main.go` | none | flags, start-up |

Outside `src/`, and modelled from how `src/` uses them: the Kubernetes API server
(optimistic concurrency, finalizers, the status subresource, garbage collection),
controller-runtime (informer caches, workqueue, timers), the git platform, and
kube-deploy, which builds and runs an App.

### How they interact

The parts share no memory except the informer cache and the route table. Reads
(`r.Get`, `r.List`) are served from the cache, which lags; writes go to the API
server, which refuses an `Update` made from an old version. A webhook delivery is
handled on a goroutine of its own, so several handlers and the reconciler work on
the same `PRDeployment` at once. The reconciler handles one key at a time. It
watches `PRDeployment`s, not `App`s: what kube-deploy does to an App is noticed
only through `RequeueAfter`. `Owns(&PRDeployment{})` in `SetupGitRepo` has no
effect, because `createPRDeployment` sets an owner reference without
`controller: true`; the garbage collector does honour that reference.

### What is hard

- Copies. Every decision is made on a cached copy that may be old, and followed by
  requests whose effect stays even when a later one of the same reconcile fails.
- Shallow copies. `DeepCopyObject` copies the struct only (`types.go:303`), so a
  copy shares its annotation map with the cache, and
  `delete(existing.Annotations, ...)` in a handler changes the cache.
- Status writes. With the status subresource an `Update` leaves the status alone
  and a `Status().Update` everything else; a status write that brings nothing new
  produces no watch event, and some error paths rely on that event for their retry.
- Failure between two effects: App created and annotation not stored, comment
  posted and flag not stored, App deleted and clone URL not stored.
- Order. Events carry no sequence and are not compared with the present state of
  the pull request; platforms neither order nor redeliver them.
- Polling from a list and an answer that are both out of date.
- Suspension without a lock: whether another `GitRepo` has a webhook is read from the
  cache, a failed read counts as "no", and what resumes a suspended one is a second watch.
- Events that are each judged by themselves: a pull request's eligibility is a matter of
  the last event served, not of its present state.

`PROJECT.json` lists each of these, and the others, at the line where it bites
("hazards"), with the property that covers it or the reason why none does.

### What makes each part correct

- PRDeployment controller: no App is left without a `PRDeployment` that removes it
  in the end; deletions complete; a requested preview is deployed; the status
  settles on the App's; a running preview is announced.
- Event handling: concurrent writers do not undo each other; the preview goes
  through the stages requested, live, terminating, gone, and nothing else.
- Polling: an open pull request is never torn down; every open and accepted one is
  deployed at its present head in the end; a closed one is torn down.
- Registration: a route and one hook per webhook `GitRepo`, none after it is gone.
- Several `GitRepo`s of one repository: the webhook one wins, and polling resumes
  without it; what either left behind is taken over or removed.
- Parsers, policy, naming: whatever sequence of events led there, the previews are those of the
  pull requests that policy, label and comments ask for, and a poll pass after them changes
  nothing.

## 2. The modules

    Cluster            API server and caches for one PRDeployment and its App
      PRDeployment     the PRDeployment controller
      HandleEvent      the handlers of webhook deliveries
        Preview        both, composed with platform, kube-deploy, GC, restarts
          PreviewProperties     what is expected of it; INSTANCE PreviewLifecycle
            MCPreview           for TLC
            PreviewTypeProofs   THEOREM TypeCorrect
              PreviewProofs     THEOREMs NoOrphan, ImplementsLifecycle
              PreviewUpdateProofs   THEOREMs NothingLost, PostedFirst
    PreviewLifecycle   the promise: absent, live, terminating; deployed or not
    WebhookRegistration  GitRepoReconciler in webhook mode: finalizer, route, hook
      WebhookProofs    THEOREMs HookExists, HookStays, RouteRemoved, HookReached
    GitRepoPoll        GitRepoReconciler in poll mode
      MCGitRepoPoll    for TLC
      PollProofs       THEOREMs PollTypeCorrect, OpenKept
    Supersession       several GitRepos of one repository, in both modes
      MCSupersession   for TLC
      SupersessionProofs  THEOREMs SupersessionTypeCorrect, MarkedWhenQuiet, AllRemembered
    WebhookPayload     the parsers, and the answers of the platforms' lists
      TrustPolicy      EvaluatePR
    Naming             slugify, AppName, and a reference definition of the slug
      NamingProofs     lemmas about them, for words of any length
        Intake         pull requests, payloads, verdicts, names: the whole intake
          MCIntake     for TLC
          IntakeProofs   THEOREMs IntakeTypes, EligibleDeployed, PreviewWanted,
                         AskedDeployed, PollConfirmed, NamesLawful

**Cluster** stands for one pull request. `prd` and `app` are the objects in the API
server, `cachedPrd` and `cachedApp` the copies in the informer caches. Resource
versions are not counted: `fresh` is the set of holders of a copy with the current
version (the cache, the reconciler, each handler), and an `Update` is accepted from
a fresh holder only. `shared` is the set of threads whose copy has the annotation
map in common with the cache. The annotation has three values: absent map, key
present, key deleted from the map in memory (which the API server stores as the
absent map again). `Update`, `UpdateStatus` and `GetAndUpdate` are the client's
calls, with the status subresource; a `Fault` is one failure from a bounded budget.

**PRDeployment** has the program counter `rec` of the one reconcile that may run, with the copies
it works on, and the workqueue (`queued`, `timer`). Each action is one request to the API server
or the platform together with the code up to the next one, with its early return; a reconcile that
ends within its reads is one action. `Done`, `Later` and `Fail` are the three ways to return:
nothing further, `RequeueAfter`, and an error, which is retried with a back-off. A failed status
write in `createApp`'s error paths is `Done`, exactly as in the code. A report on the pull request
is two requests, `ReportOutcome` (the commit status) and the comment, before the flag is stored.
`NotifyKinds` are the comments that `spec.notify` asks for; the history variable `dropped` has the
kinds of which a comment was lost to a failed request.

**HandleEvent** has one program counter per webhook request being served. `Route` is the
`switch` of `HandleEvent` together with the verdict of the policy, which the event
carries in `passes`. Where no `PRDeployment` is found, `EnsureNamespace` and `CreatePRDeployment`
are requests of their own, so another handler may have created it in between.

**Preview** adds the pull request and its deliveries in flight (`inbox`, a set: any
order, any delay), kube-deploy (`AppAdvances`, `Rebuild`), the removal of the GitRepo
with Kubernetes' garbage collection, and `Restart`. `EventFor` is what the parsers keep
of a payload, per platform.

**PreviewLifecycle** is the abstract specification: the preview is absent, live or
terminating; it can have an App while it is not absent; it does not become absent while
it has one. `LifecycleSpec` is its specification under the mapping `stage <-` (no
object, object, object with a deletion timestamp), `deployed <-` (App exists).

**GitRepoPoll** has the pull requests, the `PRDeployment`s in the API server and in the
cache (reduced to head commit and deletion mark), and the pass in progress with its
answer, its list and which of the listed objects still have the listed version. Every
request of a pass is an action of its own, so the platform and the other controller move
between any two. `pass.reopened` is history: the pull requests reopened since the answer.

**WebhookRegistration** has one `GitRepo` in webhook mode, as the API server and the cache
have it, with what outlives a reconcile elsewhere: the route table (`routes`, in memory) and
the hooks on the platform (`hooks`). `annotated` says whether the user gave the object
annotations: only then is the map shared with the cache, and `Annotate` changes both. Status
is modelled because whether a write changes anything decides whether an event follows;
`Answered` is the answer of an `Update`, decoded over the object, which brings an old status
back. The informer stores an object first (`Observe`) and its handler enqueues the key later
(`Enqueue`). Hook IDs that no copy carries are not told apart (`NewID`), which keeps the
model finite: a reconcile that keeps registering from an old copy would otherwise use up any
number of them.

**Supersession** composes the two modes: any number of `GitRepo`s of one repository that are
created, deleted and change their mode, with the one worker (`queue`, in order), the cached list
that `findWebhookConflict` reads, the second watch of `SetupGitRepo` (`SupersededBy`), the hooks
and routes, and the previews with the label and the owner reference that decide which `GitRepo`
lists and which deletion collects them. A poll pass is its answer and then its effect, and a
registration one request: their details are the subject of the two modules above. Besides `"poll"`
and `"webhook"` there is the mode `"manual"`: webhook mode without a `webhookSecret` or an
external URL, where the user sets the hook up. `validURL`, chosen at the start, says whether
`platform.New` and the fetch accept the repository's URL; where it does not, `reconcileWebhook`
reports the error and asks for no return. `Deliver` hands an event to any `GitRepo` of the
repository, because `HandleWebhookEvent` takes the first of a list that has no order, whichever
route the request came in by.

**WebhookPayload** is the table of the three parsers: which kinds of event and which of the
platform's words for an action are translated (`ActionsOf`), and which fields a payload
has on which platform; and the same for the answers of `fetchOpenPRs` and `fetchPRHead`.
**TrustPolicy** is `EvaluatePR` and `evaluateComment` on such events. **Naming** has words as
sequences of characters, a few of which stand for the letters and digits, since what is at stake is
where a name is trimmed and cut. The digits of a pull request's number are the constant `Digits`.

**Intake** composes the three for one `GitRepo` with any platform, policy and name template:
`Open`, `Close`, `Push`, `Relabel`, `Edit` and `Comment` post payloads that are served in order
(`Serve`), with the effect on the set of previews that the handlers have when nothing interferes.
Preview has the interference, for one pull request and events with a given verdict. `Polled` is
what a poll pass would make of the previews at that moment, from the platform's list and with
poll's own way to update (`Moved`) and to create. Three variables are history: `asked` is what a
comment asked for that may do so by the documentation (`MayAsk`), `uninvited` what one asked for
that only the code lets (`Uninvited`), `late` the closed pull requests something happened to.

Definitions with a comment that begins "Defect:" are deliberate mistakes, each next to the
definition it replaces. No specification uses them. They are there to show that each
property can fail: with the defect in place of the definition, TLC reports a violation.

## 3. What the runs check

All configurations set `CHECK_DEADLOCK FALSE`: with the budget of moves used up and
nothing left to do, the operator rightly waits for ever.

### Runs that pass

| Run | Instance | Properties |
|---|---|---|
| `preview_safety` | 2 handlers, 2 head commits, 2 clone URLs, every kind of move but a rebuild, every kind of failure, 2 moves, 1 failure, App cache current | `TypeOK`, `NoOrphanApp`, `LifecycleSpec`, `NoLostUpdate` |
| `preview_progress` | 1 handler, App cache lagging, moves close/reopen/rebuild (2), one crash, lost answer, failed request, failed post or failed build | `FlagAfterPost`, `DeletionCompletes`, `EventuallyDeployed`, `StatusFollowsApp`, `RunningIsAnnounced`, `OrphanedByLookup`, `LifecycleButOverlooked` |
| `webhook_hook` | 1 GitRepo, 2 paths, edits, deletion and re-creation (2 moves), 1 failure of any kind | `TypeOK`, `RecordedHookExists`, `HookNotReplaced`, `RouteGone`, `Routed`, `HookRecorded`, `RemovalCompletes`, `HookServed` |
| `poll_safety` | 3 pull requests, a page of 2, 2 head commits, 2 moves (reopen among them), 1 failure | `TypeOK`, `OpenIsKept` |
| `poll_liveness` | 2 pull requests, 2 head commits, 2 moves (reopen among them), 1 failure | `OpenIsDeployed`, `ClosedIsTornDown` |
| `supersession` | 2 GitRepos, 1 pull request, three modes, a URL that is accepted or refused, create/delete/mode (2 moves), 1 failure of a list, fetch, status write or registration, or a restart | `TypeOK`, `QuietlySettled`, `NoneForgotten`, `YieldsToWebhook`, `ResumesPolling` |
| `handback` | 2 GitRepos, 2 pull requests one of which opens and closes, 2 moves of any kind, 1 lost delivery | `OpenIsDeployed`, `ClosedIsTornDown` |
| `intake` | 2 pull requests of 3 profiles, 3 platforms, 4 policies, 2 name templates, 2 commenters, 4 moves | `TypeOK`, `EligibleIsDeployed`, `PreviewIsWanted`, `AskedIsDeployed`, `PollConfirms`, `NameLaws` |

*preview_safety* asks whether any interleaving of two deliveries with the reconciler, a
crash anywhere, and the outside world can leave an App without its guard
(`NoOrphanApp`), skip a stage of the lifecycle (`LifecycleSpec`), or let one writer undo
another (`NoLostUpdate`). It uses symmetry over handlers and commits, and a view that drops
the currency of a copy nobody holds; neither is used where liveness is checked.

*preview_progress* asks whether anything stops for ever. The reconciler's retries come
from three places (its errors, its timers, the events of its own writes), and a branch
that has none of them would show as a lasso. It also asks whether a notification flag can
get ahead of its comment, and whether a preview that keeps running is announced. Posts fail here
too: `FlagAfterPost` and `RunningIsAnnounced` say that a failed request is the only way to a flag
without a comment.

It also asks the questions of *preview_safety* where the App cache lags, as it does in the code.
There `NoOrphanApp` is false (run `orphan` below). `OrphanedByLookup` says that this is the only
way: an App loses its guard in the last `Update` of a deletion whose lookup missed the App, and in
no other step, whatever races, crashes and refusals precede it. `LifecycleButOverlooked` is the
refinement with that one step as its only exception.

*webhook_hook* asks whether the three records of one webhook (annotation, route, hook) agree
in the end, and whether an old copy can spoil them: `HookNotReplaced` would fail if a reconcile
that registers once more could store its ID over the first, `RouteGone` if a reconcile that
started before the deletion could leave its route, `HookRecorded` if an ID that only the cache
carries could be taken for a stored one for ever. `HookServed` asks what becomes of a registered
hook whose `GitRepo` is given another path: the platform never hears of the new one, and deliveries
go on only because nothing removes the old route, until a restart forgets it.

*poll_safety* and *poll_liveness* ask the same two questions of polling. With `PageSize` below the
number of pull requests the answer can be a full page that leaves an open one out; `OpenIsKept`
says that this, and a reopening after the answer, are the only ways an open pull request loses its
preview. Without them it would be the sentence of `gitrepo.go:319`, which is false; see the
divergences.

*supersession* asks whether the two modes agree on who acts. `QuietlySettled` needs the watch: a
`GitRepo` that decided on an old list must be woken again by the very change it missed.
`NoneForgotten` asks the same of every other reason to come back, with failures and restarts: the
reconciler returns nothing further from most branches, so that a `GitRepo` whose poll,
registration or deletion is unfinished would stay so if neither a timer nor an event to come stood
behind it. `YieldsToWebhook` and `ResumesPolling` hold through failures because of the timers. A
`GitRepo` whose hook is left to the user, or whose URL is refused, ends with neither hook nor
timer: `NoneForgotten` asks for its route only (`Registers` tells who is to have more), and the
divergences say so. With a refused URL polling fails at its fetch and returns every time, so all
of the properties are expected there too.

*handback* asks whether polling picks up after a webhook `GitRepo` whose late deliveries are
still served, and whose previews carry its label and owner reference: they leave through
garbage collection before the pull request gets a new one. The converse does not hold: run
`handover` below.

*intake* asks whether judging each event by itself ends with the right previews, and whether the
parsers leave the policy and the handlers enough to do so on each platform. Who may ask is taken
from the documentation, who is let in from the code, and where the two differ `PreviewIsWanted`
names the exception (`pr \in uninvited`, an outsider on GitLab or Gitea); both are among the
divergences. `PollConfirms` is about a `GitRepo` that is switched from webhooks to polling: its
first pass judges other answers of the platform, updates heads only and creates without a look at
what is there, and still leaves an open pull request as the webhooks did, provided that it is
eligible or has no preview. `NameLaws` compares `slugify` with a reference definition (which
places of the word the slug keeps: the letters and digits, and the first of the others between
two) and says when a name is valid: a cut is the only way to a name that ends in a dash.

Why these bounds. Two handlers and one reconciler give every pair of concurrent writers, and what
they race for is one object: a third writer adds no new kind of conflict, since a conflict is
decided by whether one's own copy is current. Two head commits and two clone URLs are what an
update can tell apart. Two moves give each pair of outside events (close then reopen, push then
close, comment then transfer, remove in the middle of each); one failure is placed at every point
of every such run. Three pull requests make a poll pass with an updated, a created and a deleted
object. `MaxComments` saturates a counter whose properties only ask for "none", "one" or "more".
Two `GitRepo`s suffice for supersession, since `findWebhookConflict` looks for any one other; two
moves give each pair of changes (create a webhook `GitRepo` and delete it again, a mode changed
and changed back) in every phase of the other's reconcile. MCSupersession starts with one
`GitRepo` that polls, so that the moves are not spent on creating the first. `Changing` are the
pull requests that open and close; the other stays open, because an empty answer deletes nothing.
Four moves in `intake` are an opening and three further events, or two openings and two: enough
for a label taken away, a comment after it and a push after that. `MaxName` is 7 instead of 253,
so that words of three characters and their doubles are cut in the middle, at a dash and not at
all; the words are all those of up to three characters out of a lower and an upper case letter,
'-' and '/', and their doubles around "a.". The profiles' branches have the same slug, or one that
is cut.

### Fairness

`Spec` has none. `FairSpec` adds weak fairness of: a step of the reconciler, a step of
each handler, a due timer, delivery of a watch event, delivery of a webhook,
Kubernetes' garbage collector; for polling, a step of the pass, the interval, the watches,
and the other controller's teardown (justified by `DeletionCompletes`); for supersession, a step
of the one worker, which takes the names in the order of its queue, so that no `GitRepo`
needs a fairness of its own, the watch and the timer of each `GitRepo`, some delivery, and for each
`PRDeployment` its garbage collection and its teardown; for registration, the reconciler, the
informer and its handler. Intake has safety properties only. These are
goroutines that the Go scheduler runs, timers of the workqueue, and watches that
controller-runtime re-establishes. Nothing is assumed of failures, restarts, kube-deploy's
progress or the platform's next move, and no strong fairness is assumed: a failed request
succeeds in the end because the failure budget is bounded, not because a retry is lucky.

### Sentences of the repository that the code does not live up to

Each of these runs checks one property that restates a sentence of the repository, and TLC
finds it violated ("findings" in `PROJECT.json` quotes the sentence).

| Run | What happens |
|---|---|
| `orphan` | App created, `PRDeployment` deleted before the App is in the cache: `reconcileDelete` sees no App and removes the finalizer; the App stays (`pr_deployment.go:235`). |
| `reclone` | Between `deleteAppCR` and the `Update` of the clone URL the reconciler recreates the App from the old clone URL, and nothing deletes it again (`gitrepo.go:427`). |
| `wait` | The App is deleted, the `Update` that clears the annotation conflicts, and the reconciler waits, for an App that nobody creates, for ever (`pr_deployment.go:95`). |
| `handover` | The poll `GitRepo` made the preview, the webhook one registers, the pull request closes: `deletePRDeployment` lists by the handling `GitRepo`'s label and finds nothing; the preview stays (`gitrepo.go:399`). |

Further divergences that were met while modelling and have no run of their own. The life of a
preview:

- `closed` served before `opened` leaves a preview of a closed pull request
  (`gitrepo.go:504`; README.md:6 "When the PR closes, the environment is torn down").
- An event whose handler fails is answered with status 500 and forgotten (`server.go:215`): unless
  the platform redelivers, its pull request is not created, updated or torn down. The runs lose
  events in this way, and no property expects the effect of a lost one.
- A commit status or comment whose request fails is not tried again: the error is dropped and the
  flag stored (`pr_deployment.go:184-186`, `197-199`).
- Deleting the `GitRepo` garbage-collects its `PRDeployment`s through their owner reference, though
  `pr_deployment.go:75-77` says that "the operator won't silently tear down a live preview" and
  that manual deletion "is the explicit cleanup path".
- The deploy comment can be posted twice: `NotifiedDeploy` (`types.go:354`, "tracks whether we've
  posted the deploy-ready comment") is stored, the cache still shows the previous copy, and the
  next reconcile announces again (`pr_deployment.go:183`).
- `NotifiedDeploy` is never reset: a commit pushed after the announcement gets no
  `success` status (`pr_deployment.go:183`; docs/example-complex.md:184).
- Two failures of `createApp` in a row write the same status twice; the second write
  produces no event, and the preview stays dormant until the next event
  (`pr_deployment.go:114`, `130`).
- `Image` and `Commit` are never cleared; after the App is replaced the status differs from
  the App's and is written again on each reconcile (`pr_deployment.go:261`; types.go:342).
- `BuildApp` names the App by the present template, `AppRef` by an earlier one: after an edit of
  the name template the two differ (`builder/app.go:34-48`).

Polling:

- The last open pull request to close keeps its preview, because an empty
  answer skips the delete pass (`gitrepo.go:323`).
- An open pull request that is not on the answer's only page is taken for closed and loses its
  preview (`gitrepo.go:329`; `gitrepo.go:319` "Only delete PRDeployments for PRs no longer open").
  Exception in `OpenIsKept`; *poll_liveness* has no page that is too small.
- The status write after a pass carries the time and wakes the controller through its
  own watch, so the next pass does not wait for the interval (`gitrepo.go:142`; types.go:79).
- The policy is asked about pull requests without a `PRDeployment` only: taking the label away
  tears nothing down (`gitrepo.go:296`, `307`). For the same reason a pass takes the preview that
  a comment asked for to every new head of an author who is not trusted, whose pushes the webhooks
  ignore: the case that `PollConfirms` leaves out.

Registration and supersession:

- After an edit of `webhookPath` or of the external URL the hook on the platform keeps the old
  URL; the old route serves it until the next restart, and nothing does afterwards
  (`gitrepo.go:165`; docs/quickstart-webhook.md:6-8). `HookServed` has the restart as its
  exception.
- A hook whose ID could not be stored (conflict, crash, lost answer) stays on the platform next
  to the one that is registered afterwards, though gitrepo.go:163 says "and haven't done it
  yet"; a failed deregistration leaves one too (`gitrepo.go:233`). The old path's route stays
  after an edit of `webhookPath`.
- A `GitRepo` whose repository URL `platform.New` refuses is reported as `Error` and not looked at
  again (`gitrepo.go:184`: neither a hook nor `RequeueAfter`), until an event or a restart. The
  same holds, with the status `manual`, without `webhookSecret` or external URL
  (`gitrepo.go:210-216`), where the user is to register the hook. `NoneForgotten` asks of both for
  their route only.
- A custom `webhookPath` outside `/webhook/` is registered but the server's mux never routes to
  it (`server.go:79`).
- The second watch compares names without namespaces: a poll `GitRepo` with the name of the
  webhook one in another namespace is not woken (`gitrepo.go:74`); its own timer, five minutes,
  remains.
- A failing `List` counts as "no conflict", so a suspended `GitRepo` polls once more
  (`gitrepo.go:601`); a webhook `GitRepo` counts until it is gone, while it is being deleted too.
  Two webhook `GitRepo`s of one repository are not noticed.
- A `GitRepo` whose mode is changed from webhook to poll keeps its hook and its route; its
  deliveries are still handled.

Events, policy and names:

- `"*"` among the allowed commenters is anybody (`policy/trust.go:65`), though types.go:118 says
  'Use ["*"] to allow any member' and docs/example-complex.md:73 "any repository member": the
  comment of somebody with the association `NONE` deploys a pull request. Exception `uninvited` in
  `PreviewIsWanted`; `AskedIsDeployed` does not count on it.
- The parsers of GitLab and Gitea, and what polling makes of their lists, give every author the
  association `MEMBER` (`webhook/gitlab.go:62`, `webhook/gitea.go:69`), though
  docs/example-complex.md:56 says "mapped to MEMBER or NONE": an outsider's pull request is
  deployed, and an outsider's comment where there is no list of commenters. Exceptions in
  `PreviewIsWanted`, the second as `uninvited`.
- No parser looks at the state of a pull request: a label or a comment on a closed one creates a
  preview that nothing tears down (`gitrepo.go:356`, exception `late` in `PreviewIsWanted`).
- GitLab has one word, `update`, for a push and a label; it becomes `synchronize`, and a
  `synchronize` that fails the policy is ignored. A label taken away leaves the preview (exception
  in `PreviewIsWanted`), though `gitrepo.go:359` deletes it on the other platforms.
- Any change of labels on GitHub or Gitea tears down a preview that a comment asked for, because the
  author and not the commenter is judged again (`Relabel` takes it out of `asked`).
- GitLab's note hook is sent for edits too, and the parser does not ask: an edited comment
  triggers again.
- On GitLab and Gitea the clone URL is that of the watched repository (`gitrepo.go:681`, "always
  same-repo for now"): a fork's branch is looked for upstream.
- With a branch in the name template two branches can have one slug (`a/b`, `a_B`): their pull
  requests share one `PRDeployment`, and either one's end removes it. So do, under
  the default template, two repositories whose URLs end in the same segment.
- `slugify` cuts after it trims, so a name can end in '-'; a branch without a letter or digit has
  an empty slug (`builder/app.go:258-267`). Kubernetes refuses both, and the event is lost.

## 4. What is proved

TLAPS proves the safety properties that the passing runs check, except `NoOrphanApp` and
`LifecycleSpec`, which hold only where the App cache is current (see below), for any number of
handlers, pull requests, commits, clone URLs, `GitRepo`s, failures and moves, any policy and words
of any length:

| Theorem | Module | Statement |
|---|---|---|
| `TypeCorrect` | PreviewTypeProofs | `Spec => []TypeOK` |
| `NoOrphan` | PreviewProofs | `Spec => OrphanedByLookup` |
| `ImplementsLifecycle` | PreviewProofs | `Spec => LifecycleButOverlooked` |
| `NothingLost` | PreviewUpdateProofs | `Spec => NoLostUpdate` |
| `PostedFirst` | PreviewUpdateProofs | `Spec => []FlagAfterPost` |
| `PollTypeCorrect` | PollProofs | `Spec => []TypeOK` |
| `OpenKept` | PollProofs | `Spec => OpenIsKept` |
| `WebhookTypeCorrect` | WebhookProofs | `Spec => []TypeOK` |
| `HookExists`, `HookStays`, `RouteRemoved`, `HookReached` | WebhookProofs | `Spec` implies `[]RecordedHookExists`, `HookNotReplaced`, `RouteGone`, `HookServed` |
| `SupersessionTypeCorrect` | SupersessionProofs | `Spec => []TypeOK` |
| `MarkedWhenQuiet`, `AllRemembered` | SupersessionProofs | `Spec => []QuietlySettled`, `Spec => []NoneForgotten` |
| `IntakeTypes` | IntakeProofs | `Spec => []TypeOK` |
| `EligibleDeployed`, `PreviewWanted`, `AskedDeployed` | IntakeProofs | `Spec` implies `[]EligibleIsDeployed`, `[]PreviewIsWanted`, `[]AskedIsDeployed` |
| `PollConfirmed` | IntakeProofs | `Spec => []PollConfirms` |
| `NamesLawful` | IntakeProofs | `Spec => []NameLaws` |

**The preview.** `TypeOK` says more than types: a
reconcile past its first read has an object, one in `syncStatus` has an App, a handler
that applies an event knows a head commit, so no branch dereferences what is missing.

`OrphanedByLookup` is about single steps, but says something only where it is known from what copies
a step is taken. What keeps an App under a guarded `PRDeployment` is a
chain of copies, and `GuardInvariant` (PreviewProperties) says what each copy may
claim. The *marks* of a `PRDeployment` are its finalizer and its deletion timestamp.

- `CopiesAgree`: a copy that the API server would accept has the same marks as the
  object, so an accepted `Update` changes a mark only when its author means to.
- `CacheClaims`: the cache may be old, but never too hopeful: if it shows a finalizer and
  no deletion, the object still has its finalizer; if it shows a deletion, the object is
  being deleted, or is a new one without a finalizer.
- `RecGuarded`: a reconcile about to create an App does so under a finalizer; one that
  tears down works on an object that no reconcile will deploy again, and removes the
  finalizer only when its lookup showed no App or there is none.

Without `CacheClaims`, a reconcile could start to create an App for an object that was deleted and
created anew; without the second half of `RecGuarded`, an App could be created between the lookup
and the removal of the finalizer, which the single worker per key rules out. The proof has a lemma
per action and assumes nothing of the App cache. `NoOrphanApp` and `LifecycleSpec` themselves are
model-checked only, in `preview_safety`, whose App cache is current; that is what the informer
promises in the end and not at each moment, so no theorem rests on it. TLC checked
`GuardInvariant` on the instances of `preview_safety` and `preview_progress` first.

`ImplementsLifecycle` is the refinement proved step by step. The mapping sees only the marks and
whether there is an App, so the proof goes through one predicate: `MarkStep` lists what a step can
do to them (leave both alone, or change one of them in one of five ways). Each kind of step is a
`MarkStep` under `GuardInvariant`: for a reconcile that is `CopiesAgree` (an accepted write goes
on from a copy with the object's marks), for the end of a deletion `RecGuarded` (no App is left,
or it was overlooked). And each `MarkStep` is a step of the lifecycle, a stutter, or the one
exception.

The invariant of `NothingLost`, `CopiesCarry`, says of each copy that the API server would accept
that it has the object's finalizer and, for the cache and the reconciler, its head commit and
clone URL; so an accepted `Update` overwrites nothing else. `PostedFirst` rests on `FlagsPosted`:
the flags of the object, of the cache and of the reconciler's copy are those of comments that were
posted, not asked for, or lost to a failed request (`Announced`): nothing takes a comment back or
a kind out of `dropped`, and a flag is set in the step after the one that posts.

**Polling.** `OpenIsKept` needs to know why a pass deletes. `PollInvariant` adds to `TypeOK`:

- `CopiesCurrent`: a cached or listed object of the present version is what the API server has,
  so an `Update` that is accepted revives nothing.
- `AnswerHolds`: a pull request that the answer lacks was closed when the platform gave it, or the
  answer was a full page; and it is closed still, unless it was reopened since (`pass.reopened`).
- `DeletesByAnswer`: a pass that has something to delete has an answer that is not empty: the guard
  of `gitrepo.go:323` is what keeps a spurious empty answer from deleting everything.

That a page that leaves out an open pull request is full is a fact about cardinalities
(`PageIsFull`).

**Registration.** The four theorems share one inductive invariant, `Invariants`, because each of
the three records is protected by another:

- `CacheCurrent` and `CopyCurrent`: a copy that the API server would accept has the object's path
  and deletion mark; the cache may show an ID too many, and a reconcile that is about to register
  or to record does so from a version without an ID. So an accepted `Update` replaces no ID.
- `MapShared`: only while the cache still holds what the reconciler read do the two share a map.
- `Stages`: what a reconcile has done by the time it reaches a program counter: the route
  registered and the hook on the platform before the ID is stored, the route removed before the
  hook and the finalizer.
- `Younger`: a copy that shows a deletion is older than a live `GitRepo` with an ID; otherwise a
  late teardown of the previous object of the name could remove the route of the present one.
- `Guarded`: an ID is carried with a finalizer only, so the removal of the object passes through
  `reconcileDelete`.
- `RecordedHookExists` itself.

`NewHookID` is where the assumption on the number of IDs is used: three copies carry one at a time.

**Supersession.** `QuietlySettled` speaks of quiet states only; its invariant `Settled` says what
each poll `GitRepo` still waits for in any other state without failures so far. It is `Attended`:
its object is not yet seen by the cache, or it is queued, or the worker is about to report,
against the version that it read, what the cache demands, or its mark is what the cache demands.
"What the cache demands" is the list that `findWebhookConflict` reads, so only an `Observe` can
change it, and then the map function of the second watch has queued the `GitRepo`: that is the
step of the proof where looking at the old object too matters. In a quiet state the cache is the
API server's and only the last disjunct is left. The proof is for any number of `GitRepo`s and
moves, and for any list of faults as long as none has struck. `Reads` adds to `TypeOK` that a
fresh copy is the object and that what the worker read has the finalizer. The first part of the
module shows that the workqueue stays one: each name once, `SetToSeq` and the sequence operators
adding and removing the names they should.

`NoneForgotten` speaks of quiet states too, but of all `GitRepo`s and with failures and restarts.
Its invariant `Memory` says of each name what it is still `Remembered` by: a watch event to come,
a place in the queue, or, when it has neither, a timer that is set or that the reconcile in
progress will set (`Returning`), the poll in progress, or the hook and the route that serve it;
for a `GitRepo` whose hook is left to the user, or refused with its URL, the route is all there
will be. Two facts about old copies are needed. `HookSafe`: the hook that a living `GitRepo`
records is there, and no old copy in the cache shows a deletion, because a reconcile of such a
copy would take the hook of its successor. `ReadsLive`: what the worker read and is current is not
being deleted, so its status write does not pass over a deletion. The proof has a lemma per kind
of step (`StartsKept`, `RegisterKept`, `ProceedKept`, `ReportKept`, `OutsideKept`), and one that
says that a step forgets nobody but the `GitRepo` at work (`OthersRemembered`).

**Intake.** The three properties speak of states where every payload is served; in all others
something in the queue will still set things right. `Coming(q, good, bad)` says that a payload in
`good` is in the queue and none in `bad` behind it, `Undisturbed(q, bad)` that none in `bad` is
there at all. The inductive invariant `IInv` is then `Typed` and three cases of one idea:

- `EligibleKept`: an open and eligible pull request with a name of its own has its preview at its
  present head, and nothing coming removes it or brings an old head; or a payload is coming that
  deploys it as it is now.
- `AskedKept`: the same for a pull request that a comment asked for, whatever the author's pushes
  fail.
- `UnwantedGone`: a preview whose pull request is neither has a payload coming that removes it, with
  none behind that restores it.

`Typed` adds to `TypeOK` that a payload has the branch and the clone URL of its pull request,
which do not change (`PayloadsKnown`), that a preview stands under the name of its pull request
(`PreviewsNamed`), and where its clone URL comes from (`PreviewsCloned`). Every move of the
platform posts one payload (`Posts`) and every payload is served alike (`Serving`), so the proof
is a lemma per kind of move about the sets `Deploying`, `Removing`, `Stale`, `Fresh` and `Undoing`
of payloads, not one per platform and event. `UnwantedGone` is about the comments that the code
lets ask, `Answered`: those that may by the documentation and those that may not;
`PreviewIsWanted` tells them apart. `PollConfirmed` follows from the invariant: an eligible pull
request has its preview at the head that the answer has too, so the update changes nothing; one
that has none is not eligible, so that the policy refuses the answer, too; and no other pull
request of the answer has its name.

**Naming.** What `slugify` computes for every word is proved by induction on its length. The
induction theorems of the library take an operator, which the provers cannot instantiate;
`Induction` (NamingProofs) takes a set of numbers instead and follows from the well-foundedness of
`<`. `SqueezingExists` shows by it that the recursion in `Squeezed` has a solution;
`SqueezedPicks` that the result consists of the characters at the places `Single` and has no two
dashes in a row; `CleanPicks` that trimming leaves those at the places `Kept` of the reference;
and `PicksUnique` that the places determine the word. From this, `DashDropped`: a dash at the end
of a word does not change its slug. And since a slug differs from its own slug by such a dash at
most (`SlugOfSlug`), cutting twice does not change a name (`BranchAndSlug`).

The assumptions on constants are `ClusterAssumption`, `CommentAssumption`,
`HandleEventAssumption`, `MovesAssumption`, `PollAssumption`, `WebhookAssumption`,
`SupersessionAssumption`, `NamingAssumption` and `IntakeAssumption`: the sets are disjoint from
`None`, the bounds are naturals, the kinds are known, sets that are counted are finite, and there
is always a hook ID that no copy carries. TLC evaluates each of them in some run. Each inductive
invariant was checked by TLC on the instances of the runs before it was proved.

Only model-checked: the liveness properties of `preview_progress`, `webhook_hook`,
`poll_liveness`, `supersession` and `handback`. They hold under fairness, and temporal reasoning
with `ENABLED` is out of the prover's reach. No module here declares a `RECURSIVE` operator,
because the SMT backend is lost there.

## 5. Abstractions

- A watch delivers the newest object; intermediate versions are skipped. The operator
  never depends on seeing each version.
- The reads at the start of a reconcile are one step with the branch they lead to: they are
  local reads of caches in one process. `LookupApp` and the handlers' reads, which come
  after a request, are separate.
- kube-deploy removes an App at once when it is deleted.
- A lost answer (request applied, error reported) is modelled for the creation of the App
  only, where the code's next decision depends on it.
- A failed post is one fault, whatever failed: the secret, the platform's notifier or the request.
  The comment at the end of a deletion (`OnClose`) is left out; the two others are posted where
  `NotifyKinds` has them, both in most runs, `"deploy"` alone in `preview_safety`.
- `OpenIsKept` excludes a pull request reopened between the answer and the delete pass (the next
  pass brings its preview back, `poll_liveness` has the move `reopen`), and an answer that is a
  full page; the instance of *poll_liveness* never has more open pull requests than its page
  holds.
- `NoLostUpdate` is about the reconciler's writes against the handlers', and the finalizer against
  both. Two handlers with different events store what their own carries, and the later accepted
  `Update` wins: no property forbids it.
- Polling does not model clone URLs, and its `PRDeployment` has head commit and deletion mark
  only; the writes of the other controller are `OwnWrite` and `TeardownEnds`.
- A watch event updates the cache and enqueues the key in one step, except in
  WebhookRegistration; timers give Preview the reconciles that fall in between.
- A platform accepts a second hook for the same URL. The `GitRepo` of WebhookRegistration stays in
  webhook mode; its external URL is fixed: it is a flag of the process, so another one comes with
  a restart. A hook that the user sets up (`"manual"`) is on the platform without the operator's
  knowledge and posts nothing here.
- Supersession reads `PRDeployment`s as they are and has one namespace, so that the names of
  previews are shared by all `GitRepo`s of the repository. A `GitRepo` has at most one hook there.
- A poll pass of Supersession makes all its changes at once; what happens between two of them is
  GitRepoPoll's.
- Intake serves deliveries in order and without failures; Preview and Supersession have the rest.
  Texts are values: that comparisons ignore case, and that the trigger phrase is searched for, is
  left out. `EligibleIsDeployed` and `PollConfirms` speak of pull requests whose names are valid
  and their own; `NameLaws` allows a name that ends in '-' after a cut.
- `RepoName` leaves out the suffix ".git"; errors of a template's rendering are left out.
- Left out: URLs, host names, labels, namespaces, templates, comment texts, resource limits,
  secrets and signatures, HTTP and JSON.

## 6. Plan

Done: the life of a preview, polling, registration, supersession, the parsers with policy and
naming, and the proofs of section 4. Next: what is left to prove is that Supersession and
GitRepoPoll tell the same story, a pass of the one being the requests of the other, as a
refinement; and to model two webhook `GitRepo`s with their own namespaces, so that dispatch and
labels are told apart from names.

Not modelled, and why: `main.go` (wiring, no behaviour of its own); HTTP, JSON, signatures and
tokens; host names, build overrides, resource limits and the other fields of an App, which are
data passed through; the health endpoints and paths outside `/webhook/` of the server.
