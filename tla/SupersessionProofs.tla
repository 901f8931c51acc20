------------------------- MODULE SupersessionProofs -------------------------
(***************************************************************************)
(* Proofs about Supersession: its states are well typed, and once the      *)
(* queue is empty each poll GitRepo is marked as its rivals demand.        *)
(***************************************************************************)
EXTENDS Supersession, SequenceTheorems, FiniteSetTheorems, TLAPS

\* A workqueue: a sequence of GitRepos without repetition.
Queue(q) == q \in Seq(GitRepos) /\ IsInjective(q)

\* SetToSeqs lists a set: each of its sequences is a queue of the set's elements.
LEMMA ListingIsQueue ==
  ASSUME NEW S \in SUBSET GitRepos, NEW q \in [1..Cardinality(S) -> S], IsInjective(q)
  PROVE  Queue(q) /\ ToSet(q) = S
  <1>1. IsFiniteSet(S)
    BY FS_Subset, SupersessionAssumption
  <1>2. /\ Cardinality(S) \in Nat
        /\ IsFiniteSet(1..Cardinality(S)) /\ Cardinality(1..Cardinality(S)) = Cardinality(S)
    <2>1. Cardinality(S) \in Nat
      BY <1>1, FS_CardinalityType
    <2> QED
      BY <2>1, FS_Interval
  <1>3. q \in Seq(GitRepos)
    BY <1>2
  <1>4. q \in Surjection(1..Cardinality(S), S)
    <2>1. q \in Injection(1..Cardinality(S), S)
      BY DEF Injection
    <2> QED
      BY <1>1, <1>2, <2>1, FS_Injection
  <1> QED
    BY <1>3, <1>4 DEF Queue, ToSet, Surjection

LEMMA SetToSeqIsQueue ==
  ASSUME NEW S \in SUBSET GitRepos
  PROVE  Queue(SetToSeq(S)) /\ ToSet(SetToSeq(S)) = S
  <1>1. ExistsBijection(1..Cardinality(S), S)
    BY FS_Subset, FS_CardinalityType, SupersessionAssumption
  <1>2. \E f \in [1..Cardinality(S) -> S] : IsInjective(f)
    BY <1>1 DEF ExistsBijection, Bijection, Injection
  <1>3. SetToSeq(S) \in [1..Cardinality(S) -> S] /\ IsInjective(SetToSeq(S))
    BY <1>2 DEF SetToSeq
  <1> QED
    BY <1>3, ListingIsQueue

LEMMA ListedSet ==
  ASSUME NEW S \in SUBSET GitRepos, NEW q \in SetToSeqs(S)
  PROVE  Queue(q) /\ ToSet(q) = S
  <1>1. q \in [1..Cardinality(S) -> S] /\ IsInjective(q)
    BY DEF SetToSeqs, IsInjective
  <1> QED
    BY <1>1, ListingIsQueue

LEMMA QueueElements ==
  ASSUME NEW q, Queue(q)
  PROVE  ToSet(q) \subseteq GitRepos /\ ToSet(q) = {q[i] : i \in 1..Len(q)} /\ Len(q) \in Nat
  BY ElementOfSeq, LenProperties DEF Queue, ToSet

\* Two queues without a common name make a queue of all names of both.
LEMMA ConcatIsQueue ==
  ASSUME NEW q, NEW r, Queue(q), Queue(r), ToSet(q) \cap ToSet(r) = {}
  PROVE  Queue(q \o r) /\ ToSet(q \o r) = ToSet(q) \cup ToSet(r)
  <1> DEFINE s == q \o r
  <1>1. /\ s \in Seq(GitRepos) /\ Len(s) = Len(q) + Len(r) /\ DOMAIN s = 1..Len(s)
        /\ \A i \in 1..Len(q) + Len(r) : s[i] = IF i <= Len(q) THEN q[i] ELSE r[i - Len(q)]
    BY ConcatProperties, LenProperties DEF Queue
  <1>2. /\ Len(q) \in Nat /\ Len(r) \in Nat
        /\ DOMAIN q = 1..Len(q) /\ DOMAIN r = 1..Len(r)
    BY LenProperties DEF Queue
  <1> HIDE DEF s
  <1>3. ToSet(q) \cup ToSet(r) \subseteq ToSet(s)
    <2>1. ASSUME NEW i \in 1..Len(q) PROVE q[i] \in ToSet(s)
      BY <1>1, <1>2 DEF ToSet
    <2>2. ASSUME NEW i \in 1..Len(r) PROVE r[i] \in ToSet(s)
      <3>1. Len(q) + i \in 1..Len(s) /\ s[Len(q) + i] = r[i]
        BY <1>1, <1>2
      <3> QED
        BY <1>1, <3>1 DEF ToSet
    <2> QED
      BY <1>2, <2>1, <2>2 DEF ToSet
  <1>4. ToSet(s) \subseteq ToSet(q) \cup ToSet(r)
    BY <1>1, <1>2 DEF ToSet
  <1>5. IsInjective(s)
    <2> SUFFICES ASSUME NEW i \in 1..Len(s), NEW j \in 1..Len(s), s[i] = s[j] PROVE i = j
      BY <1>1 DEF IsInjective
    <2>1. \A k \in 1..Len(s) :
            \/ k <= Len(q) /\ k \in 1..Len(q) /\ s[k] = q[k] /\ s[k] \in ToSet(q)
            \/ k > Len(q) /\ k - Len(q) \in 1..Len(r) /\ s[k] = r[k - Len(q)] /\ s[k] \in ToSet(r)
      BY <1>1, <1>2 DEF ToSet
    <2>2. CASE i <= Len(q) /\ j <= Len(q)
      BY <1>2, <2>1, <2>2 DEF Queue, IsInjective
    <2>3. CASE i > Len(q) /\ j > Len(q)
      <3>1. i - Len(q) = j - Len(q)
        BY <1>2, <2>1, <2>3 DEF Queue, IsInjective
      <3> QED
        BY <1>1, <1>2, <3>1
    <2>4. CASE i <= Len(q) /\ j > Len(q)
      BY <1>2, <2>1, <2>4
    <2>5. CASE i > Len(q) /\ j <= Len(q)
      BY <1>2, <2>1, <2>5
    <2> QED
      BY <1>1, <1>2, <2>2, <2>3, <2>4, <2>5
  <1> QED
    BY <1>1, <1>3, <1>4, <1>5 DEF Queue, s

LEMMA EnqueuedIsQueue ==
  ASSUME NEW q, Queue(q), NEW names \in SUBSET GitRepos
  PROVE  Queue(Enqueued(q, names)) /\ ToSet(Enqueued(q, names)) = ToSet(q) \cup names
  <1> DEFINE r == SetToSeq(names \ ToSet(q))
  <1>1. Queue(r) /\ ToSet(r) = names \ ToSet(q)
    BY SetToSeqIsQueue
  <1> HIDE DEF r
  <1>2. Queue(q \o r) /\ ToSet(q \o r) = ToSet(q) \cup ToSet(r)
    BY <1>1, ConcatIsQueue
  <1> QED
    BY <1>1, <1>2 DEF Enqueued, r

\* Done and Again: the head leaves a queue, or goes to its end.
LEMMA TailIsQueue ==
  ASSUME NEW q, Queue(q), q # <<>>
  PROVE  /\ Head(q) \in GitRepos
         /\ Queue(Tail(q)) /\ ToSet(Tail(q)) = ToSet(q) \ {Head(q)}
  <1> DEFINE t == Tail(q)
  <1>1. /\ t \in Seq(GitRepos) /\ Len(t) = Len(q) - 1 /\ DOMAIN t = 1..Len(t)
        /\ \A i \in 1..Len(t) : t[i] = q[i + 1]
    BY HeadTailProperties, LenProperties DEF Queue
  <1>2. /\ Len(q) \in Nat \ {0} /\ DOMAIN q = 1..Len(q) /\ Head(q) = q[1]
        /\ Head(q) \in GitRepos
    BY EmptySeq, LenProperties, HeadTailProperties DEF Queue
  <1> HIDE DEF t
  <1>3. IsInjective(t)
    BY <1>1, <1>2 DEF Queue, IsInjective
  <1>4. ToSet(t) \subseteq ToSet(q) \ {Head(q)}
    BY <1>1, <1>2 DEF Queue, IsInjective, ToSet
  <1>5. ToSet(q) \ {Head(q)} \subseteq ToSet(t)
    <2> SUFFICES ASSUME NEW i \in 1..Len(q), i # 1 PROVE q[i] \in ToSet(t)
      BY <1>2 DEF ToSet
    <2>1. i - 1 \in 1..Len(t) /\ t[i - 1] = q[i]
      BY <1>1, <1>2
    <2> QED
      BY <1>1, <2>1 DEF ToSet
  <1> QED
    BY <1>1, <1>2, <1>3, <1>4, <1>5 DEF Queue, t

LEMMA RotatedIsQueue ==
  ASSUME NEW q, Queue(q), q # <<>>
  PROVE  LET r == Append(Tail(q), Head(q)) IN Queue(r) /\ ToSet(r) = ToSet(q)
  <1>1. /\ Head(q) \in GitRepos /\ Queue(Tail(q))
        /\ ToSet(Tail(q)) = ToSet(q) \ {Head(q)}
    BY TailIsQueue
  <1>2. Queue(<<Head(q)>>) /\ ToSet(<<Head(q)>>) = {Head(q)}
    BY <1>1 DEF Queue, IsInjective, ToSet
  <1>3. Append(Tail(q), Head(q)) = Tail(q) \o <<Head(q)>>
    BY <1>1, AppendIsConcat DEF Queue
  <1>4. Head(q) \in ToSet(q)
    BY EmptySeq, LenProperties DEF Queue, ToSet
  <1>5. /\ Queue(Tail(q) \o <<Head(q)>>)
        /\ ToSet(Tail(q) \o <<Head(q)>>) = ToSet(Tail(q)) \cup {Head(q)}
    BY <1>1, <1>2, ConcatIsQueue
  <1> QED
    BY <1>1, <1>3, <1>4, <1>5

-----------------------------------------------------------------------------
(* Types *)

\* Beyond TypeOK: an idle worker has read nothing, what it read has the finalizer as
\* long as it is current, and a fresh name's cached object is the API server's.
Reads ==
    /\ rec.pc = "idle" => ~rec.current
    /\ rec.current => repos[rec.gitrepo].finalizer
    /\ \A g \in fresh : cached[g] = repos[g]

Typed == TypeOK /\ Reads

LEMMA FaultType ==
  ASSUME TypeOK, NEW kind, Fault(kind) \/ NoFault
  PROVE  faults' \in 0..MaxFaults
  BY SupersessionAssumption DEF TypeOK, Fault, NoFault

LEMMA RecType == NoRec \in Recs
  BY SupersessionAssumption DEF NoRec, Recs

LEMMA RecWith ==
  ASSUME NEW r \in Recs
  PROVE  /\ \A pc \in {"fetch", "apply", "register", "status"}, g \in GitRepos, uid \in 0..MaxMoves,
               current \in BOOLEAN :
              [r EXCEPT !.pc = pc, !.gitrepo = g, !.uid = uid, !.current = current] \in Recs
         /\ \A verdict, later \in BOOLEAN :
              LET s == [r EXCEPT !.verdict = verdict, !.later = later]
              IN  /\ s \in Recs /\ s.verdict = verdict
                  /\ s.pc = r.pc /\ s.gitrepo = r.gitrepo /\ s.current = r.current
  BY DEF Recs

LEMMA ReadType ==
  ASSUME Typed, NEW g \in GitRepos, cached[g] # None,
         NEW pc \in {"fetch", "apply", "register", "status"}
  PROVE  /\ Read(g, pc) \in Recs
         /\ Read(g, pc).pc = pc /\ Read(g, pc).gitrepo = g
         /\ Read(g, pc).current <=> g \in fresh
         /\ ~Read(g, pc).verdict
  <1>1. cached[g].uid \in 0..MaxMoves
    BY DEF Typed, TypeOK, Objects
  <1>2. (g \in fresh) \in BOOLEAN
    OBVIOUS
  <1>3. Read(g, pc) \in Recs
    BY <1>1, <1>2, RecType, RecWith, Zenon DEF Read
  <1> QED
    BY <1>3 DEF Read, NoRec

\* A new version of g, typed and with a finalizer if it needs one.
Proper(obj) ==
    /\ obj \in Objects \cup {None}
    /\ obj \in Objects => (obj.hook \/ obj.superseded => obj.finalizer)

LEMMA WriteType ==
  ASSUME Typed, NEW g \in GitRepos, NEW obj, Proper(obj), Write(g, obj)
  PROVE  /\ repos' \in [GitRepos -> Objects \cup {None}]
         /\ fresh' \subseteq GitRepos /\ fresh' \subseteq fresh
         /\ repos'[g] = obj /\ \A h \in GitRepos \ {g} : repos'[h] = repos[h]
         /\ \A h \in Present(repos') :
              repos'[h].hook \/ repos'[h].superseded => repos'[h].finalizer
         /\ \A h \in fresh' : cached[h] = repos'[h]
  BY DEF Typed, TypeOK, Reads, Write, Proper, Present

\* The versions that the actions make.
LEMMA ProperWrites ==
  ASSUME Typed, NEW g \in GitRepos, repos[g] # None
  PROVE  /\ Proper([repos[g] EXCEPT !.finalizer = TRUE])
         /\ Proper([repos[g] EXCEPT !.deleting = TRUE])
         /\ \A m \in Modes : Proper([repos[g] EXCEPT !.mode = m])
         /\ repos[g].finalizer => /\ Proper([repos[g] EXCEPT !.hook = TRUE])
                                  /\ \A b \in BOOLEAN : Proper([repos[g] EXCEPT !.superseded = b])
  <1>1. repos[g] \in Objects /\ (repos[g].hook \/ repos[g].superseded => repos[g].finalizer)
    BY DEF Typed, TypeOK, Present
  <1> QED
    BY <1>1 DEF Proper, Objects, Modes

LEMMA TypedInit == Init => Typed
  <1> SUFFICES ASSUME Init PROVE Typed
    OBVIOUS
  <1>1. \A m \in Modes : NewObject(0, m) \in Objects
    BY SupersessionAssumption DEF NewObject, Objects, Modes
  <1>2. \A g \in Present(repos) : ~repos[g].hook /\ ~repos[g].superseded
    BY DEF Init, Present, NewObject
  <1>3. queue \in Seq(GitRepos) /\ IsInjective(queue)
    BY ListedSet DEF Init, Queue, Present
  <1> QED
    BY <1>1, <1>2, <1>3, RecType, SupersessionAssumption DEF Init, Typed, TypeOK, Reads, NoRec

\* The GitRepo that Take names is the queue's head; what the queue becomes is a queue.
LEMMA TakeType ==
  ASSUME Typed, NEW g, Take(g)
  PROVE  /\ g \in GitRepos
         /\ Queue(Tail(queue)) /\ ToSet(Tail(queue)) = ToSet(queue) \ {g}
         /\ Queue(Append(Tail(queue), g)) /\ ToSet(Append(Tail(queue), g)) = ToSet(queue)
  BY TailIsQueue, RotatedIsQueue DEF Typed, TypeOK, Queue, Take

\* What a reconcile that begins with g's cached object and then reads keeps of Typed.
LEMMA StartType ==
  ASSUME Typed, NEW g \in GitRepos, Take(g), cached[g] # None, cached[g].finalizer,
         rec' \in Recs, rec'.pc # "idle", rec'.gitrepo = g, rec'.current <=> g \in fresh,
         Done, UNCHANGED <<platformVars, repoVars, previews, hooks, inbox, moves>>,
         routes' \subseteq GitRepos, faults' \in 0..MaxFaults
  PROVE  Typed'
  <1>1. queue' \in Seq(GitRepos) /\ IsInjective(queue)' /\ timers' \subseteq GitRepos
    BY TakeType DEF Done, Typed, TypeOK, Queue
  <1>2. rec'.current => repos'[g] # None /\ repos'[g].finalizer
    BY DEF Typed, TypeOK, Reads, repoVars
  <1> QED
    BY <1>1, <1>2 DEF platformVars, Typed, TypeOK, Reads, repoVars, Present

LEMMA StartReads ==
  ASSUME Typed, NEW g \in GitRepos, StartWebhook(g) \/ Suspend(g) \/ StartPoll(g)
  PROVE  /\ rec' \in Recs /\ rec'.pc # "idle" /\ rec'.gitrepo = g
         /\ rec'.current <=> g \in fresh
         /\ Suspend(g) => rec'.verdict
         /\ StartPoll(g) => ~rec'.verdict
  <1>1. cached[g] # None
    BY DEF StartWebhook, Suspend, StartPoll, Accepted
  <1>2. ASSUME NEW pc \in {"fetch", "apply", "register", "status"}, rec' = Read(g, pc)
        PROVE  /\ rec' \in Recs /\ rec'.pc # "idle" /\ rec'.gitrepo = g
               /\ (rec'.current <=> g \in fresh) /\ ~rec'.verdict
    BY <1>1, <1>2, ReadType
  <1>3. CASE Suspend(g)
    <2> DEFINE r == Read(g, "status")
    <2>1. r \in Recs /\ r.pc = "status" /\ r.gitrepo = g /\ (r.current <=> g \in fresh)
      BY <1>1, ReadType
    <2>2. rec' = [r EXCEPT !.verdict = TRUE, !.later = TRUE]
      BY <1>3 DEF Suspend
    <2>3. ~StartPoll(g) \/ rec' = Read(g, "fetch")
      BY DEF StartPoll
    <2> HIDE DEF r
    <2> QED
      BY <1>2, <2>1, <2>2, <2>3, RecWith
  <1>4. CASE StartWebhook(g) /\ ~Suspend(g)
    <2>1. \E pc \in {"register", "status"} : rec' = Read(g, pc)
      BY <1>4 DEF StartWebhook
    <2> QED
      BY <1>2, <1>4, <2>1
  <1>5. CASE StartPoll(g) /\ ~Suspend(g)
    BY <1>2, <1>5 DEF StartPoll
  <1> QED
    BY <1>3, <1>4, <1>5

LEMMA StartsTyped ==
  ASSUME Typed, NEW g \in GitRepos, StartWebhook(g) \/ Suspend(g) \/ StartPoll(g)
  PROVE  Typed'
  <1>1. Take(g) /\ cached[g] # None /\ cached[g].finalizer /\ Done
    BY DEF StartWebhook, Suspend, StartPoll, Accepted
  <1>2. UNCHANGED <<platformVars, repoVars, previews, hooks, inbox, moves>>
    BY DEF StartWebhook, Suspend, StartPoll, hookVars
  <1>3. routes' \subseteq GitRepos /\ faults' \in 0..MaxFaults
    <2>1. CASE StartWebhook(g) \/ Suspend(g)
      BY <2>1 DEF StartWebhook, Suspend, hookVars, Typed, TypeOK
    <2>2. CASE StartPoll(g)
      BY <2>2, FaultType DEF StartPoll, hookVars, Typed, TypeOK
    <2> QED
      BY <2>1, <2>2
  <1> QED
    BY <1>1, <1>2, <1>3, StartReads, StartType

\* Reconciles that end at once.
LEMMA EndsTyped ==
  ASSUME Typed, NEW g \in GitRepos, ReconcileGone(g) \/ ReconcileDelete(g) \/ AddFinalizer(g)
  PROVE  Typed'
  <1>1. /\ Queue(Tail(queue)) /\ Queue(Append(Tail(queue), g)) /\ rec.pc = "idle"
        /\ rec' = rec /\ timers' = timers
    BY TakeType DEF ReconcileGone, ReconcileDelete, AddFinalizer, Done, Again, Take
  <1>2. CASE ReconcileGone(g)
    BY <1>1, <1>2
    DEF platformVars, ReconcileGone, Done, Typed, TypeOK, Reads, Queue, repoVars, hookVars, Present
  <1>3. CASE ReconcileDelete(g)
    <2>1. routes' \subseteq GitRepos /\ hooks' \subseteq GitRepos
      BY <1>3 DEF ReconcileDelete, Typed, TypeOK
    <2>2. CASE g \in fresh
      <3>1. Write(g, None)
        BY <1>3, <2>2 DEF ReconcileDelete
      <3>2. Proper(None)
        BY SupersessionAssumption DEF Proper
      <3> QED
        BY <1>1, <1>3, <2>1, <2>2, <3>1, <3>2, WriteType
        DEF platformVars, ReconcileDelete, Done, Typed, TypeOK, Reads, Queue
    <2>3. CASE g \notin fresh
      BY <1>1, <1>3, <2>1, <2>3
      DEF platformVars, ReconcileDelete, Again, Typed, TypeOK, Reads, Queue, Present
    <2> QED
      BY <2>2, <2>3
  <1>4. CASE AddFinalizer(g)
    <2>1. CASE g \in fresh
      <3>1. repos[g] # None
        BY <1>4, <2>1 DEF AddFinalizer, Typed, Reads
      <3> QED
        BY <1>1, <1>4, <2>1, <3>1, ProperWrites, WriteType
        DEF platformVars, AddFinalizer, Again, Typed, TypeOK, Reads, Queue, hookVars
    <2>2. CASE g \notin fresh
      BY <1>1, <1>4, <2>2
      DEF platformVars, AddFinalizer, Again, Typed, TypeOK, Reads, Queue, Present, hookVars
    <2> QED
      BY <2>1, <2>2
  <1> QED
    BY <1>2, <1>3, <1>4

LEMMA RegisterTyped == Typed /\ RegisterHook => Typed'
  <1> SUFFICES ASSUME Typed, RegisterHook PROVE Typed'
    OBVIOUS
  <1> DEFINE g == rec.gitrepo
  <1>1. g \in GitRepos /\ rec \in Recs /\ faults' \in 0..MaxFaults
    BY FaultType DEF RegisterHook, Typed, TypeOK
  <1>2. hooks' \subseteq GitRepos
    BY <1>1 DEF RegisterHook, Typed, TypeOK
  <1>3. CASE rec.current /\ Write(g, [repos[g] EXCEPT !.hook = TRUE])
             /\ rec' = [rec EXCEPT !.pc = "status"] /\ UNCHANGED queue
    <2>1. repos[g] # None /\ repos[g].finalizer
      BY <1>3 DEF Typed, TypeOK, Reads
    <2>2. Proper([repos[g] EXCEPT !.hook = TRUE])
      BY <1>1, <2>1, ProperWrites
    <2>3. /\ repos' \in [GitRepos -> Objects \cup {None}]
          /\ fresh' \subseteq GitRepos
          /\ repos'[g] = [repos[g] EXCEPT !.hook = TRUE]
          /\ \A h \in Present(repos') :
               repos'[h].hook \/ repos'[h].superseded => repos'[h].finalizer
          /\ \A h \in fresh' : cached[h] = repos'[h]
      BY <1>1, <1>3, <2>2, WriteType
    <2>4. repos'[g] # None /\ repos'[g].finalizer
      <3>1. repos[g] \in Objects
        BY <1>1, <2>1 DEF Typed, TypeOK
      <3> QED
        BY <2>1, <2>3, <3>1, SupersessionAssumption DEF Objects
    <2>5. rec' \in Recs /\ rec'.gitrepo = g /\ rec'.pc = "status"
      BY <1>1, <1>3 DEF Recs
    <2> HIDE DEF g
    <2> QED
      BY <1>1, <1>2, <1>3, <2>3, <2>4, <2>5 DEF platformVars, RegisterHook, Typed, TypeOK, Reads
  <1>4. CASE queue' = Enqueued(queue, {g}) /\ rec' = NoRec /\ UNCHANGED <<repos, fresh>>
    <2>1. Queue(queue')
      BY <1>1, <1>4, EnqueuedIsQueue DEF Typed, TypeOK, Queue
    <2> QED
      BY <1>1, <1>2, <1>4, <2>1, RecType
      DEF platformVars, RegisterHook, Typed, TypeOK, Reads, Queue, NoRec, Present
  <1>5. CASE /\ \/ rec' = [rec EXCEPT !.pc = "status"]
                \/ rec' = [rec EXCEPT !.pc = "status", !.later = TRUE]
             /\ UNCHANGED <<hooks, repos, fresh, queue>>
    <2>1. rec' \in Recs /\ rec'.gitrepo = g /\ rec'.pc = "status" /\ rec'.current = rec.current
      BY <1>1, <1>5 DEF Recs
    <2> QED
      BY <1>1, <1>5, <2>1 DEF platformVars, RegisterHook, Typed, TypeOK, Reads, Present
  <1> QED
    BY <1>3, <1>4, <1>5 DEF RegisterHook

\* Fetching and applying move the worker on; what it read stays.
LEMMA ProceedTyped ==
  ASSUME Typed, FetchOpenPRs \/ ApplyAnswer
  PROVE  /\ Typed'
         /\ rec.pc # "idle" /\ rec'.pc # "idle" /\ rec'.gitrepo = rec.gitrepo
         /\ rec'.current = rec.current /\ rec'.verdict = rec.verdict
  <1>1. rec \in Recs /\ rec.pc \in {"fetch", "apply"} /\ rec.gitrepo \in GitRepos
    BY DEF FetchOpenPRs, ApplyAnswer, Typed, TypeOK
  <1>2. /\ rec' \in Recs /\ rec'.pc # "idle" /\ rec'.gitrepo = rec.gitrepo
        /\ rec'.current = rec.current /\ rec'.verdict = rec.verdict
    BY <1>1 DEF FetchOpenPRs, ApplyAnswer, Recs, Typed, TypeOK
  <1>3. previews' \in [PRs -> Previews \cup {None}]
    <2>1. CASE FetchOpenPRs
      BY <2>1 DEF FetchOpenPRs, Typed, TypeOK
    <2>2. CASE ApplyAnswer
      <3>1. NewPreview(rec.gitrepo, rec.uid) \in Previews
        BY <1>1 DEF NewPreview, Previews, Recs
      <3>2. \A pr \in PRs : previews[pr] \in Previews \cup {None}
        BY DEF Typed, TypeOK
      <3>3. \A p \in Previews : [p EXCEPT !.deleting = TRUE] \in Previews
        BY DEF Previews
      <3>4. \A pr \in PRs : Polled(rec.gitrepo)[pr] \in Previews \cup {None}
        BY <3>1, <3>2, <3>3 DEF Polled, Listed
      <3> QED
        BY <2>2, <3>4 DEF ApplyAnswer, Polled
    <2> QED
      BY <2>1, <2>2
  <1>4. faults' \in 0..MaxFaults
    BY FaultType DEF FetchOpenPRs, ApplyAnswer, Typed, TypeOK
  <1>5. UNCHANGED <<platformVars, repoVars, queueVars, hookVars, moves>>
    BY DEF FetchOpenPRs, ApplyAnswer
  <1> QED
    BY <1>1, <1>2, <1>3, <1>4, <1>5
    DEF platformVars, Typed, TypeOK, Reads, repoVars, queueVars, hookVars, Present

LEMMA ReportTyped == Typed /\ ReportStatus => Typed'
  <1> SUFFICES ASSUME Typed, ReportStatus PROVE Typed'
    OBVIOUS
  <1> DEFINE g == rec.gitrepo
  <1>1. g \in GitRepos /\ rec.verdict \in BOOLEAN /\ rec' = NoRec
    BY DEF ReportStatus, Typed, TypeOK, Recs
  <1>2. faults' \in 0..MaxFaults /\ timers' \subseteq GitRepos
    BY <1>1, FaultType DEF ReportStatus, Typed, TypeOK
  <1>3. CASE rec.current /\ Write(g, [repos[g] EXCEPT !.superseded = rec.verdict])
    <2>1. repos[g] # None /\ repos[g].finalizer
      BY <1>3 DEF Typed, TypeOK, Reads
    <2>2. Proper([repos[g] EXCEPT !.superseded = rec.verdict])
      BY <1>1, <2>1, ProperWrites
    <2>3. /\ repos' \in [GitRepos -> Objects \cup {None}]
          /\ fresh' \subseteq GitRepos
          /\ \A h \in Present(repos') :
               repos'[h].hook \/ repos'[h].superseded => repos'[h].finalizer
          /\ \A h \in fresh' : cached[h] = repos'[h]
      BY <1>1, <1>3, <2>2, WriteType
    <2> HIDE DEF g
    <2> QED
      BY <1>1, <1>2, <2>3, RecType
      DEF platformVars, ReportStatus, Typed, TypeOK, Reads, NoRec, hookVars
  <1>4. CASE UNCHANGED <<repos, fresh>>
    BY <1>1, <1>2, <1>4, RecType
    DEF platformVars, ReportStatus, Typed, TypeOK, Reads, NoRec, hookVars, Present
  <1> QED
    BY <1>3, <1>4 DEF ReportStatus

\* Watches and timers: what they enqueue are GitRepos.
LEMMA WakesTyped ==
  ASSUME Typed, NEW g \in GitRepos, Observe(g) \/ TimerEnds(g)
  PROVE  /\ Typed'
         /\ ToSet(queue) \subseteq ToSet(queue') /\ g \in ToSet(queue')
         /\ Observe(g) => SupersededBy(g) \subseteq ToSet(queue')
  <1>1. Queue(queue)
    BY DEF Typed, TypeOK, Queue
  <1>2. CASE Observe(g)
    <2>1. SupersededBy(g) \subseteq GitRepos
      BY DEF SupersededBy, Present
    <2>2. Queue(queue') /\ ToSet(queue') = ToSet(queue) \cup {g} \cup SupersededBy(g)
      <3> DEFINE q == Enqueued(queue, {g})
      <3>1. Queue(q) /\ ToSet(q) = ToSet(queue) \cup {g}
        BY <1>1, EnqueuedIsQueue
      <3>2. queue' = Enqueued(q, SupersededBy(g))
        BY <1>2 DEF Observe
      <3> HIDE DEF q
      <3> QED
        BY <2>1, <3>1, <3>2, EnqueuedIsQueue
    <2>3. /\ ToSet(queue) \subseteq ToSet(queue') /\ g \in ToSet(queue')
          /\ SupersededBy(g) \subseteq ToSet(queue')
      BY <2>2
    <2>4. Typed'
      BY <1>2, <2>2 DEF platformVars, Observe, Typed, TypeOK, Reads, Queue, hookVars, Present
    <2> QED
      BY <2>3, <2>4
  <1>3. CASE TimerEnds(g) /\ ~Observe(g)
    <2>1. Queue(queue') /\ ToSet(queue') = ToSet(queue) \cup {g}
      BY <1>1, <1>3, EnqueuedIsQueue DEF TimerEnds
    <2>2. Typed'
      BY <1>3, <2>1
      DEF platformVars, TimerEnds, Typed, TypeOK, Reads, Queue, repoVars, hookVars, Present
    <2> QED
      BY <1>3, <2>1, <2>2
  <1> QED
    BY <1>2, <1>3

\* Deliveries, garbage collection and teardown touch PRDeployments and the inbox only.
LEMMA PreviewsTyped ==
  ASSUME Typed,
         \/ \E d \in inbox : Deliver(d)
         \/ \E pr \in PRs : Collect(pr) \/ TeardownEnds(pr)
  PROVE  /\ Typed'
         /\ UNCHANGED <<repos, cached, fresh, queue, rec>>
  <1>1. \A p \in Previews : [p EXCEPT !.deleting = TRUE] \in Previews
    BY DEF Previews
  <1>2. UNCHANGED <<platformVars, repos, cached, fresh, queue, timers, rec, routes, hooks, moves>>
    BY DEF Deliver, Collect, TeardownEnds, repoVars, queueVars, hookVars
  <1>3. faults' \in 0..MaxFaults /\ inbox' \subseteq inbox
    BY FaultType DEF Deliver, Collect, TeardownEnds, hookVars, Typed, TypeOK
  <1>4. previews' \in [PRs -> Previews \cup {None}]
    <2>1. ASSUME NEW d \in inbox, Deliver(d) PROVE previews' \in [PRs -> Previews \cup {None}]
      <3>1. ASSUME NEW g \in Present(cached) PROVE Handled(g, d) \in [PRs -> Previews \cup {None}]
        <4>1. g \in GitRepos /\ cached[g].uid \in 0..MaxMoves
          BY <3>1 DEF Present, Typed, TypeOK, Objects
        <4>2. NewPreview(g, cached[g].uid) \in Previews
          BY <4>1 DEF NewPreview, Previews
        <4>3. d.pr \in Listed(g) => previews[d.pr] \in Previews
          BY DEF Listed, Typed, TypeOK
        <4> QED
          BY <1>1, <4>2, <4>3 DEF Handled, Typed, TypeOK
      <3> QED
        BY <2>1, <3>1 DEF Deliver, Typed, TypeOK
    <2>2. ASSUME NEW pr \in PRs, Collect(pr) PROVE previews' \in [PRs -> Previews \cup {None}]
      BY <1>1, <2>2 DEF Collect, Typed, TypeOK
    <2>3. ASSUME NEW pr \in PRs, TeardownEnds(pr) PROVE previews' \in [PRs -> Previews \cup {None}]
      BY <2>3 DEF TeardownEnds, Typed, TypeOK
    <2> QED
      BY <2>1, <2>2, <2>3
  <1> QED
    BY <1>2, <1>3, <1>4 DEF platformVars, Typed, TypeOK, Reads, Present

LEMMA RestartTyped == Typed /\ Restart => Typed' /\ faults' # 0
  <1> SUFFICES ASSUME Typed, Restart PROVE Typed' /\ faults' # 0
    OBVIOUS
  <1>1. Queue(queue')
    BY ListedSet DEF Restart, Present
  <1>2. faults' \in 0..MaxFaults /\ faults' # 0
    BY FaultType, SupersessionAssumption DEF Restart, Fault, Typed, TypeOK
  <1> QED
    BY <1>1, <1>2, RecType DEF platformVars, Restart, Typed, TypeOK, Reads, Queue, NoRec, Present

\* What a user writes of g makes the copy that the worker reads of it an old one.
LEMMA UserTyped ==
  ASSUME Typed, NEW g \in GitRepos, NEW obj, Proper(obj), UserWrites(g, obj),
         UNCHANGED <<validURL, cached, previews, queueVars, routes, hooks, faults>>,
         moves' \in 0..MaxMoves
  PROVE  Typed'
  <1>1. /\ repos' \in [GitRepos -> Objects \cup {None}]
        /\ fresh' \subseteq GitRepos
        /\ \A h \in GitRepos \ {g} : repos'[h] = repos[h]
        /\ \A h \in Present(repos') :
             repos'[h].hook \/ repos'[h].superseded => repos'[h].finalizer
        /\ \A h \in fresh' : cached[h] = repos'[h]
    BY WriteType DEF UserWrites
  <1>2. /\ rec' \in Recs /\ rec'.pc = rec.pc /\ rec'.gitrepo = rec.gitrepo
        /\ rec'.current => rec.current /\ rec.gitrepo # g
    BY DEF UserWrites, Typed, TypeOK, Recs
  <1>3. rec'.current => rec'.gitrepo \in GitRepos \ {g}
    BY <1>2 DEF Typed, TypeOK, Reads
  <1> QED
    BY <1>1, <1>2, <1>3 DEF UserWrites, Typed, TypeOK, Reads, queueVars

LEMMA OutsideTyped ==
  ASSUME Typed, OutsideMove
  PROVE  /\ Typed' /\ UNCHANGED <<cached, queue, faults>>
         /\ \/ UNCHANGED <<repos, fresh, rec>>
            \/ \E g \in GitRepos : \E obj : UserWrites(g, obj)
  <1>1. ASSUME NEW g \in GitRepos, Create(g) \/ Delete(g) \/ ChangeMode(g)
        PROVE  \E obj : Proper(obj) /\ UserWrites(g, obj)
    <2>1. CASE Create(g)
      <3>1. PICK m \in Modes : UserWrites(g, NewObject(moves + 1, m))
        BY <2>1 DEF Create
      <3>2. moves + 1 \in 0..MaxMoves
        BY <2>1, SupersessionAssumption DEF Create, Move, Typed, TypeOK
      <3>3. Proper(NewObject(moves + 1, m))
        BY <3>2 DEF NewObject, Objects, Proper
      <3> QED
        BY <3>1, <3>3
    <2>2. CASE Delete(g)
      <3>1. CASE repos[g].finalizer
        BY <2>2, <3>1, ProperWrites DEF Delete
      <3>2. CASE ~repos[g].finalizer
        <4>1. Proper(None)
          BY SupersessionAssumption DEF Proper
        <4> QED
          BY <2>2, <3>2, <4>1 DEF Delete
      <3> QED
        BY <3>1, <3>2
    <2>3. CASE ChangeMode(g)
      BY <2>3, ProperWrites DEF ChangeMode
    <2> QED
      BY <1>1, <2>1, <2>2, <2>3
  <1>2. moves' \in 0..MaxMoves
    <2>1. moves < MaxMoves /\ moves' = moves + 1
      BY DEF OutsideMove, Create, Delete, ChangeMode, Open, Close, Move
    <2> QED
      BY <2>1, SupersessionAssumption DEF Typed, TypeOK
  <1>3. ASSUME NEW pr \in PRs, Open(pr) \/ Close(pr)
        PROVE  Typed' /\ UNCHANGED <<repos, fresh, rec>>
    <2>1. UNCHANGED <<repos, fresh, rec>>
      BY <1>3 DEF Open, Close, Post
    <2>2. open' \subseteq PRs
      BY <1>3 DEF Open, Close, Typed, TypeOK
    <2>3. inbox' \subseteq Deliveries
      BY <1>3 DEF Open, Close, Post, Deliveries, Typed, TypeOK
    <2> QED
      BY <1>2, <2>1, <2>2, <2>3 DEF OutsideMove, Typed, TypeOK, Reads, queueVars, Present
  <1> QED
    BY <1>1, <1>2, <1>3, UserTyped DEF OutsideMove, queueVars

LEMMA TypedStep == Typed /\ [Next]_vars => Typed'
  <1> SUFFICES ASSUME Typed, [Next]_vars PROVE Typed'
    OBVIOUS
  <1>1. CASE ReconcileStep
    BY <1>1, EndsTyped, StartsTyped, RegisterTyped, ProceedTyped, ReportTyped DEF ReconcileStep
  <1>2. CASE Restart
    BY <1>2, RestartTyped
  <1>3. CASE OutsideMove
    BY <1>3, OutsideTyped
  <1>4. CASE \E g \in GitRepos : Observe(g) \/ TimerEnds(g)
    BY <1>4, WakesTyped
  <1>5. CASE \/ \E d \in inbox : Deliver(d)
             \/ \E pr \in PRs : Collect(pr) \/ TeardownEnds(pr)
    BY <1>5, PreviewsTyped
  <1>6. CASE UNCHANGED vars
    BY <1>6 DEF platformVars, vars, repoVars, queueVars, hookVars, Typed, TypeOK, Reads, Present
  <1> QED
    BY <1>1, <1>2, <1>3, <1>4, <1>5, <1>6 DEF Next

\* The GitRepos, their copies, the queue and the reconcile are always of their types:
\* a name is queued at most once, and a hook or a mark is only on a GitRepo with the
\* finalizer.
THEOREM SupersessionTypeCorrect == Spec => []TypeOK
  <1>1. Typed => TypeOK
    BY DEF Typed
  <1> QED
    BY <1>1, TypedInit, TypedStep, PTL DEF Spec

-----------------------------------------------------------------------------
(* QuietlySettled *)

Working(g) == rec.pc # "idle" /\ rec.gitrepo = g

\* The work that a poll GitRepo's mark still waits for: its object is not yet seen, it
\* is queued, or the worker has the right answer and is yet to report it.  Otherwise the
\* mark is what the cache demands.
Attended(g) ==
    \/ g \notin fresh
    \/ g \in ToSet(queue)
    \/ Working(g) /\ rec.current /\ (rec.verdict <=> WebhookConflict(g))
    \/ ~Working(g) /\ (repos[g].superseded <=> WebhookConflict(g))

Settled == faults = 0 => \A g \in GitRepos : Polls(g) => Attended(g)

LEMMA SettledInit == Init => Settled
  <1> SUFFICES ASSUME Init, NEW g \in GitRepos, Polls(g) PROVE g \in ToSet(queue)
    BY DEF Settled, Attended
  <1>1. g \in Present(repos)
    BY DEF Polls, InMode, Present
  <1> QED
    BY <1>1, ListedSet DEF Init, Present

\* A step that leaves alone GitRepo, cache and worker of g and takes no name but others'
\* from the queue leaves g attended.
LEMMA OthersAttended ==
  ASSUME NEW g \in GitRepos, Attended(g), cached' = cached,
         repos'[g] = repos[g], fresh' \subseteq fresh,
         ToSet(queue) \ ToSet(queue') \subseteq GitRepos \ {g},
         \/ rec' = rec
         \/ ~Working(g) /\ ~Working(g)'
  PROVE  Attended(g)'
  BY DEF Attended, Working, WebhookConflict, Present

LEMMA SettledReconcile == Typed /\ Settled /\ ReconcileStep => Settled'
  <1> SUFFICES ASSUME Typed, Settled, ReconcileStep, faults' = 0,
                      NEW g \in GitRepos, Polls(g)'
               PROVE  Attended(g)'
    BY DEF Settled
  <1>1. faults = 0 /\ faults \in Nat
    <2>1. faults' = faults \/ faults' = faults + 1
      BY DEF ReconcileStep, ReconcileGone, ReconcileDelete, AddFinalizer, StartWebhook, Suspend,
             StartPoll, RegisterHook, FetchOpenPRs, ApplyAnswer, ReportStatus, NoFault, Fault
    <2> QED
      BY <2>1, SupersessionAssumption DEF Typed, TypeOK
  <1>2. ASSUME NEW h \in GitRepos, Take(h), Done \/ Again(h), cached' = cached, g # h,
               repos'[g] = repos[g], fresh' \subseteq fresh,
               rec' = rec \/ rec'.gitrepo = h
        PROVE  Attended(g)'
    <2>1. ToSet(queue) \ ToSet(queue') \subseteq GitRepos \ {g}
      BY <1>2, TakeType DEF Done, Again
    <2>2. Polls(g) /\ Attended(g)
      BY <1>1, <1>2 DEF Settled, Polls, InMode
    <2>3. ~Working(g)
      BY <1>2 DEF Take, Working
    <2> QED
      BY <1>2, <2>1, <2>2, <2>3, OthersAttended DEF Working
  <1>3. ASSUME NEW h \in GitRepos, ReconcileGone(h) PROVE Attended(g)'
    <2>1. /\ Take(h) /\ Done /\ cached' = cached /\ repos' = repos /\ fresh' = fresh /\ rec' = rec
          /\ cached[h] = None
      BY <1>3 DEF ReconcileGone, repoVars
    <2>2. g = h => g \notin fresh'
      BY <2>1 DEF Polls, InMode, Typed, Reads
    <2> QED
      BY <1>2, <2>1, <2>2 DEF Attended
  <1>4. ASSUME NEW h \in GitRepos, ReconcileDelete(h) \/ AddFinalizer(h) PROVE Attended(g)'
    <2>1. Take(h) /\ cached' = cached /\ rec' = rec
      BY <1>4 DEF ReconcileDelete, AddFinalizer
    <2>2. Done \/ Again(h)
      BY <1>4 DEF ReconcileDelete, AddFinalizer
    <2>3. (\E obj : Write(h, obj)) \/ (UNCHANGED <<repos, fresh>> /\ h \notin fresh)
      BY <1>4 DEF ReconcileDelete, AddFinalizer
    <2>4. fresh' \subseteq fresh /\ h \notin fresh' /\ (g # h => repos'[g] = repos[g])
      BY <2>3 DEF Write, Typed, TypeOK
    <2> QED
      BY <1>2, <2>1, <2>2, <2>4 DEF Attended
  <1>5. ASSUME NEW h \in GitRepos, StartWebhook(h) \/ Suspend(h) \/ StartPoll(h) PROVE Attended(g)'
    <2>1. /\ Take(h) /\ Done /\ cached' = cached /\ repos' = repos /\ fresh' = fresh
          /\ cached[h] # None
      BY <1>5 DEF StartWebhook, Suspend, StartPoll, Accepted, repoVars
    <2>2. /\ rec'.gitrepo = h /\ rec'.pc # "idle" /\ (rec'.current <=> h \in fresh)
          /\ Suspend(h) => rec'.verdict
          /\ StartPoll(h) => ~rec'.verdict
      BY <1>5, StartReads
    <2>3. CASE g = h /\ g \in fresh
      <3>1. cached[g] = repos[g] /\ repos[g].mode = "poll"
        BY <2>1, <2>3 DEF Typed, Reads, Polls, InMode
      <3>2. ~StartWebhook(h)
        BY <2>3, <3>1 DEF StartWebhook, Accepted
      <3>3. rec'.verdict <=> WebhookConflict(g)
        BY <1>1, <1>5, <2>2, <2>3, <3>2 DEF Suspend, StartPoll, Fault
      <3>4. WebhookConflict(g)' <=> WebhookConflict(g)
        BY <2>1 DEF WebhookConflict, Present
      <3> QED
        BY <2>2, <2>3, <3>3, <3>4 DEF Attended, Working
    <2>4. CASE g = h /\ g \notin fresh
      BY <2>1, <2>4 DEF Attended
    <2> QED
      BY <1>2, <2>1, <2>2, <2>3, <2>4
  <1>6. CASE RegisterHook
    <2>1. cached' = cached /\ rec.pc = "register" /\ rec.gitrepo \in GitRepos
      BY <1>6 DEF RegisterHook, Typed, TypeOK
    <2>2. \/ Write(rec.gitrepo, [repos[rec.gitrepo] EXCEPT !.hook = TRUE]) /\ UNCHANGED queue
          \/ queue' = Enqueued(queue, {rec.gitrepo}) /\ UNCHANGED <<repos, fresh>>
          \/ UNCHANGED <<repos, fresh, queue>> /\ rec' = [rec EXCEPT !.pc = "status"]
      BY <1>1, <1>6, SupersessionAssumption DEF RegisterHook, Fault
    <2>3. /\ ToSet(queue) \subseteq ToSet(queue') /\ fresh' \subseteq fresh
          /\ g # rec.gitrepo => repos'[g] = repos[g]
      BY <2>1, <2>2, EnqueuedIsQueue DEF Write, Typed, TypeOK, Queue
    <2>4. CASE g = rec.gitrepo
      <3>1. CASE UNCHANGED <<repos, fresh, queue>> /\ rec' = [rec EXCEPT !.pc = "status"]
        <4>1. /\ rec'.gitrepo = g /\ rec'.pc = "status" /\ rec'.current = rec.current
              /\ rec'.verdict = rec.verdict
          BY <2>4, <3>1 DEF Typed, TypeOK, Recs
        <4>2. Attended(g) /\ Working(g) /\ Working(g)'
          BY <1>1, <2>1, <2>4, <3>1, <4>1 DEF Settled, Polls, InMode, Working
        <4>3. WebhookConflict(g)' <=> WebhookConflict(g)
          BY <2>1 DEF WebhookConflict, Present
        <4> QED
          BY <3>1, <4>1, <4>2, <4>3 DEF Attended
      <3>2. CASE rec.gitrepo \in fresh' => rec.gitrepo \in ToSet(queue')
        BY <2>4, <3>2 DEF Attended
      <3> QED
        BY <2>1, <2>2, <3>1, <3>2, EnqueuedIsQueue DEF Write, Typed, TypeOK, Queue
    <2>5. CASE g # rec.gitrepo
      <3>1. Polls(g) /\ Attended(g)
        BY <1>1, <2>3, <2>5 DEF Settled, Polls, InMode
      <3>2. rec'.gitrepo = rec.gitrepo \/ rec'.pc = "idle"
        <4>1. rec \in Recs
          BY DEF Typed, TypeOK
        <4>2. \/ rec' = [rec EXCEPT !.pc = "status"] \/ rec' = NoRec
              \/ rec' = [rec EXCEPT !.pc = "status", !.later = TRUE]
          BY <1>6 DEF RegisterHook
        <4>3. ASSUME NEW r \in Recs
              PROVE  /\ [r EXCEPT !.pc = "status"].gitrepo = r.gitrepo
                     /\ [r EXCEPT !.pc = "status", !.later = TRUE].gitrepo = r.gitrepo
          BY DEF Recs
        <4>4. NoRec.pc = "idle"
          BY DEF NoRec
        <4> QED
          BY <4>1, <4>2, <4>3, <4>4
      <3> QED
        BY <2>1, <2>3, <2>5, <3>1, <3>2, OthersAttended DEF Working
    <2> QED
      BY <2>4, <2>5
  <1>7. CASE FetchOpenPRs \/ ApplyAnswer
    <2>1. UNCHANGED <<repos, cached, fresh, queue>>
      BY <1>7 DEF FetchOpenPRs, ApplyAnswer, repoVars, queueVars
    <2>2. Polls(g) /\ Attended(g)
      BY <1>1, <2>1 DEF Settled, Polls, InMode
    <2> QED
      BY <1>7, <2>1, <2>2, ProceedTyped DEF Attended, Working, WebhookConflict, Present
  <1>8. CASE ReportStatus
    <2>1. /\ cached' = cached /\ queue' = queue /\ rec.pc = "status" /\ rec' = NoRec
          /\ \/ Write(rec.gitrepo, [repos[rec.gitrepo] EXCEPT !.superseded = rec.verdict])
             \/ /\ repos' = repos /\ fresh' = fresh
                /\ rec.current => repos[rec.gitrepo].superseded = rec.verdict
      BY <1>1, <1>8, SupersessionAssumption DEF ReportStatus, Fault
    <2>2. CASE g = rec.gitrepo
      <3>1. CASE g \in fresh'
        <4>1. /\ repos' = repos /\ fresh' = fresh
              /\ rec.current => repos[g].superseded = rec.verdict
          BY <2>1, <2>2, <3>1 DEF Write
        <4>2. Attended(g) /\ Working(g) /\ ~Working(g)'
          BY <1>1, <2>1, <2>2, <4>1 DEF Settled, Polls, InMode, Working, NoRec
        <4>3. WebhookConflict(g)' <=> WebhookConflict(g)
          BY <2>1 DEF WebhookConflict, Present
        <4> QED
          BY <2>1, <4>1, <4>2, <4>3 DEF Attended
      <3> QED
        BY <3>1 DEF Attended
    <2>3. CASE g # rec.gitrepo
      <3>1. repos'[g] = repos[g] /\ fresh' \subseteq fresh
        BY <2>1, <2>3 DEF Write, Typed, TypeOK
      <3>2. Polls(g) /\ Attended(g)
        BY <1>1, <3>1 DEF Settled, Polls, InMode
      <3> QED
        BY <2>1, <2>3, <3>1, <3>2, OthersAttended DEF Working, NoRec
    <2> QED
      BY <2>2, <2>3
  <1> QED
    BY <1>3, <1>4, <1>5, <1>6, <1>7, <1>8 DEF ReconcileStep

LEMMA SettledStep == Typed /\ Settled /\ [Next]_vars => Settled'
  <1> SUFFICES ASSUME Typed, Settled, [Next]_vars, faults' = 0,
                      NEW g \in GitRepos, Polls(g)'
               PROVE  Attended(g)'
    BY DEF Settled
  <1>1. CASE ReconcileStep
    BY <1>1, SettledReconcile DEF Settled
  <1>2. CASE Restart
    BY <1>2, RestartTyped
  <1>3. CASE OutsideMove
    <2>1. Attended(g) \/ ~Polls(g)
      BY <1>3, OutsideTyped DEF Settled
    <2>2. ASSUME NEW h \in GitRepos, NEW obj, UserWrites(h, obj)
          PROVE  Attended(g)'
      <3>1. CASE h = g
        BY <2>2, <3>1 DEF UserWrites, Write, Attended
      <3>2. CASE h # g
        <4>1. repos'[g] = repos[g] /\ fresh' \subseteq fresh /\ Polls(g)
          BY <2>2, <3>2 DEF UserWrites, Write, Polls, InMode, Typed, TypeOK
        <4>2. rec' = rec \/ (~Working(g) /\ ~Working(g)')
          BY <2>2, <3>2 DEF UserWrites, Working, Typed, TypeOK, Recs
        <4> QED
          BY <1>3, <2>1, <4>1, <4>2, OthersAttended, OutsideTyped
      <3> QED
        BY <3>1, <3>2
    <2>3. CASE UNCHANGED <<repos, fresh, rec>>
      BY <1>3, <2>1, <2>3, OthersAttended, OutsideTyped DEF Polls, InMode
    <2> QED
      BY <1>3, <2>2, <2>3, OutsideTyped
  <1>4. ASSUME NEW h \in GitRepos, Observe(h) PROVE Attended(g)'
    <2>1. /\ repos' = repos /\ rec' = rec /\ faults' = faults
          /\ fresh' = fresh \cup {h}
          /\ cached' = [cached EXCEPT ![h] = repos[h]]
      BY <1>4 DEF Observe
    <2>2. Polls(g) /\ Attended(g)
      BY <2>1 DEF Settled, Polls, InMode
    <2>3. /\ ToSet(queue) \subseteq ToSet(queue') /\ h \in ToSet(queue')
          /\ SupersededBy(h) \subseteq ToSet(queue')
      BY <1>4, WakesTyped
    <2>4. CASE g \notin ToSet(queue') /\ g \in fresh
      <3>1. g # h /\ cached[g] = repos[g] /\ cached[g] # None /\ cached[g].mode = "poll"
        BY <2>2, <2>3, <2>4 DEF Typed, Reads, Polls, InMode
      <3>2. g \notin SupersededBy(h) /\ g \in Present(cached) \ {h}
        BY <2>3, <2>4, <3>1 DEF Present
      <3>3. ~ \E obj \in {cached[h], repos[h]} \ {None} : ByWebhook(obj)
        BY <3>1, <3>2 DEF SupersededBy
      <3>4. WebhookConflict(g)' <=> WebhookConflict(g)
        <4>1. cached \in [GitRepos -> Objects \cup {None}]
          BY DEF Typed, TypeOK
        <4> QED
          BY <2>1, <3>3, <4>1 DEF WebhookConflict, Present
      <3> QED
        BY <2>1, <2>2, <2>3, <2>4, <3>4 DEF Attended, Working
    <2>5. CASE g \notin fresh
      BY <2>1, <2>3, <2>5 DEF Attended
    <2> QED
      BY <2>4, <2>5 DEF Attended
  <1>5. ASSUME NEW h \in GitRepos, TimerEnds(h) PROVE Attended(g)'
    BY <1>5, WakesTyped, OthersAttended DEF TimerEnds, repoVars, Settled, Polls, InMode
  <1>6. CASE \/ \E d \in inbox : Deliver(d)
             \/ \E pr \in PRs : Collect(pr) \/ TeardownEnds(pr)
    <2>1. UNCHANGED <<repos, cached, fresh, queue, rec>>
      BY <1>6, PreviewsTyped
    <2>2. faults = 0
      BY <1>6, SupersessionAssumption
      DEF Deliver, Collect, TeardownEnds, NoFault, Fault, Typed, TypeOK
    <2> QED
      BY <2>1, <2>2, OthersAttended DEF Settled, Polls, InMode
  <1>7. CASE UNCHANGED vars
    BY <1>7, OthersAttended DEF vars, repoVars, queueVars, Settled, Polls, InMode
  <1> QED
    BY <1>1, <1>2, <1>3, <1>4, <1>5, <1>6, <1>7 DEF Next

\* gitrepo.go:56: once the queue is empty and the cache is current, without any timer,
\* each poll GitRepo is marked as superseded exactly if there is a webhook GitRepo, for
\* any number of GitRepos and any history without a failure.
THEOREM MarkedWhenQuiet == Spec => []QuietlySettled
  <1>1. Typed /\ Settled => QuietlySettled
    <2> SUFFICES ASSUME Typed, Settled, faults = 0, Quiet, NEW g \in GitRepos, Polls(g)
                 PROVE  Superseded(g) <=> Rival(g)
      BY DEF QuietlySettled
    <2>1. fresh = GitRepos /\ ToSet(queue) = {} /\ ~Working(g)
      BY DEF Quiet, ToSet, Working
    <2>2. repos[g].superseded <=> WebhookConflict(g)
      BY <2>1 DEF Settled, Attended
    <2>3. WebhookConflict(g) <=> Rival(g)
      BY <2>1 DEF WebhookConflict, Rival, InWebhookMode, Present, Typed, Reads
    <2> QED
      BY <2>2, <2>3 DEF Superseded, Polls, InMode
  <1> QED
    BY <1>1, TypedInit, TypedStep, SettledInit, SettledStep, PTL DEF Spec

-----------------------------------------------------------------------------
(* NoneForgotten *)

\* The hook whose ID a GitRepo carries is there while it lives, and no old copy in the
\* cache is about to remove it.
HookSafe(g) ==
    repos[g] # None /\ ~repos[g].deleting /\ repos[g].hook =>
      g \in hooks /\ (cached[g] # None => ~cached[g].deleting)

\* What the worker read and is still current is not being deleted, and the cache says so.
ReadsLive ==
    rec.current => /\ ~repos[rec.gitrepo].deleting
                   /\ cached[rec.gitrepo] # None /\ ~cached[rec.gitrepo].deleting

\* The worker will ask to come back to g.
Returning(g) == g \in timers \/ (Working(g) /\ rec.pc = "status" /\ rec.later)

\* What g still waits for: a watch event, its turn, or a timer that is set or will be when
\* the reconcile in progress ends.  A hook that is there, or will never be, needs none.
Remembered(g) ==
    \/ g \notin fresh
    \/ g \in ToSet(queue)
    \/ /\ repos[g] # None => ~repos[g].deleting
       /\ Polls(g) => Returning(g) \/ (Working(g) /\ rec.pc \in {"fetch", "apply"})
       /\ InWebhookMode(g) => g \in routes
       /\ Registers(g) => \/ Returning(g) \/ g \in hooks
                          \/ Working(g) /\ rec.pc = "register"

Kept(g) == HookSafe(g) /\ Remembered(g)

Memory == ReadsLive /\ \A g \in GitRepos : Kept(g)

LEMMA MemoryInit == Init => Memory
  <1> SUFFICES ASSUME Init PROVE Memory
    OBVIOUS
  <1>1. ReadsLive
    BY DEF Init, ReadsLive, NoRec
  <1>2. ASSUME NEW g \in GitRepos PROVE Kept(g)
    <2>1. repos[g] = None \/ ~repos[g].hook
      BY DEF Init, NewObject
    <2>2. g \in Present(repos) => g \in ToSet(queue)
      BY ListedSet DEF Init, Present
    <2> QED
      BY <2>1, <2>2 DEF Kept, HookSafe, Remembered, Present, Polls, Registers, InWebhookMode,
         InMode
  <1> QED
    BY <1>1, <1>2 DEF Memory

\* No step touches the URL.
LEMMA URLStays ==
  ASSUME [Next]_vars
  PROVE  validURL' = validURL
  <1>1. CASE \E g \in GitRepos : ReconcileGone(g) \/ ReconcileDelete(g) \/ AddFinalizer(g)
    BY <1>1 DEF ReconcileGone, ReconcileDelete, AddFinalizer, platformVars
  <1>2. CASE \E g \in GitRepos : StartWebhook(g) \/ Suspend(g) \/ StartPoll(g)
    BY <1>2 DEF StartWebhook, Suspend, StartPoll, platformVars
  <1>3. CASE RegisterHook \/ FetchOpenPRs \/ ApplyAnswer \/ ReportStatus
    BY <1>3 DEF RegisterHook, FetchOpenPRs, ApplyAnswer, ReportStatus, platformVars
  <1>4. CASE Restart \/ OutsideMove
    BY <1>4 DEF Restart, OutsideMove, platformVars
  <1>5. CASE \E g \in GitRepos : Observe(g) \/ TimerEnds(g)
    BY <1>5 DEF Observe, TimerEnds, platformVars
  <1>6. CASE \/ \E d \in inbox : Deliver(d)
             \/ \E pr \in PRs : Collect(pr) \/ TeardownEnds(pr)
    BY <1>6 DEF Deliver, Collect, TeardownEnds, platformVars
  <1>7. CASE UNCHANGED vars
    BY <1>7 DEF vars, platformVars
  <1> QED
    BY <1>1, <1>2, <1>3, <1>4, <1>5, <1>6, <1>7 DEF Next, ReconcileStep

\* Nothing that g is remembered by is taken away.
LEMMA OthersRemembered ==
  ASSUME NEW g \in GitRepos, Remembered(g), repos'[g] = repos[g], validURL' = validURL,
         g \notin fresh => g \notin fresh', g \in ToSet(queue) => g \in ToSet(queue'),
         g \in timers => g \in timers', g \in hooks => g \in hooks', g \in routes => g \in routes',
         rec' = rec \/ ~Working(g)
  PROVE  Remembered(g)'
  BY DEF Remembered, Returning, Working, Polls, Registers, InWebhookMode, InMode

\* A version with an ID comes from a version with that ID, and the hook stays.
LEMMA HookFrame ==
  ASSUME NEW g \in GitRepos, HookSafe(g),
         repos'[g] # None /\ ~repos'[g].deleting /\ repos'[g].hook =>
           repos[g] # None /\ ~repos[g].deleting /\ repos[g].hook,
         g \in hooks => g \in hooks',
         cached'[g] = cached[g] \/ cached'[g] = repos'[g]
  PROVE  HookSafe(g)'
  BY DEF HookSafe

\* Reconciles that end at once.
LEMMA EndsKept ==
  ASSUME Typed, Memory, validURL' = validURL, NEW h \in GitRepos,
         ReconcileGone(h) \/ ReconcileDelete(h) \/ AddFinalizer(h)
  PROVE  Memory'
  <1>1. /\ Take(h) /\ rec' = rec /\ rec.pc = "idle" /\ ~rec.current
        /\ timers' = timers /\ cached' = cached
    BY DEF ReconcileGone, ReconcileDelete, AddFinalizer, Done, Again, Take, Typed, Reads, repoVars
  <1>2. ReadsLive'
    BY <1>1 DEF ReadsLive
  <1>3. ToSet(queue) \ {h} \subseteq ToSet(queue')
    <2>1. Done \/ Again(h)
      BY DEF ReconcileGone, ReconcileDelete, AddFinalizer
    <2> QED
      BY <1>1, <2>1, TakeType DEF Done, Again
  <1>4. ASSUME NEW g \in GitRepos \ {h} PROVE Kept(g)'
    <2>1. /\ repos'[g] = repos[g] /\ fresh' \subseteq fresh
          /\ g \in hooks => g \in hooks'
          /\ g \in routes => g \in routes'
      BY <1>4 DEF ReconcileGone, ReconcileDelete, AddFinalizer, Write, repoVars, hookVars, Typed,
                  TypeOK
    <2> QED
      BY <1>1, <1>3, <1>4, <2>1, OthersRemembered, HookFrame DEF Memory, Kept
  <1>5. CASE ReconcileGone(h)
    <2>1. UNCHANGED <<repos, fresh, hooks>> /\ cached[h] = None
      BY <1>5 DEF ReconcileGone, repoVars, hookVars
    <2>2. h \in fresh => repos[h] = None
      BY <2>1 DEF Typed, Reads
    <2> QED
      BY <1>1, <1>2, <1>4, <2>1, <2>2, HookFrame
      DEF Memory, Kept, Remembered, Polls, Registers, InWebhookMode, InMode
  <1>6. CASE ReconcileDelete(h)
    <2>1. cached[h] # None /\ cached[h].deleting
      BY <1>6 DEF ReconcileDelete
    <2>2. h \notin fresh'
      BY <1>6 DEF ReconcileDelete, Write
    <2>3. repos'[h] = repos[h] \/ repos'[h] = None
      BY <1>6 DEF ReconcileDelete, Write, Typed, TypeOK
    <2>4. HookSafe(h)'
      BY <2>1, <2>3 DEF Memory, Kept, HookSafe
    <2> QED
      BY <1>2, <1>4, <2>2, <2>4 DEF Memory, Kept, Remembered
  <1>7. CASE AddFinalizer(h)
    <2>1. h \notin fresh'
      BY <1>7 DEF AddFinalizer, Write
    <2>2. hooks' = hooks
      BY <1>7 DEF AddFinalizer, hookVars
    <2>3. \/ repos'[h] = repos[h]
          \/ repos[h] # None /\ repos'[h] = [repos[h] EXCEPT !.finalizer = TRUE]
      BY <1>7 DEF AddFinalizer, Write, Typed, TypeOK, Reads
    <2>4. repos'[h] # None /\ ~repos'[h].deleting /\ repos'[h].hook =>
            repos[h] # None /\ ~repos[h].deleting /\ repos[h].hook
      BY <2>3 DEF Typed, TypeOK, Objects
    <2> QED
      BY <1>1, <1>2, <1>4, <2>1, <2>2, <2>4, HookFrame DEF Memory, Kept, Remembered
  <1> QED
    BY <1>5, <1>6, <1>7

\* A reconcile that goes on has set the route, or will ask to come back.
LEMMA StartsKept ==
  ASSUME Typed, Memory, validURL' = validURL, NEW h \in GitRepos,
         StartWebhook(h) \/ Suspend(h) \/ StartPoll(h)
  PROVE  Memory'
  <1>1. /\ Take(h) /\ rec.pc = "idle" /\ timers' = timers /\ hooks' = hooks
        /\ repos' = repos /\ cached' = cached /\ fresh' = fresh /\ routes \subseteq routes'
        /\ cached[h] # None /\ ~cached[h].deleting
        /\ ToSet(queue') = ToSet(queue) \ {h}
    <2>1. Take(h) /\ Done
      BY DEF StartWebhook, Suspend, StartPoll, Accepted
    <2> QED
      BY <2>1, TakeType
      DEF StartWebhook, Suspend, StartPoll, Accepted, Take, Done, repoVars, hookVars
  <1>2. rec'.gitrepo = h /\ rec'.pc # "idle" /\ (rec'.current <=> h \in fresh)
    BY StartReads
  <1>3. h \in fresh => repos[h] = cached[h]
    BY DEF Typed, Reads
  <1>4. ReadsLive'
    BY <1>1, <1>2, <1>3 DEF ReadsLive
  <1>5. \A g \in GitRepos : HookSafe(g)'
    BY <1>1, HookFrame DEF Memory, Kept
  <1>6. ASSUME NEW g \in GitRepos \ {h} PROVE Remembered(g)'
    BY <1>1, <1>6, OthersRemembered DEF Memory, Kept, Working
  <1>7. CASE StartWebhook(h)
    <2>1. h \in routes' /\ cached[h].mode \in {"webhook", "manual"}
      BY <1>7 DEF StartWebhook, Accepted
    <2>2. cached[h].hook \/ cached[h].mode = "manual" \/ rec'.pc = "register"
      BY <1>1, <1>7, ReadType DEF StartWebhook
    <2>3. h \in fresh /\ cached[h].hook => h \in hooks'
      BY <1>1, <1>3 DEF Memory, Kept, HookSafe
    <2>4. h \in fresh => ~Polls(h)'
      BY <1>1, <1>3, <2>1 DEF Polls, InMode
    <2>5. Remembered(h)'
      BY <1>1, <1>2, <1>3, <2>1, <2>2, <2>3, <2>4
      DEF Remembered, Working, Registers, InMode
    <2> QED
      BY <1>4, <1>5, <1>6, <2>5 DEF Memory, Kept
  <1>8. CASE Suspend(h) \/ StartPoll(h)
    <2>1. cached[h].mode = "poll"
      BY <1>8 DEF Suspend, StartPoll, Accepted
    <2>2. rec'.pc = "fetch" \/ (rec'.pc = "status" /\ rec'.later)
      <3>1. CASE StartPoll(h)
        BY <1>1, <3>1, ReadType DEF StartPoll
      <3>2. CASE Suspend(h)
        <4> DEFINE r == Read(h, "status")
        <4>1. r \in Recs /\ r.pc = "status"
          BY <1>1, ReadType
        <4>2. rec' = [r EXCEPT !.verdict = TRUE, !.later = TRUE]
          BY <3>2 DEF Suspend
        <4> HIDE DEF r
        <4> QED
          BY <4>1, <4>2 DEF Recs
      <3> QED
        BY <1>8, <3>1, <3>2
    <2>3. h \in fresh => ~InWebhookMode(h)' /\ ~Registers(h)'
      BY <1>1, <1>3, <2>1 DEF InWebhookMode, ByWebhook, Registers, InMode
    <2>4. Remembered(h)'
      BY <1>1, <1>2, <1>3, <2>2, <2>3 DEF Remembered, Returning, Working
    <2> QED
      BY <1>4, <1>5, <1>6, <2>4 DEF Memory, Kept
  <1> QED
    BY <1>7, <1>8

LEMMA RegisterKept ==
  ASSUME Typed, Memory, validURL' = validURL, RegisterHook
  PROVE  Memory'
  <1> DEFINE h == rec.gitrepo
  <1>1. /\ h \in GitRepos /\ rec \in Recs /\ rec.pc = "register" /\ Queue(queue)
        /\ timers' = timers /\ routes' = routes /\ cached' = cached
    BY DEF RegisterHook, Typed, TypeOK, Queue
  <1>2. CASE /\ rec.current /\ Write(h, [repos[h] EXCEPT !.hook = TRUE])
             /\ rec' = [rec EXCEPT !.pc = "status"] /\ queue' = queue /\ hooks' = hooks \cup {h}
    <2>1. /\ repos[h] \in Objects /\ ~repos[h].deleting
          /\ cached[h] # None /\ ~cached[h].deleting
      BY <1>1, <1>2 DEF Memory, ReadsLive, Typed, TypeOK
    <2>2. /\ repos'[h] = [repos[h] EXCEPT !.hook = TRUE]
          /\ h \notin fresh' /\ fresh' \subseteq fresh
          /\ \A g \in GitRepos \ {h} : repos'[g] = repos[g]
      BY <1>1, <1>2 DEF Write, Typed, TypeOK
    <2>3. ~repos'[h].deleting
      BY <2>1, <2>2 DEF Objects
    <2>4. rec'.gitrepo = h
      BY <1>1, <1>2 DEF Recs
    <2> HIDE DEF h
    <2>5. ReadsLive'
      BY <1>1, <2>1, <2>3, <2>4 DEF ReadsLive
    <2>6. ASSUME NEW g \in GitRepos, g = h PROVE Kept(g)'
      BY <1>1, <1>2, <2>1, <2>2, <2>6 DEF Kept, HookSafe, Remembered
    <2>7. ASSUME NEW g \in GitRepos \ {h} PROVE Kept(g)'
      <3>1. ~Working(g)
        BY <2>7 DEF Working, h
      <3> QED
        BY <1>1, <1>2, <2>2, <2>7, <3>1, OthersRemembered, HookFrame DEF Memory, Kept
    <2> QED
      BY <2>5, <2>6, <2>7 DEF Memory
  <1>3. CASE /\ queue' = Enqueued(queue, {h}) /\ rec' = NoRec /\ hooks' = hooks \cup {h}
             /\ UNCHANGED <<repos, fresh>>
    <2>1. h \in ToSet(queue') /\ ToSet(queue) \subseteq ToSet(queue')
      BY <1>1, <1>3, EnqueuedIsQueue
    <2>2. ReadsLive'
      BY <1>3 DEF ReadsLive, NoRec
    <2> HIDE DEF h
    <2>3. ASSUME NEW g \in GitRepos PROVE Kept(g)'
      <3>1. HookSafe(g)'
        BY <1>1, <1>3, HookFrame DEF Memory, Kept
      <3>2. CASE g = h
        BY <2>1, <3>1, <3>2 DEF Kept, Remembered
      <3>3. CASE g # h
        <4>1. ~Working(g)
          BY <3>3 DEF Working, h
        <4> QED
          BY <1>1, <1>3, <2>1, <3>1, <4>1, OthersRemembered DEF Memory, Kept
      <3> QED
        BY <3>2, <3>3
    <2> QED
      BY <2>2, <2>3 DEF Memory
  <1>4. CASE rec' = [rec EXCEPT !.pc = "status", !.later = TRUE]
             /\ UNCHANGED <<hooks, repos, fresh, queue>>
    <2>1. /\ rec'.gitrepo = h /\ rec'.pc = "status" /\ rec'.later /\ rec'.current = rec.current
      BY <1>1, <1>4 DEF Recs
    <2>2. ReadsLive'
      BY <1>1, <1>4, <2>1 DEF Memory, ReadsLive
    <2> HIDE DEF h
    <2>3. ASSUME NEW g \in GitRepos PROVE Kept(g)'
      <3>1. HookSafe(g)'
        BY <1>1, <1>4, HookFrame DEF Memory, Kept
      <3>2. CASE g = h
        BY <1>1, <1>4, <2>1, <3>1, <3>2
        DEF Memory, Kept, Remembered, Returning, Working, InWebhookMode, Polls, InMode
      <3>3. CASE g # h
        <4>1. ~Working(g)
          BY <3>3 DEF Working, h
        <4> QED
          BY <1>1, <1>4, <3>1, <4>1, OthersRemembered DEF Memory, Kept
      <3> QED
        BY <3>2, <3>3
    <2> QED
      BY <2>2, <2>3 DEF Memory
  <1>5. CASE /\ ~validURL /\ rec' = [rec EXCEPT !.pc = "status"]
             /\ UNCHANGED <<hooks, repos, fresh, queue>>
    <2>1. rec'.gitrepo = h /\ rec'.pc = "status" /\ rec'.current = rec.current
      BY <1>1, <1>5 DEF Recs
    <2>2. ReadsLive'
      BY <1>1, <1>5, <2>1 DEF Memory, ReadsLive
    <2> HIDE DEF h
    <2>3. ASSUME NEW g \in GitRepos PROVE Kept(g)'
      <3>1. HookSafe(g)'
        BY <1>1, <1>5, HookFrame DEF Memory, Kept
      <3>2. ~Registers(g)'
        BY <1>5, validURL' = validURL DEF Registers
      <3>3. ~(rec.pc = "status" /\ rec.later) /\ rec.pc \notin {"fetch", "apply"}
        BY <1>1
      <3>4. Remembered(g)'
        BY <1>1, <1>5, <3>2, <3>3
        DEF Memory, Kept, Remembered, Returning, Working, Polls, InWebhookMode, InMode
      <3> QED
        BY <3>1, <3>4 DEF Kept
    <2> QED
      BY <2>2, <2>3 DEF Memory
  <1> QED
    BY <1>2, <1>3, <1>4, <1>5 DEF RegisterHook

\* After the answer, or an error, comes a status with RequeueAfter.
LEMMA ProceedKept ==
  ASSUME Typed, Memory, validURL' = validURL, FetchOpenPRs \/ ApplyAnswer
  PROVE  Memory'
  <1>1. /\ rec \in Recs /\ rec.pc \in {"fetch", "apply"}
        /\ UNCHANGED <<repos, cached, fresh, queue, timers, routes, hooks>>
    BY DEF FetchOpenPRs, ApplyAnswer, repoVars, queueVars, hookVars, Typed, TypeOK
  <1>2. rec'.gitrepo = rec.gitrepo /\ rec'.current = rec.current
    BY ProceedTyped
  <1>3. rec'.pc = "apply" \/ (rec'.pc = "status" /\ rec'.later)
    BY <1>1 DEF FetchOpenPRs, ApplyAnswer, Recs
  <1>4. ReadsLive'
    BY <1>1, <1>2 DEF Memory, ReadsLive
  <1>5. ASSUME NEW g \in GitRepos PROVE Kept(g)'
    <2>1. HookSafe(g)'
      BY <1>1, HookFrame DEF Memory, Kept
    <2>2. CASE Working(g)
      BY <1>1, <1>2, <1>3, <2>1, <2>2
      DEF Memory, Kept, Remembered, Returning, Working, Polls, Registers, InWebhookMode,
          InMode
    <2>3. CASE ~Working(g)
      BY <1>1, <2>1, <2>3, OthersRemembered DEF Memory, Kept
    <2> QED
      BY <2>2, <2>3
  <1> QED
    BY <1>4, <1>5 DEF Memory

LEMMA ReportKept ==
  ASSUME Typed, Memory, validURL' = validURL, ReportStatus
  PROVE  Memory'
  <1> DEFINE h == rec.gitrepo
  <1>1. /\ h \in GitRepos /\ rec.pc = "status" /\ rec' = NoRec /\ cached' = cached
        /\ queue' = queue /\ routes' = routes /\ hooks' = hooks /\ timers \subseteq timers'
        /\ rec.later => h \in timers'
    BY DEF ReportStatus, hookVars, Typed, TypeOK
  <1>2. \/ rec.current /\ Write(h, [repos[h] EXCEPT !.superseded = rec.verdict])
        \/ UNCHANGED <<repos, fresh>>
    BY DEF ReportStatus
  <1>3. /\ fresh' \subseteq fresh /\ \A g \in GitRepos \ {h} : repos'[g] = repos[g]
        /\ h \notin fresh' \/ repos'[h] = repos[h]
        /\ repos'[h] # None /\ ~repos'[h].deleting /\ repos'[h].hook =>
             repos[h] # None /\ ~repos[h].deleting /\ repos[h].hook
    <2>1. CASE rec.current /\ Write(h, [repos[h] EXCEPT !.superseded = rec.verdict])
      <3>1. repos[h] \in Objects
        BY <1>1, <2>1 DEF Typed, TypeOK
      <3>2. /\ fresh' = fresh \ {h} /\ \A g \in GitRepos \ {h} : repos'[g] = repos[g]
            /\ repos'[h] = [repos[h] EXCEPT !.superseded = rec.verdict]
        BY <1>1, <2>1 DEF Write, Typed, TypeOK
      <3> QED
        BY <3>1, <3>2, SupersessionAssumption DEF Objects
    <2>2. CASE UNCHANGED <<repos, fresh>>
      BY <2>2
    <2> QED
      BY <1>2, <2>1, <2>2
  <1>4. ReadsLive'
    BY <1>1 DEF ReadsLive, NoRec
  <1> HIDE DEF h
  <1>5. ASSUME NEW g \in GitRepos PROVE Kept(g)'
    <2>1. HookSafe(g)'
      <3>1. repos'[g] # None /\ ~repos'[g].deleting /\ repos'[g].hook =>
              repos[g] # None /\ ~repos[g].deleting /\ repos[g].hook
        BY <1>3
      <3> QED
        BY <1>1, <3>1, HookFrame DEF Memory, Kept
    <2>2. CASE g = h
      BY <1>1, <1>3, <2>1, <2>2
      DEF Memory, Kept, Remembered, Returning, Working, Polls, Registers, InWebhookMode,
          InMode
    <2>3. CASE g # h
      <3>1. ~Working(g)
        BY <2>3 DEF Working, h
      <3> QED
        BY <1>1, <1>3, <2>1, <2>3, <3>1, OthersRemembered DEF Memory, Kept
    <2> QED
      BY <2>2, <2>3
  <1> QED
    BY <1>4, <1>5 DEF Memory

LEMMA OutsideKept ==
  ASSUME Typed, Memory, validURL' = validURL, OutsideMove
  PROVE  Memory'
  <1>1. UNCHANGED <<cached, queue, timers, routes, hooks>>
    BY DEF OutsideMove, queueVars
  <1>2. ASSUME UNCHANGED <<repos, fresh, rec>> PROVE Memory'
    <2>1. ReadsLive'
      BY <1>1, <1>2 DEF Memory, ReadsLive
    <2>2. ASSUME NEW g \in GitRepos PROVE Kept(g)'
      BY <1>1, <1>2, <2>2, OthersRemembered, HookFrame DEF Memory, Kept
    <2> QED
      BY <2>1, <2>2 DEF Memory
  <1>3. ASSUME NEW h \in GitRepos, Create(h) \/ Delete(h) \/ ChangeMode(h) PROVE Memory'
    <2>1. PICK obj : /\ UserWrites(h, obj)
                     /\ obj # None /\ ~obj.deleting /\ obj.hook =>
                          repos[h] # None /\ ~repos[h].deleting /\ repos[h].hook
      <3>1. CASE Create(h)
        BY <3>1 DEF Create, NewObject
      <3>2. CASE Delete(h)
        <4>1. repos[h] \in Objects
          BY <3>2 DEF Delete, Typed, TypeOK
        <4>2. [repos[h] EXCEPT !.deleting = TRUE].deleting
          BY <4>1 DEF Objects
        <4> QED
          BY <3>2, <4>2 DEF Delete
      <3>3. CASE ChangeMode(h)
        <4>1. repos[h] \in Objects /\ repos[h] # None
          BY <3>3 DEF ChangeMode, Typed, TypeOK
        <4>2. \A m : LET obj == [repos[h] EXCEPT !.mode = m]
                     IN  obj.deleting = repos[h].deleting /\ obj.hook = repos[h].hook
          BY <4>1 DEF Objects
        <4> QED
          BY <3>3, <4>1, <4>2 DEF ChangeMode
      <3> QED
        BY <1>3, <3>1, <3>2, <3>3
    <2>2. /\ repos'[h] = obj /\ h \notin fresh' /\ fresh' \subseteq fresh
          /\ \A g \in GitRepos \ {h} : repos'[g] = repos[g]
      BY <2>1 DEF UserWrites, Write, Typed, TypeOK
    <2>3. rec' = IF rec.gitrepo = h THEN [rec EXCEPT !.current = FALSE] ELSE rec
      BY <2>1 DEF UserWrites
    <2>4. ReadsLive'
      <3>1. CASE rec.gitrepo = h
        <4>1. ~rec'.current
          BY <2>3, <3>1 DEF Typed, TypeOK, Recs
        <4> QED
          BY <4>1 DEF ReadsLive
      <3>2. CASE rec.gitrepo # h
        <4>1. rec.current => rec.gitrepo \in GitRepos \ {h}
          BY <3>2 DEF Typed, TypeOK, Reads
        <4> QED
          BY <1>1, <2>2, <2>3, <3>2, <4>1 DEF Memory, ReadsLive
      <3> QED
        BY <3>1, <3>2
    <2>5. Kept(h)'
      BY <1>1, <2>1, <2>2, HookFrame DEF Memory, Kept, Remembered
    <2>6. ASSUME NEW g \in GitRepos \ {h} PROVE Kept(g)'
      BY <1>1, <2>2, <2>3, <2>6, OthersRemembered, HookFrame DEF Memory, Kept, Working
    <2> QED
      BY <2>4, <2>5, <2>6 DEF Memory
  <1> QED
    BY <1>2, <1>3 DEF OutsideMove, Open, Close, Post

LEMMA MemoryStep == Typed /\ Memory /\ [Next]_vars => Memory'
  <1> SUFFICES ASSUME Typed, Memory, [Next]_vars, validURL' = validURL PROVE Memory'
    BY URLStays
  <1>1. CASE ReconcileStep
    BY <1>1, EndsKept, StartsKept, RegisterKept, ProceedKept, ReportKept DEF ReconcileStep
  <1>2. CASE Restart
    <2>1. /\ rec' = NoRec /\ repos' = repos /\ hooks' = hooks /\ cached' = repos
          /\ ToSet(queue') = Present(repos)
      BY <1>2, ListedSet DEF Restart, Present
    <2>2. ReadsLive'
      BY <2>1 DEF ReadsLive, NoRec
    <2>3. ASSUME NEW g \in GitRepos PROVE Kept(g)'
      BY <2>1, HookFrame DEF Memory, Kept, Remembered, Present, Polls, Registers,
         InWebhookMode, InMode
    <2> QED
      BY <2>2, <2>3 DEF Memory
  <1>3. CASE OutsideMove
    BY <1>3, OutsideKept
  <1>4. ASSUME NEW h \in GitRepos, Observe(h) \/ TimerEnds(h) PROVE Memory'
    <2>1. /\ UNCHANGED <<repos, rec, routes, hooks>>
          /\ fresh' \subseteq fresh \cup {h} /\ timers \ {h} \subseteq timers'
      BY <1>4 DEF Observe, TimerEnds, repoVars, hookVars
    <2>2. cached' = cached \/ cached' = [cached EXCEPT ![h] = repos[h]]
      BY <1>4 DEF Observe, TimerEnds, repoVars
    <2>3. ToSet(queue) \subseteq ToSet(queue') /\ h \in ToSet(queue')
      BY <1>4, WakesTyped
    <2>4. \A g \in GitRepos : cached'[g] = cached[g] \/ cached'[g] = repos'[g]
      BY <2>1, <2>2 DEF Typed, TypeOK
    <2>5. ReadsLive'
      <3>1. rec.current => rec.gitrepo \in GitRepos /\ repos[rec.gitrepo] # None
        BY DEF Typed, TypeOK, Reads
      <3> QED
        BY <2>1, <2>4, <3>1 DEF Memory, ReadsLive
    <2>6. \A g \in GitRepos : HookSafe(g)'
      BY <2>1, <2>4, HookFrame DEF Memory, Kept
    <2>7. Remembered(h)'
      BY <2>3 DEF Remembered
    <2>8. ASSUME NEW g \in GitRepos \ {h} PROVE Remembered(g)'
      BY <2>1, <2>3, <2>8, OthersRemembered DEF Memory, Kept
    <2> QED
      BY <2>5, <2>6, <2>7, <2>8 DEF Memory, Kept
  <1>5. ASSUME UNCHANGED <<repos, cached, fresh, queue, timers, rec, routes, hooks>> PROVE Memory'
    <2>1. ReadsLive'
      BY <1>5 DEF Memory, ReadsLive
    <2>2. ASSUME NEW g \in GitRepos PROVE Kept(g)'
      BY <1>5, <2>2, OthersRemembered, HookFrame DEF Memory, Kept
    <2> QED
      BY <2>1, <2>2 DEF Memory
  <1>6. CASE \/ \E d \in inbox : Deliver(d)
             \/ \E pr \in PRs : Collect(pr) \/ TeardownEnds(pr)
    BY <1>5, <1>6 DEF Deliver, Collect, TeardownEnds, repoVars, queueVars, hookVars
  <1>7. CASE UNCHANGED vars
    BY <1>5, <1>7 DEF vars, repoVars, queueVars, hookVars
  <1> QED
    BY <1>1, <1>2, <1>3, <1>4, <1>6, <1>7 DEF Next

\* Reconcile of a GitRepo, for any number of them and any history of edits, failures and
\* restarts: once the queue is empty and the cache is current, deletions are complete, each
\* poll GitRepo has its timer, each one in webhook mode its route, and each one that
\* registers its hook has it or a timer; for a URL that platform.New refuses too.
THEOREM AllRemembered == Spec => []NoneForgotten
  <1>1. Typed /\ Memory => NoneForgotten
    <2> SUFFICES ASSUME Typed, Memory, Quiet, NEW g \in GitRepos
                 PROVE  /\ repos[g] # None => ~repos[g].deleting
                        /\ Polls(g) => g \in timers
                        /\ InWebhookMode(g) => g \in routes
                        /\ Registers(g) => g \in hooks \/ g \in timers
      BY DEF NoneForgotten
    <2>1. fresh = GitRepos /\ ToSet(queue) = {} /\ ~Working(g)
      BY DEF Quiet, ToSet, Working
    <2> QED
      BY <2>1 DEF Memory, Kept, Remembered, Returning
  <1> QED
    BY <1>1, TypedInit, TypedStep, MemoryInit, MemoryStep, PTL DEF Spec
=============================================================================
