----------------------------- MODULE PollProofs -----------------------------
(***************************************************************************)
(* Proofs about GitRepoPoll: its states are well typed, and a pass never   *)
(* tears down the preview of an open pull request.                         *)
(***************************************************************************)
EXTENDS GitRepoPoll, FiniteSetTheorems, WellFoundedInduction, TLAPS

\* Each kind of step keeps the state well typed.  First those that leave the pass's
\* locals alone, then one lemma per step of a pass.
LEMMA PollTypeInit == Init => TypeOK
  <1> SUFFICES ASSUME Init PROVE TypeOK
    OBVIOUS
  <1>1. pulls \in [PRs -> Pulls]
    <2>1. [open : BOOLEAN, headSHA : SHAs, trusted : {TRUE}] \subseteq Pulls
      BY DEF Pulls
    <2> QED
      BY <2>1 DEF Init
  <1>2. stored \in [PRs -> PRDs \cup {None}] /\ cached \in [PRs -> PRDs \cup {None}]
    BY DEF Init
  <1>3. moves \in 0..MaxMoves /\ faults \in 0..MaxFaults
    BY PollAssumption DEF Init
  <1> QED
    BY <1>1, <1>2, <1>3 DEF Init, TypeOK, NoPass, Numbers

LEMMA FaultType ==
  ASSUME TypeOK, NEW kind, Fault(kind) \/ NoFault
  PROVE  faults' \in 0..MaxFaults
  BY PollAssumption DEF TypeOK, Fault, NoFault

LEMMA MoveType ==
  ASSUME TypeOK, NEW kind, Move(kind)
  PROVE  moves' \in 0..MaxMoves
  BY PollAssumption DEF TypeOK, Move

LEMMA StartPollType == TypeOK /\ StartPoll => TypeOK'
  BY DEF TypeOK, StartPoll, Numbers, clusterVars

LEMMA FetchType == TypeOK /\ FetchOpenPRs => TypeOK'
  <1> SUFFICES ASSUME TypeOK, FetchOpenPRs PROVE TypeOK'
    OBVIOUS
  <1>1. {OpenPR(pr) : pr \in FirstPage({q \in PRs : pulls[q].open})} \subseteq OpenPRs
    <2>1. FirstPage({q \in PRs : pulls[q].open}) \subseteq PRs
      BY DEF FirstPage
    <2>2. \A pr \in PRs : OpenPR(pr) \in OpenPRs
      BY DEF TypeOK, OpenPR, OpenPRs, Pulls
    <2> QED
      BY <2>1, <2>2
  <1>2. faults' \in 0..MaxFaults
    BY FaultType DEF FetchOpenPRs
  <1> QED
    BY <1>1, <1>2 DEF TypeOK, FetchOpenPRs, Fault, NoFault, clusterVars, Numbers

LEMMA ListType == TypeOK /\ ListExisting => TypeOK'
  <1> SUFFICES ASSUME TypeOK, ListExisting PROVE TypeOK'
    OBVIOUS
  <1>1. Numbers(pass.answer) \subseteq PRs
    BY DEF TypeOK, Numbers, OpenPRs
  <1> QED
    BY <1>1 DEF TypeOK, ListExisting, clusterVars, Numbers

LEMMA ApplyType == TypeOK /\ ApplyOpenPR => TypeOK'
  <1> SUFFICES ASSUME TypeOK, ApplyOpenPR PROVE TypeOK'
    OBVIOUS
  <1>1. PICK o \in pass.answer : o.number \in pass.todo /\ (UpdateHead(o) \/ CreateMissing(o))
    BY DEF ApplyOpenPR
  <1>2. o.number \in PRs /\ o.headSHA \in SHAs
    BY <1>1 DEF TypeOK, OpenPRs
  <1>3. pass' = Visited(o.number) /\ faults' \in 0..MaxFaults
    BY <1>1, FaultType DEF UpdateHead, CreateMissing
  <1>4. stored' \in [PRs -> PRDs \cup {None}] /\ cacheFresh' \subseteq PRs
    <2>1. CASE UpdateHead(o)
      <3>1. [pass.existing[o.number] EXCEPT !.headSHA = o.headSHA] \in PRDs
        BY <1>2, <2>1 DEF TypeOK, UpdateHead, PRDs
      <3> QED
        BY <1>2, <2>1, <3>1 DEF TypeOK, UpdateHead, Write
    <2>2. CASE CreateMissing(o)
      <3>1. [headSHA |-> o.headSHA, deleting |-> FALSE] \in PRDs
        BY <1>2 DEF PRDs
      <3> QED
        BY <1>2, <2>2, <3>1 DEF TypeOK, CreateMissing, Write
    <2> QED
      BY <1>1, <2>1, <2>2
  <1> QED
    BY <1>1, <1>3, <1>4 DEF TypeOK, ApplyOpenPR, Visited, Numbers

LEMMA StartDeleteType == TypeOK /\ StartDeletePass => TypeOK'
  BY DEF TypeOK, StartDeletePass, ToDelete, Leftover, clusterVars, Numbers

LEMMA DeleteType == TypeOK /\ DeleteClosed => TypeOK'
  <1> SUFFICES ASSUME TypeOK, DeleteClosed PROVE TypeOK'
    OBVIOUS
  <1>1. PICK pr \in pass.todo :
          /\ pass' = Visited(pr)
          /\ \/ Write(pr, [stored[pr] EXCEPT !.deleting = TRUE]) /\ stored[pr] # None
             \/ UNCHANGED <<stored, cacheFresh>>
    BY DEF DeleteClosed
  <1>2. faults' \in 0..MaxFaults
    BY FaultType DEF DeleteClosed
  <1>3. stored' \in [PRs -> PRDs \cup {None}] /\ cacheFresh' \subseteq PRs
    BY <1>1 DEF TypeOK, Write, PRDs
  <1> QED
    BY <1>1, <1>2, <1>3 DEF TypeOK, DeleteClosed, Visited, Numbers

LEMMA FinishType == TypeOK /\ FinishPass => TypeOK'
  BY DEF TypeOK, FinishPass, NoPass, clusterVars, Numbers

LEMMA IntervalType == TypeOK /\ IntervalEnds => TypeOK'
  BY DEF TypeOK, IntervalEnds, clusterVars, Numbers

LEMMA PollRestartType == TypeOK /\ Restart => TypeOK'
  <1> SUFFICES ASSUME TypeOK, Restart PROVE TypeOK'
    OBVIOUS
  <1>1. faults' \in 0..MaxFaults
    BY FaultType DEF Restart
  <1> QED
    BY <1>1 DEF TypeOK, Restart, NoPass, Numbers

LEMMA PollObserveType ==
  ASSUME TypeOK, NEW pr \in PRs, Observe(pr)
  PROVE  TypeOK'
  BY DEF TypeOK, Observe, pollVars, Numbers

LEMMA OutsideType ==
  ASSUME TypeOK, NEW pr \in PRs, OutsideMove(pr)
  PROVE  TypeOK'
  <1>1. moves' \in 0..MaxMoves
    BY MoveType DEF OutsideMove, Push, Close, Reopen, Relabel, OwnWrite
  <1>2. /\ pulls' \in [PRs -> Pulls]
        /\ stored' \in [PRs -> PRDs \cup {None}] /\ cacheFresh' \subseteq PRs
    <2>1. CASE OwnWrite(pr)
      BY <2>1 DEF TypeOK, OwnWrite, Write
    <2>2. ASSUME NEW p \in Pulls, PullMoves(pr, p)
          PROVE  /\ pulls' \in [PRs -> Pulls]
                 /\ stored' \in [PRs -> PRDs \cup {None}] /\ cacheFresh' \subseteq PRs
      BY <2>2 DEF TypeOK, PullMoves, clusterVars
    <2>3. CASE Push(pr)
      <3>1. PICK sha \in SHAs : PullMoves(pr, [pulls[pr] EXCEPT !.headSHA = sha])
        BY <2>3 DEF Push
      <3>2. [pulls[pr] EXCEPT !.headSHA = sha] \in Pulls
        BY DEF TypeOK, Pulls
      <3> QED
        BY <3>1, <3>2, <2>2
    <2>4. CASE Close(pr) \/ Reopen(pr) \/ Relabel(pr)
      <3>1. /\ \A b \in BOOLEAN : [pulls[pr] EXCEPT !.open = b] \in Pulls
            /\ [pulls[pr] EXCEPT !.trusted = ~@] \in Pulls
        BY DEF TypeOK, Pulls
      <3> QED
        BY <2>2, <2>4, <3>1 DEF Close, Reopen, Relabel
    <2> QED
      BY <2>1, <2>3, <2>4 DEF OutsideMove
  <1>3. \/ pass' = pass \/ pass' = Outdate(pr)
        \/ pass' = [pass EXCEPT !.reopened = @ \cup {pr}]
    BY DEF OutsideMove, Push, Close, Reopen, Relabel, OwnWrite, PullMoves
  <1>4. UNCHANGED <<cached, queued, timer, faults>>
    BY DEF OutsideMove, Push, Close, Reopen, Relabel, OwnWrite, PullMoves, clusterVars
  <1> QED
    BY <1>1, <1>2, <1>3, <1>4 DEF TypeOK, Outdate, Numbers

LEMMA PollTeardownType ==
  ASSUME TypeOK, NEW pr \in PRs, TeardownEnds(pr)
  PROVE  TypeOK'
  BY DEF TypeOK, TeardownEnds, Write, Outdate, Numbers

\* Every reachable state is well typed: in particular, a pass deletes nothing that is
\* in the platform's answer, whatever was listed, created or updated before.
THEOREM PollTypeCorrect == Spec => []TypeOK
  <1>1. TypeOK /\ [Next]_vars => TypeOK'
    <2> SUFFICES ASSUME TypeOK, [Next]_vars PROVE TypeOK'
      OBVIOUS
    <2>1. CASE PollStep
      BY <2>1, StartPollType, FetchType, ListType, ApplyType, StartDeleteType, DeleteType,
         FinishType DEF PollStep
    <2>2. CASE IntervalEnds \/ Restart
      BY <2>2, IntervalType, PollRestartType
    <2>3. CASE \E pr \in PRs : Observe(pr) \/ OutsideMove(pr) \/ TeardownEnds(pr)
      BY <2>3, PollObserveType, OutsideType, PollTeardownType
    <2>4. CASE UNCHANGED vars
      BY <2>4 DEF TypeOK, vars, clusterVars, pollVars, Numbers
    <2> QED
      BY <2>1, <2>2, <2>3, <2>4 DEF Next
  <1> QED
    BY <1>1, PollTypeInit, PTL DEF Spec

-----------------------------------------------------------------------------
(* OpenIsKept.  An Update is accepted from a copy of the present version only, so a    *)
(* copy that may be accepted equals the object; and what a pass knows from an answer    *)
(* stays true of the pull requests that are not reopened meanwhile.                     *)

CopiesCurrent ==
    /\ \A pr \in cacheFresh : cached[pr] = stored[pr]
    /\ \A pr \in pass.current : pass.existing[pr] = stored[pr]

\* An open pull request is missing from an answer only if that is a full page, or if it
\* has been opened again since.
AnswerHolds ==
    /\ pass.pc \in {"idle", "fetch"} => pass.answer = {}
    /\ pass.answer # {} =>
         \A pr \in PRs \ Numbers(pass.answer) :
           pulls[pr].open =>
             pr \in pass.reopened \/ ~(Cardinality(pass.answer) < PageSize)

DeletesByAnswer == pass.pc = "delete" /\ pass.todo # {} => pass.answer # {}

PollInvariant == TypeOK /\ CopiesCurrent /\ AnswerHolds /\ DeletesByAnswer

\* The numbers above pr are fewer for a greater pr, so those left out have the lowest.
Above(S, pr) == {q \in S : q > pr}

\* When the first page leaves one out, it is full.
LEMMA PageIsFull ==
  ASSUME NEW S \in SUBSET PRs, NEW left \in S, left \notin FirstPage(S)
  PROVE  ~(Cardinality(FirstPage(S)) < PageSize)
  <1> DEFINE Out == S \ FirstPage(S)
             Order == StrictSubsetOrdering(PRs)
  <1>1. IsFiniteSet(PRs) /\ PRs \subseteq Nat /\ PageSize \in Nat
    BY PollAssumption
  <1>2. PICK low \in Out : \A q \in Out :
          ~(Above(S, q) \subseteq Above(S, low) /\ Above(S, q) # Above(S, low))
    <2> DEFINE T == {Above(S, q) : q \in Out}
    <2>1. IsWellFoundedOn(Order, FiniteSubsetsOf(PRs))
      BY FS_StrictSubsetOrderingWellFounded
    <2>2. T \subseteq FiniteSubsetsOf(PRs)
      BY <1>1, FS_FiniteSubsetsOfFinite DEF Above
    <2>3. T # {}
      OBVIOUS
    <2>4. PICK t \in T : \A u \in T : <<u, t>> \notin Order
      BY <2>1, <2>2, <2>3, WFMin
    <2>5. PICK low \in Out : t = Above(S, low)
      BY <2>4
    <2>6. \A q \in Out :
          ~(Above(S, q) \subseteq Above(S, low) /\ Above(S, q) # Above(S, low))
      <3> SUFFICES ASSUME NEW q \in Out, Above(S, q) \subseteq Above(S, low),
                          Above(S, q) # Above(S, low)
                   PROVE  FALSE
        OBVIOUS
      <3>1. Above(S, q) \in T /\ Above(S, q) \in SUBSET PRs /\ Above(S, low) \in SUBSET PRs
        BY DEF Above
      <3>2. <<Above(S, q), t>> \in Order
        BY <2>5, <3>1 DEF StrictSubsetOrdering
      <3> QED
        BY <2>4, <3>1, <3>2
    <2> QED
      BY <2>6
  <1>3. Above(S, low) \subseteq FirstPage(S)
    <2> SUFFICES ASSUME NEW q \in Above(S, low), q \notin FirstPage(S) PROVE FALSE
      OBVIOUS
    <2>1. q \in Out /\ q \in Nat /\ low \in Nat /\ q > low
      BY <1>1 DEF Above
    <2>2. ASSUME NEW r \in Above(S, q) PROVE r \in Above(S, low)
      <3>1. r \in S /\ r \in Nat /\ r > q
        BY <1>1 DEF Above
      <3>2. r > low
        BY <2>1, <3>1
      <3> QED
        BY <3>1, <3>2 DEF Above
    <2>3. q \in Above(S, low) /\ q \notin Above(S, q)
      BY <2>1 DEF Above
    <2> QED
      BY <1>2, <2>1, <2>2, <2>3
  <1>4. ~(Cardinality(Above(S, low)) < PageSize)
    BY DEF FirstPage, Above
  <1>5. IsFiniteSet(FirstPage(S)) /\ Cardinality(FirstPage(S)) \in Nat
    BY <1>1, FS_Subset, FS_CardinalityType DEF FirstPage
  <1>6. /\ Cardinality(Above(S, low)) <= Cardinality(FirstPage(S))
        /\ Cardinality(Above(S, low)) \in Nat
    BY <1>3, <1>5, FS_Subset, FS_CardinalityType
  <1> QED
    BY <1>1, <1>4, <1>5, <1>6

\* The answer has one openPR for each pull request of the page.
LEMMA AnswerSize ==
  ASSUME NEW page \in SUBSET PRs
  PROVE  Cardinality({OpenPR(pr) : pr \in page}) = Cardinality(page)
  <1> DEFINE answer == {OpenPR(pr) : pr \in page}
             f == [pr \in page |-> OpenPR(pr)]
  <1>1. IsFiniteSet(page)
    BY PollAssumption, FS_Subset
  <1>2. f \in Bijection(page, answer)
    <2>1. f \in [page -> answer]
      OBVIOUS
    <2>2. \A a, b \in page : f[a] = f[b] => a = b
      BY DEF OpenPR
    <2>3. \A o \in answer : \E a \in page : f[a] = o
      OBVIOUS
    <2> HIDE DEF f, answer
    <2> QED
      BY <2>1, <2>2, <2>3 DEF Bijection, Injection, Surjection, IsInjective
  <1>3. ExistsBijection(page, answer)
    BY <1>2 DEF ExistsBijection
  <1> QED
    BY <1>1, <1>3, FS_Bijection

LEMMA PollInvariantInit == Init => PollInvariant
  <1> SUFFICES ASSUME Init PROVE CopiesCurrent /\ AnswerHolds /\ DeletesByAnswer
    BY PollTypeInit DEF PollInvariant
  <1>1. pass.pc = "idle" /\ pass.answer = {} /\ pass.current = {} /\ pass.todo = {}
    BY DEF Init, NoPass
  <1>2. cached = stored
    BY DEF Init
  <1> QED
    BY <1>1, <1>2 DEF CopiesCurrent, AnswerHolds, DeletesByAnswer

\* The platform answers with the first page, or with nothing.
LEMMA FetchAnswer == PollInvariant /\ FetchOpenPRs => AnswerHolds'
  <1> SUFFICES ASSUME PollInvariant, FetchOpenPRs PROVE AnswerHolds'
    OBVIOUS
  <1> DEFINE S == {q \in PRs : pulls[q].open}
             page == {OpenPR(q) : q \in FirstPage(S)}
  <1>1. pass'.pc \in {"list", "error"} /\ pass'.answer \in {page, {}} /\ pulls' = pulls
    BY DEF FetchOpenPRs, PollInvariant, TypeOK, AnswerHolds
  <1>2. ASSUME NEW pr \in PRs, pr \notin Numbers(page), pulls[pr].open
        PROVE  ~(Cardinality(page) < PageSize)
    <2>1. FirstPage(S) \subseteq S /\ S \subseteq PRs /\ pr \in S
      BY <1>2 DEF FirstPage
    <2>2. ASSUME pr \in FirstPage(S) PROVE FALSE
      <3>1. OpenPR(pr) \in page /\ OpenPR(pr).number = pr
        BY <2>2 DEF OpenPR
      <3> QED
        BY <1>2, <3>1 DEF Numbers
    <2> QED
      BY <2>1, <2>2, PageIsFull, AnswerSize
  <1> QED
    BY <1>1, <1>2 DEF AnswerHolds

\* Steps of a pass that leave the pull requests and the answer alone, or end the pass.
LEMMA SameAnswer ==
  ASSUME AnswerHolds, UNCHANGED pulls,
         \/ /\ pass'.answer = pass.answer /\ pass'.reopened = pass.reopened
            /\ pass'.pc \in {"idle", "fetch"} => pass.pc = "idle"
         \/ pass'.answer = {}
  PROVE  AnswerHolds'
  BY DEF AnswerHolds

\* What the outside world opens is in the history.
LEMMA OutsideAnswer ==
  ASSUME TypeOK, AnswerHolds, NEW pr \in PRs, OutsideMove(pr)
  PROVE  AnswerHolds'
  <1>1. pass'.answer = pass.answer /\ pass'.pc = pass.pc
    BY DEF TypeOK, OutsideMove, Push, Close, Reopen, Relabel, OwnWrite, PullMoves, Outdate
  <1>2. /\ pass.reopened \subseteq pass'.reopened
        /\ \A q \in PRs : pulls'[q].open => pulls[q].open \/ q \in pass'.reopened
    BY DEF TypeOK, Pulls, OutsideMove, Push, Close, Reopen, Relabel, OwnWrite, PullMoves,
       Outdate
  <1> QED
    BY <1>1, <1>2 DEF AnswerHolds

\* Requests of a pass outdate the copies of what they write.
LEMMA ApplyCopies ==
  ASSUME TypeOK, CopiesCurrent, ApplyOpenPR \/ DeleteClosed
  PROVE  CopiesCurrent'
  <1>1. PICK pr \in PRs :
          /\ pass' = Visited(pr)
          /\ \/ UNCHANGED <<stored, cacheFresh>>
             \/ \E p : Write(pr, p)
    <2>1. CASE ApplyOpenPR
      BY <2>1 DEF TypeOK, ApplyOpenPR, UpdateHead, CreateMissing, OpenPRs
    <2>2. CASE DeleteClosed
      BY <2>2 DEF TypeOK, DeleteClosed
    <2> QED
      BY <2>1, <2>2
  <1>2. cached' = cached
    BY DEF ApplyOpenPR, DeleteClosed
  <1> QED
    BY <1>1, <1>2 DEF TypeOK, CopiesCurrent, Visited, Write

LEMMA OtherCopies ==
  ASSUME TypeOK, CopiesCurrent, NEW pr \in PRs,
         OutsideMove(pr) \/ TeardownEnds(pr) \/ Observe(pr)
  PROVE  CopiesCurrent'
  <1>1. CASE UNCHANGED clusterVars /\ pass'.current = pass.current
                                /\ pass'.existing = pass.existing
    BY <1>1 DEF CopiesCurrent, clusterVars
  <1>2. CASE pass' = Outdate(pr) /\ cached' = cached /\ \E p : Write(pr, p)
    BY <1>2 DEF TypeOK, CopiesCurrent, Outdate, Write
  <1>3. CASE Observe(pr)
    BY <1>3 DEF TypeOK, CopiesCurrent, Observe, pollVars
  <1>4. CASE Reopen(pr)
    <2>1. UNCHANGED clusterVars /\ pass' = [pass EXCEPT !.reopened = @ \cup {pr}]
      BY <1>4 DEF Reopen, PullMoves
    <2> QED
      BY <1>1, <2>1 DEF TypeOK
  <1> QED
    BY <1>1, <1>2, <1>3, <1>4 DEF OutsideMove, Push, Close, Relabel, OwnWrite, PullMoves,
                                  TeardownEnds

LEMMA PollInvariantNext ==
  ASSUME PollInvariant, [Next]_vars, TypeOK'
  PROVE  PollInvariant'
  <1> USE DEF PollInvariant
  <1>1. CASE StartPoll
    <2>1. AnswerHolds'
      BY <1>1, SameAnswer DEF StartPoll, TypeOK
    <2> QED
      BY <1>1, <2>1 DEF StartPoll, TypeOK, CopiesCurrent, DeletesByAnswer, clusterVars
  <1>2. CASE FetchOpenPRs
    BY <1>2, FetchAnswer DEF FetchOpenPRs, TypeOK, CopiesCurrent, DeletesByAnswer,
       clusterVars
  <1>3. CASE ListExisting
    <2>1. AnswerHolds'
      BY <1>3, SameAnswer DEF ListExisting, TypeOK
    <2> QED
      BY <1>3, <2>1 DEF ListExisting, TypeOK, CopiesCurrent, DeletesByAnswer, clusterVars
  <1>4. CASE ApplyOpenPR \/ DeleteClosed
    <2>1. PICK pr \in PRs : pass' = Visited(pr)
      BY <1>4 DEF TypeOK, ApplyOpenPR, DeleteClosed, UpdateHead, CreateMissing, OpenPRs
    <2>2. /\ pass'.answer = pass.answer /\ pass'.pc = pass.pc /\ pass'.todo \subseteq pass.todo
          /\ pulls' = pulls /\ pass'.reopened = pass.reopened
      BY <1>4, <2>1 DEF TypeOK, Visited, ApplyOpenPR, DeleteClosed
    <2>3. AnswerHolds' /\ DeletesByAnswer'
      BY <2>2, SameAnswer DEF DeletesByAnswer, AnswerHolds
    <2> QED
      BY <1>4, <2>3, ApplyCopies
  <1>5. CASE StartDeletePass
    <2>1. AnswerHolds'
      BY <1>5, SameAnswer DEF StartDeletePass, TypeOK
    <2>2. DeletesByAnswer'
      BY <1>5 DEF StartDeletePass, TypeOK, DeletesByAnswer, ToDelete
    <2> QED
      BY <1>5, <2>1, <2>2 DEF StartDeletePass, TypeOK, CopiesCurrent, clusterVars
  <1>6. CASE FinishPass \/ Restart
    <2>1. AnswerHolds'
      BY <1>6, SameAnswer DEF FinishPass, Restart, NoPass
    <2> QED
      BY <1>6, <2>1 DEF FinishPass, Restart, NoPass, CopiesCurrent, DeletesByAnswer,
         clusterVars
  <1>7. CASE IntervalEnds \/ UNCHANGED vars
    BY <1>7 DEF IntervalEnds, vars, pollVars, clusterVars, CopiesCurrent, AnswerHolds,
                DeletesByAnswer
  <1>8. ASSUME NEW pr \in PRs, OutsideMove(pr) \/ TeardownEnds(pr) \/ Observe(pr)
        PROVE  PollInvariant'
    <2>1. /\ pass'.pc = pass.pc /\ pass'.answer = pass.answer /\ pass'.todo = pass.todo
      BY <1>8 DEF TypeOK, OutsideMove, Push, Close, Reopen, Relabel, OwnWrite, PullMoves,
                  Outdate, TeardownEnds, Observe, pollVars
    <2>2. AnswerHolds'
      <3>1. CASE OutsideMove(pr)
        BY <3>1, OutsideAnswer
      <3>2. CASE TeardownEnds(pr) \/ Observe(pr)
        <4>1. pass'.reopened = pass.reopened /\ pulls' = pulls
          BY <3>2 DEF TypeOK, TeardownEnds, Outdate, Observe, pollVars
        <4> QED
          BY <2>1, <4>1 DEF AnswerHolds
      <3> QED
        BY <1>8, <3>1, <3>2
    <2>3. DeletesByAnswer'
      BY <2>1 DEF DeletesByAnswer
    <2> QED
      BY <1>8, <2>2, <2>3, OtherCopies
  <1> QED
    BY <1>1, <1>2, <1>3, <1>4, <1>5, <1>6, <1>7, <1>8 DEF Next, PollStep

\* What every single step does to the previews of open pull requests.
LEMMA KeepsOpen ==
  ASSUME PollInvariant, [Next]_vars, NEW pr \in PRs,
         pulls[pr].open, pr \notin pass.reopened, IsLive(pr),
         pr \in Numbers(pass.answer) \/ Cardinality(pass.answer) < PageSize
  PROVE  IsLive(pr)'
  <1> USE DEF PollInvariant
  <1>1. CASE ApplyOpenPR
    <2>1. PICK o \in pass.answer : UpdateHead(o) \/ CreateMissing(o)
      BY <1>1 DEF ApplyOpenPR
    <2>2. o.number \in PRs /\ o.headSHA \in SHAs
      BY DEF TypeOK, OpenPRs
    <2>3. CASE UpdateHead(o)
      <3>1. CASE Write(o.number, [pass.existing[o.number] EXCEPT !.headSHA = o.headSHA])
                   /\ o.number \in pass.current
        <4>1. pass.existing[o.number] = stored[o.number]
          BY <3>1 DEF CopiesCurrent
        <4>2. CASE o.number = pr
          <5>1. stored[pr] \in PRDs /\ stored'[pr] = [stored[pr] EXCEPT !.headSHA = o.headSHA]
            BY <3>1, <4>1, <4>2 DEF Write, IsLive, TypeOK
          <5>2. stored'[pr] \in PRDs /\ ~stored'[pr].deleting
            BY <2>2, <5>1 DEF PRDs, IsLive
          <5> QED
            BY <5>2, PollAssumption DEF IsLive
        <4>3. CASE o.number # pr
          BY <3>1, <4>3 DEF Write, IsLive, TypeOK
        <4> QED
          BY <4>2, <4>3
      <3>2. CASE UNCHANGED stored
        BY <3>2 DEF IsLive
      <3> QED
        BY <2>3, <3>1, <3>2 DEF UpdateHead
    <2>4. CASE CreateMissing(o)
      BY <2>2, <2>4 DEF CreateMissing, Write, IsLive, TypeOK
    <2> QED
      BY <2>1, <2>3, <2>4
  <1>2. CASE DeleteClosed
    <2>1. PICK q \in pass.todo :
            \/ Write(q, [stored[q] EXCEPT !.deleting = TRUE])
            \/ UNCHANGED stored
      BY <1>2 DEF DeleteClosed
    <2>2. q # pr
      BY <1>2, <2>1 DEF DeleteClosed, TypeOK, AnswerHolds, DeletesByAnswer
    <2> QED
      BY <2>1, <2>2 DEF Write, IsLive, TypeOK
  <1>3. CASE \E q \in PRs : Observe(q) \/ OutsideMove(q) \/ TeardownEnds(q)
    BY <1>3 DEF Observe, OutsideMove, Push, Close, Reopen, Relabel, OwnWrite, PullMoves,
                TeardownEnds, Write, IsLive, TypeOK, clusterVars
  <1>4. CASE UNCHANGED stored
    BY <1>4 DEF IsLive
  <1> QED
    BY <1>1, <1>2, <1>3, <1>4
       DEF Next, PollStep, StartPoll, FetchOpenPRs, ListExisting, StartDeletePass,
       FinishPass,
           IntervalEnds, Restart, vars, clusterVars

\* gitrepo.go:319, "Only delete PRDeployments for PRs no longer open": through pushes,
\* closings, reopenings, label changes, failures, spurious empty answers and restarts, for
\* any page size; what an answer cannot tell is named in OpenIsKept.
THEOREM OpenKept == Spec => OpenIsKept
  <1>1. PollInvariant /\ TypeOK' /\ [Next]_vars => PollInvariant'
    BY PollInvariantNext
  <1>2. PollInvariant /\ [Next]_vars =>
          [ \A pr \in PRs :
              /\ pulls[pr].open /\ pr \notin pass.reopened /\ IsLive(pr)
              /\ pr \in Numbers(pass.answer) \/ Cardinality(pass.answer) < PageSize
              => IsLive(pr)' ]_vars
    BY KeepsOpen
  <1> QED
    BY <1>1, <1>2, PollInvariantInit, PollTypeCorrect, PTL DEF Spec, OpenIsKept
=============================================================================
