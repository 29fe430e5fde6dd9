----------------------- MODULE OpaqueLifecycleProofs -----------------------
(***************************************************************************)
(* Proofs about OpaqueLifecycle for every value of its constants. The      *)
(* argument: IInv is inductive, and its parts imply the safety properties  *)
(* and, step by step, the action properties.                               *)
(***************************************************************************)
EXTENDS OpaqueLifecycle, TLAPS, SequenceTheorems, FiniteSetTheorems, WellFoundedInduction

----------------------------------------------------------------------------
(* Numbers.                                                                 *)

\* Later is the larger of two times.
LEMMA LaterIsMax ==
    ASSUME NEW a \in Nat, NEW b \in Nat
    PROVE  Later(a, b) \in Nat /\ a <= Later(a, b) /\ b <= Later(a, b)
  BY DEF Later

\* The configured times are natural numbers.
LEMMA TimesAreNat ==
    /\ Ttl \in Nat /\ VerifyLease \in Nat /\ Grace \in Nat /\ Retention \in Nat
    /\ ReadLease \in Nat /\ Batch \in Nat /\ BackoffCap \in Nat
  BY TimesAssumption

\* A power of two is a natural number: it counts the subsets of 1..k.
LEMMA PowerIsNat ==
    ASSUME NEW k \in Nat
    PROVE  2 ^ k \in Nat
<1>1. IsFiniteSet(1..k) /\ Cardinality(1..k) = k
  BY FS_Interval
<1>2. IsFiniteSet(SUBSET (1..k)) /\ Cardinality(SUBSET (1..k)) = 2 ^ k
  BY <1>1, FS_SUBSET
<1>3. QED
  BY <1>2, FS_CardinalityType

\* A nonempty set of times has an earliest one.
LEMMA MinIsNat ==
    ASSUME NEW S, S \subseteq Nat, S # {}
    PROVE  Min(S) \in Nat
<1>1. PICK x \in S : \A y \in S : <<y, x>> \notin OpToRel(<, Nat)
  BY NatLessThanWellFounded, WFMin, Zenon
<1>2. \A y \in S : ~(y < x)
  BY <1>1, Zenon DEF OpToRel
<1>3. \A y \in S : x =< y
  BY <1>2
<1>4. QED
  BY <1>3 DEF Min

----------------------------------------------------------------------------
(* Helpers of the model.                                                    *)

Sessions == [Upload -> Session]
Queues == [Upload -> GcRow \cup {NoRow}]

\* Every deadline the alarm is armed for is a time.
LEMMA DueTimesAreTimes ==
    ASSUME NEW sessions \in Sessions, NEW queue \in Queues
    PROVE  DueTimes(sessions, queue) \subseteq Nat
<1>1. ASSUME NEW u \in Upload, queue[u] # NoRow
      PROVE  Later(queue[u].notBefore, queue[u].next) \in Nat
  <2>1. queue[u] \in GcRow
    BY <1>1 DEF Queues
  <2>2. QED
    BY <2>1, LaterIsMax DEF GcRow
<1>2. \A u \in Upload : sessions[u].expires \in Nat /\ sessions[u].lease \in Nat
  BY DEF Sessions, Session
<1>3. QED
  BY <1>1, <1>2 DEF DueTimes

\* scheduleGarbageAlarm puts a well-formed request in the line for getAlarm().
LEMMA ScheduleAlarmType ==
    ASSUME TypeOK, NEW sessions \in Sessions, NEW queue \in Queues,
           NEW owner \in Upload \cup Caller \cup Drain \cup {None},
           ScheduleAlarm(owner, sessions, queue)
    PROVE  arms' \in Seq(Arm) /\ unarmed' \in BOOLEAN
<1>1. CASE DueTimes(sessions, queue) = {}
  BY <1>1 DEF ScheduleAlarm, TypeOK
<1>2. CASE DueTimes(sessions, queue) # {}
  <2>1. Min(DueTimes(sessions, queue)) \in Nat
    BY <1>2, DueTimesAreTimes, MinIsNat
  <2>2. [owner |-> owner, due |-> Min(DueTimes(sessions, queue)), seen |-> alarm] \in Arm
    BY <2>1 DEF Arm, TypeOK
  <2>3. QED
    BY <1>2, <2>2, AppendProperties DEF ScheduleAlarm, TypeOK
<1>3. QED
  BY <1>1, <1>2

\* Queueing a key leaves the other rows alone, and the row of the key waits at
\* least as long as asked and as before.
LEMMA QueueGarbageRow ==
    ASSUME NEW queue \in Queues, NEW u \in Upload, NEW time \in Nat
    PROVE  /\ QueueGarbage(queue, u, time) \in Queues
           /\ \A v \in Upload \ {u} : QueueGarbage(queue, u, time)[v] = queue[v]
           /\ QueueGarbage(queue, u, time)[u] \in GcRow
           /\ QueueGarbage(queue, u, time)[u].notBefore >= time
           /\ queue[u] # NoRow =>
                QueueGarbage(queue, u, time)[u].notBefore >= queue[u].notBefore
<1>1. CASE queue[u] = NoRow
  BY <1>1 DEF QueueGarbage, Queues, GcRow
<1>2. CASE queue[u] # NoRow
  <2>1. queue[u] \in GcRow
    BY <1>2 DEF Queues
  <2>2. /\ Later(queue[u].notBefore, time) \in Nat /\ Later(queue[u].next, time) \in Nat
        /\ Later(queue[u].notBefore, time) >= time
        /\ Later(queue[u].notBefore, time) >= queue[u].notBefore
    BY <2>1, LaterIsMax DEF GcRow
  <2> DEFINE row == [queue[u] EXCEPT !.notBefore = Later(queue[u].notBefore, time),
                                     !.next = Later(queue[u].next, time)]
  <2>3. QueueGarbage(queue, u, time) = [queue EXCEPT ![u] = row]
    BY <1>2 DEF QueueGarbage
  <2>4. row \in GcRow /\ row.notBefore = Later(queue[u].notBefore, time)
    BY <2>1, <2>2 DEF GcRow
  <2> HIDE DEF row
  <2>5. QED
    BY <2>2, <2>3, <2>4 DEF Queues
<1>3. QED
  BY <1>1, <1>2

----------------------------------------------------------------------------
(* Type correctness.                                                        *)

\* The initial state is well typed.
LEMMA InitType == Init => TypeOK
<1> USE DEF Session, SessionState, NoSession, DrainCall, IdleDrain, Call
<1> SUFFICES ASSUME Init PROVE TypeOK
  OBVIOUS
<1>2. arms \in Seq(Arm)
  BY DEF Init
<1>3. NoSession \in Session /\ IdleDrain \in DrainCall
  OBVIOUS
<1>4. /\ session \in [Upload -> Session] /\ drain \in [Drain -> DrainCall]
      /\ call \in [Caller -> Call]
  BY <1>3 DEF Init
<1>5. /\ object \in [Upload -> Nat \cup {NoRow}] /\ gc \in [Upload -> GcRow \cup {NoRow}]
      /\ entry \in [Path -> Body]
  BY DEF Init, Body
<1>6. QED
  BY <1>2, <1>4, <1>5 DEF Init, TypeOK

\* A reservation turned into garbage, and the queue that takes its key.
LEMMA GarbageType ==
    ASSUME TypeOK, NEW u \in Upload
    PROVE  /\ Garbage(u) => session' \in Sessions
           /\ QueueUploadGarbage(u) => gc' \in Queues
<1>1. Garbage(u) => session' \in Sessions
  <2> DEFINE row == [session[u] EXCEPT !.state = "garbage", !.verifier = None, !.lease = 0]
  <2>1. row \in Session
    <3>1. session[u] \in Session
      BY DEF TypeOK
    <3> QED  BY <3>1 DEF Session, SessionState
  <2>2. Garbage(u) => session' = [session EXCEPT ![u] = row]
    BY DEF Garbage
  <2> HIDE DEF row
  <2>3. QED
    BY <2>1, <2>2 DEF Sessions, TypeOK
<1>2. session[u].expires + Grace \in Nat /\ now \in Nat
  BY TimesAreNat DEF TypeOK, Session
<1>3. Later(now, session[u].expires + Grace) \in Nat
  BY <1>2, LaterIsMax
<1>4. gc \in Queues
  BY DEF TypeOK, Queues
<1>5. QED
  BY <1>1, <1>3, <1>4, QueueGarbageRow DEF QueueUploadGarbage

\* Letting go of objects leaves object rows and queue well typed.
LEMMA ReleaseType ==
    ASSUME TypeOK, NEW released, released \subseteq {u \in Upload : object[u] # NoRow}
    PROVE  \A u \in released : /\ Later(now, object[u]) \in Nat
                               /\ QueueGarbage(gc, u, Later(now, object[u]))[u] \in GcRow
<1> SUFFICES ASSUME NEW u \in released
               PROVE  /\ Later(now, object[u]) \in Nat
                      /\ QueueGarbage(gc, u, Later(now, object[u]))[u] \in GcRow
  OBVIOUS
<1>2. now \in Nat /\ object[u] \in Nat /\ u \in Upload
  BY DEF TypeOK
<1>3. Later(now, object[u]) \in Nat
  BY <1>2, LaterIsMax
<1>4. gc \in Queues
  BY DEF TypeOK, Queues
<1>5. QED
  BY <1>2, <1>3, <1>4, QueueGarbageRow

\* A namespace transaction keeps the types.
LEMMA RebindType ==
    ASSUME TypeOK, NEW paths \in SUBSET Path, NEW names \in [Path -> Body],
           Rebind(paths, names)
    PROVE  TypeOK'
<1> DEFINE released == Released({entry[p] : p \in paths}, names)
<1>1. released \subseteq {u \in Upload : object[u] # NoRow}
  BY DEF Released
<1>2. object' = RowsWithout(released) /\ gc' = QueueWith(released)
  BY DEF Rebind
<1>3. /\ object' \in [Upload -> Nat \cup {NoRow}]
      /\ gc' \in Queues
  <2> HIDE DEF released
  <2>1. \A u \in released : QueueGarbage(gc, u, Later(now, object[u]))[u] \in GcRow
    BY <1>1, ReleaseType
  <2>2. QED
    BY <1>1, <1>2, <2>1 DEF RowsWithout, QueueWith, TypeOK, Queues
<1>4. version' \in [Path -> Nat]
  BY DEF Rebind, PublishTokens, TypeOK
<1>5. touched' \subseteq Upload
  BY DEF Rebind, NoteTouched, TypeOK
<1>6. session \in Sessions /\ None \in Upload \cup Caller \cup Drain \cup {None}
  BY DEF TypeOK, Sessions
<1>7. arms' \in Seq(Arm) /\ unarmed' \in BOOLEAN
  <2>1. CASE KeepAlarm
    BY <2>1 DEF KeepAlarm, TypeOK
  <2>2. CASE ScheduleAlarm(None, session, gc')
    BY <1>3, <1>6, <2>2, ScheduleAlarmType
  <2>3. QED
    BY <2>1, <2>2 DEF Rebind
<1>8. QED
  BY <1>3, <1>4, <1>5, <1>7 DEF Rebind, TypeOK, Queues, store, calls, env

\* The namespace operations are namespace transactions.
LEMMA NamespaceType == TypeOK /\ Namespace => TypeOK'
<1> SUFFICES ASSUME TypeOK, Namespace PROVE TypeOK'
  OBVIOUS
<1>1. \A p \in Path : entry[p] \in Body
  BY DEF TypeOK
<1>2. ASSUME NEW p \in Path, WriteFile(p) PROVE TypeOK'
  <2>1. [entry EXCEPT ![p] = Inline] \in [Path -> Body]
    BY DEF TypeOK, Body
  <2>2. QED
    BY <1>2, <2>1, RebindType DEF WriteFile
<1>3. ASSUME NEW p \in Path, Remove(p) PROVE TypeOK'
  <2>1. [entry EXCEPT ![p] = None] \in [Path -> Body]
    BY DEF TypeOK, Body
  <2>2. QED
    BY <1>3, <2>1, RebindType DEF Remove
<1>4. ASSUME NEW tree \in Subtrees, RemoveSubtree(tree) PROVE TypeOK'
  <2>1. [p \in Path |-> IF p \in tree THEN None ELSE entry[p]] \in [Path -> Body]
    BY <1>1 DEF Body
  <2>2. {p \in tree : entry[p] # None} \in SUBSET Path
    BY SetsAssumption
  <2>3. QED
    BY <1>4, <2>1, <2>2, RebindType DEF RemoveSubtree
<1>5. ASSUME NEW p \in Path, NEW q \in Path, Move(p, q) PROVE TypeOK'
  <2>1. [entry EXCEPT ![p] = None, ![q] = entry[p]] \in [Path -> Body]
    BY <1>1 DEF TypeOK, Body
  <2>2. {p, q} \in SUBSET Path
    OBVIOUS
  <2>3. QED
    BY <1>5, <2>1, <2>2, RebindType DEF Move
<1>6. ASSUME NEW p \in Path, NEW q \in Path, Copy(p, q) PROVE TypeOK'
  <2>1. [entry EXCEPT ![q] = entry[p]] \in [Path -> Body]
    BY <1>1 DEF TypeOK
  <2>2. QED
    BY <1>6, <2>1, RebindType DEF Copy
<1>7. ASSUME NEW p \in Path, ResolveOpaqueRead(p) PROVE TypeOK'
  <2> DEFINE u == entry[p]
  <2>1. u \in Upload /\ object[u] \in Nat /\ granted[u] \in Nat /\ now + ReadLease \in Nat
    BY <1>7, TimesAreNat DEF ResolveOpaqueRead, TypeOK
  <2>2. Later(object[u], now + ReadLease) \in Nat /\ Later(granted[u], now + ReadLease) \in Nat
    BY <2>1, LaterIsMax
  <2>3. object' \in [Upload -> Nat \cup {NoRow}] /\ granted' \in [Upload -> Nat]
    BY <1>7, <2>2 DEF ResolveOpaqueRead, TypeOK
  <2>4. QED
    BY <1>7, <2>3 DEF ResolveOpaqueRead, KeepAlarm, TypeOK, store, calls, env
<1>8. QED
  BY <1>2, <1>3, <1>4, <1>5, <1>6, <1>7 DEF Namespace

\* Opening, aborting, expiring and claiming a reservation keep the types.
LEMMA UploadsType == TypeOK /\ Uploads => TypeOK'
<1> SUFFICES ASSUME TypeOK, Uploads PROVE TypeOK'
  OBVIOUS
<1>1. gc \in Queues /\ session \in Sessions /\ now \in Nat
  BY DEF TypeOK, Queues, Sessions
<1>2. ASSUME NEW u \in Upload, NEW p \in Path, BeginOpaqueUpload(u, p) PROVE TypeOK'
  <2>1. version[p] \in Nat /\ now + Ttl \in Nat
    BY TimesAreNat DEF TypeOK
  <2>2. session' \in Sessions /\ authority' \in [Upload -> Nat]
    BY <1>2, <2>1 DEF BeginOpaqueUpload, TypeOK, Sessions, Session, SessionState
  <2>3. arms' \in Seq(Arm) /\ unarmed' \in BOOLEAN
    BY <1>1, <1>2, <2>2, ScheduleAlarmType DEF BeginOpaqueUpload
  <2>4. QED
    BY <1>2, <2>2, <2>3 DEF BeginOpaqueUpload, TypeOK, Sessions, store, calls, env
<1>3. ASSUME NEW u \in Upload, AbortOpaqueUpload(u) PROVE TypeOK'
  <2>1. session' \in Sessions /\ gc' \in Queues
    BY <1>3, GarbageType DEF AbortOpaqueUpload
  <2>2. arms' \in Seq(Arm) /\ unarmed' \in BOOLEAN
    BY <1>3, <2>1, ScheduleAlarmType DEF AbortOpaqueUpload
  <2>3. QED
    BY <1>3, <2>1, <2>2
    DEF AbortOpaqueUpload, TypeOK, Sessions, Queues, store, calls, env, history
<1>4. ASSUME NEW u \in Upload, CommitExpired(u) PROVE TypeOK'
  <2>1. session' \in Sessions /\ gc' \in Queues
    <3> DEFINE row == [session[u] EXCEPT !.state = "garbage"]
    <3>1. session[u] \in Session /\ session \in [Upload -> Session]
      BY DEF TypeOK
    <3>2. row \in Session
      BY <3>1 DEF Session, SessionState
    <3>3. session' = [session EXCEPT ![u] = row]
      BY <1>4 DEF CommitExpired
    <3> HIDE DEF row
    <3>4. session' \in Sessions
      BY <3>1, <3>2, <3>3 DEF Sessions
    <3>5. gc' \in Queues
      BY <1>4, GarbageType DEF CommitExpired
    <3> QED  BY <3>4, <3>5
  <2>2. arms' \in Seq(Arm) /\ unarmed' \in BOOLEAN
    BY <1>4, <2>1, ScheduleAlarmType DEF CommitExpired
  <2>3. QED
    BY <1>4, <2>1, <2>2
    DEF CommitExpired, TypeOK, Sessions, Queues, store, calls, env, history
<1>5. ASSUME NEW u \in Upload, CommitReceiptExpired(u) PROVE TypeOK'
  <2>1. session' \in Sessions
    BY <1>1, <1>5
    DEF CommitReceiptExpired, DeletedSession, NoSession, Sessions, Session, SessionState
  <2>2. arms' \in Seq(Arm) /\ unarmed' \in BOOLEAN
    BY <1>1, <1>5, <2>1, ScheduleAlarmType DEF CommitReceiptExpired
  <2>3. QED
    BY <1>5, <2>1, <2>2
    DEF CommitReceiptExpired, TypeOK, Sessions, store, calls, env, history
<1>6. ASSUME NEW c \in Caller, NEW u \in Upload, ClaimVerification(c, u) PROVE TypeOK'
  <2> DEFINE row == [session[u] EXCEPT !.state = "verifying", !.verifier = c,
                                       !.lease = now + VerifyLease]
  <2>1. row \in Session
    <3>1. session[u] \in Session /\ now + VerifyLease \in Nat
      BY <1>1, TimesAreNat DEF Sessions
    <3>2. QED
      BY <3>1 DEF Session, SessionState
  <2>2. session' = [session EXCEPT ![u] = row]
    BY <1>6 DEF ClaimVerification
  <2> HIDE DEF row
  <2>3. session' \in Sessions
    BY <1>1, <2>1, <2>2 DEF Sessions
  <2>4. call' \in [Caller -> Call]
    BY <1>6 DEF ClaimVerification, TypeOK, Call, HeadAnswer
  <2>5. arms' \in Seq(Arm) /\ unarmed' \in BOOLEAN
    BY <1>1, <1>6, <2>3, ScheduleAlarmType DEF ClaimVerification
  <2>6. QED
    BY <1>6, <2>3, <2>4, <2>5
    DEF ClaimVerification, TypeOK, Sessions, store, env, history
<1>7. QED
  BY <1>2, <1>3, <1>4, <1>5, <1>6 DEF Uploads

\* The replies to a commit keep the types.
LEMMA CommitsType == TypeOK /\ Commits => TypeOK'
<1> SUFFICES ASSUME TypeOK, NEW c \in Caller,
                    \/ HeadObject(c) \/ CommitFails(c) \/ RejectMetadata(c)
                    \/ RejectLeaseLost(c) \/ CommitStale(c) \/ CommitPublishes(c)
             PROVE  TypeOK'
  BY DEF Commits
<1> DEFINE u == call[c].upload
<1>1. gc \in Queues /\ session \in Sessions /\ now \in Nat
  BY DEF TypeOK, Queues, Sessions
<1>2. call[c].pc # "idle" => u \in Upload
  BY DEF TypeOK, Call, IdleCall
<1>3. Finish(c) => call' \in [Caller -> Call]
  BY DEF Finish, TypeOK, Call
<1>4. CASE HeadObject(c)
  <2>1. PICK answer \in {"ok", "mismatch", "missing", "error"} :
            call' = [call EXCEPT ![c].pc = "reply", ![c].head = answer]
    BY <1>4 DEF HeadObject
  <2>2. [call[c] EXCEPT !.pc = "reply", !.head = answer] \in Call
    <3>1. call[c] \in [pc : {"arming", "head", "reply"}, upload : Upload, head : HeadAnswer]
      <4>1. call[c] \in Call /\ call[c].pc = "head"
        BY <1>4 DEF HeadObject, TypeOK
      <4>2. QED
        BY <4>1 DEF Call, IdleCall
    <3>2. [call[c] EXCEPT !.pc = "reply", !.head = answer] \in
              [pc : {"arming", "head", "reply"}, upload : Upload, head : HeadAnswer]
      BY <3>1 DEF HeadAnswer
    <3>3. QED
      BY <3>2 DEF Call
  <2>3. call' \in [Caller -> Call]
    BY <2>1, <2>2 DEF TypeOK
  <2>4. QED
    BY <1>4, <2>3 DEF HeadObject, TypeOK, rows, store, env, history
<1>5. CASE CommitFails(c)
  <2>1. session' \in Sessions
    <3> DEFINE row == [session[u] EXCEPT !.state = "open", !.verifier = None, !.lease = 0]
    <3>1. u \in Upload
      BY <1>2, <1>5 DEF CommitFails
    <3>2. row \in Session
      BY <1>1, <3>1 DEF Sessions, Session, SessionState
    <3>3. session' = IF Holds(c, u) THEN [session EXCEPT ![u] = row] ELSE session
      BY <1>5 DEF CommitFails, ResetVerification
    <3> HIDE DEF row, u
    <3>4. QED
      BY <1>1, <3>1, <3>2, <3>3 DEF Sessions
  <2>2. arms' \in Seq(Arm) /\ unarmed' \in BOOLEAN
    BY <1>1, <1>5, <2>1, ScheduleAlarmType DEF CommitFails
  <2>3. QED
    BY <1>3, <1>5, <2>1, <2>2 DEF CommitFails, TypeOK, Sessions, store, env, history
<1>6. CASE RejectMetadata(c)
  <2>1. session' \in Sessions /\ gc' \in Queues
    BY <1>2, <1>6, GarbageType DEF RejectMetadata
  <2>2. arms' \in Seq(Arm) /\ unarmed' \in BOOLEAN
    BY <1>6, <2>1, ScheduleAlarmType DEF RejectMetadata
  <2>3. QED
    BY <1>3, <1>6, <2>1, <2>2
    DEF RejectMetadata, TypeOK, Sessions, Queues, store, env, history
<1>7. CASE RejectLeaseLost(c)
  BY <1>3, <1>7 DEF RejectLeaseLost, KeepAlarm, TypeOK, rows, store, env, history
<1>8. CASE CommitStale(c)
  <2>1. session' \in Sessions /\ gc' \in Queues
    BY <1>2, <1>8, GarbageType DEF CommitStale
  <2>2. arms' \in Seq(Arm) /\ unarmed' \in BOOLEAN
    BY <1>8, <2>1, ScheduleAlarmType DEF CommitStale
  <2>3. QED
    BY <1>3, <1>8, <2>1, <2>2
    DEF CommitStale, TypeOK, Sessions, Queues, store, env, history
<1>9. CASE CommitPublishes(c)
  <2> DEFINE p == session[u].path
             names == [entry EXCEPT ![p] = u]
             released == Released({entry[p]}, names)
             row == [session[u] EXCEPT !.state = "committed", !.verifier = None,
                                       !.lease = 0, !.expires = now + Retention]
  <2>1. u \in Upload
    BY <1>2, <1>9 DEF CommitPublishes
  <2>2. released \subseteq {v \in Upload : object[v] # NoRow}
    BY DEF Released
  <2>3. entry' \in [Path -> Body]
    BY <1>9, <2>1 DEF CommitPublishes, TypeOK, Body
  <2>4. object' \in [Upload -> Nat \cup {NoRow}] /\ gc' \in Queues
    <3>1. object' = [RowsWithout(released) EXCEPT ![u] = 0] /\ gc' = QueueWith(released)
      BY <1>9 DEF CommitPublishes
    <3> HIDE DEF released, u
    <3>2. \A v \in released : QueueGarbage(gc, v, Later(now, object[v]))[v] \in GcRow
      BY <2>2, ReleaseType
    <3>3. QED
      BY <3>1, <3>2 DEF RowsWithout, QueueWith, TypeOK, Queues
  <2>5. session' \in Sessions
    <3>1. row \in Session
      <4>1. session[u] \in Session /\ now + Retention \in Nat
        BY <1>1, <2>1, TimesAreNat DEF Sessions
      <4> HIDE DEF u
      <4>2. QED
        BY <4>1 DEF Session, SessionState
    <3>2. session' = [session EXCEPT ![u] = row]
      BY <1>9 DEF CommitPublishes
    <3> HIDE DEF row, u
    <3>3. QED
      BY <1>1, <3>1, <3>2 DEF Sessions
  <2>6. version' \in [Path -> Nat] /\ touched' \subseteq Upload
    <3>1. PublishTokens({p}) /\ NoteTouched({p})
      BY <1>9 DEF CommitPublishes
    <3>2. version \in [Path -> Nat] /\ touched \subseteq Upload
      BY DEF TypeOK
    <3> HIDE DEF p
    <3>3. version' \in [Path -> Nat]
      BY <3>1, <3>2 DEF PublishTokens
    <3>4. touched' \subseteq Upload
      BY <3>1, <3>2 DEF NoteTouched
    <3> QED  BY <3>3, <3>4
  <2>7. arms' \in Seq(Arm) /\ unarmed' \in BOOLEAN
    BY <1>9, <2>4, <2>5, ScheduleAlarmType DEF CommitPublishes
  <2>8. QED
    BY <1>3, <1>9, <2>3, <2>4, <2>5, <2>6, <2>7
    DEF CommitPublishes, TypeOK, Sessions, Queues, store, env
<1>10. QED
  BY <1>4, <1>5, <1>6, <1>7, <1>8, <1>9

\* Rearm ends a drain or lets it wait for its alarm.
LEMMA RearmType ==
    ASSUME TypeOK, NEW d \in Drain, NEW record \in DrainCall, NEW queue \in Queues,
           session' \in Sessions, Rearm(d, record, queue)
    PROVE  drain' \in [Drain -> DrainCall] /\ arms' \in Seq(Arm) /\ unarmed' \in BOOLEAN
<1>1. IdleDrain \in DrainCall /\ [record EXCEPT !.pc = "arming", !.keys = {}] \in DrainCall
  BY DEF IdleDrain, DrainCall
<1>2. drain' \in [Drain -> DrainCall]
  BY <1>1 DEF Rearm, TypeOK
<1>3. QED
  BY <1>2, ScheduleAlarmType DEF Rearm

\* The first transaction of a drain queues what expired.
LEMMA ExpireType ==
    ASSUME TypeOK, NEW expired \in SUBSET Upload
    PROVE  /\ [u \in Upload |-> IF u \in expired
                 THEN QueueGarbage(gc, u, Later(now, session[u].expires + Grace))[u]
                 ELSE gc[u]] \in Queues
           /\ [u \in Upload |-> IF u \in expired
                 THEN [session[u] EXCEPT !.state = "garbage", !.verifier = None, !.lease = 0]
                 ELSE IF session[u].state = "committed" /\ session[u].expires <= now
                 THEN DeletedSession("forgotten") ELSE session[u]] \in Sessions
<1>1. gc \in Queues /\ now \in Nat
  BY DEF TypeOK, Queues
<1>2. ASSUME NEW u \in Upload
      PROVE  /\ QueueGarbage(gc, u, Later(now, session[u].expires + Grace))[u] \in GcRow
             /\ session[u] \in Session
             /\ [session[u] EXCEPT !.state = "garbage", !.verifier = None, !.lease = 0]
                    \in Session
  <2>1. session[u] \in Session /\ session[u].expires + Grace \in Nat
    BY TimesAreNat DEF TypeOK, Session
  <2>2. Later(now, session[u].expires + Grace) \in Nat
    BY <1>1, <2>1, LaterIsMax
  <2>3. [session[u] EXCEPT !.state = "garbage", !.verifier = None, !.lease = 0] \in Session
    BY <2>1 DEF Session, SessionState
  <2>4. QED
    BY <1>1, <2>1, <2>2, <2>3, QueueGarbageRow
<1>3. DeletedSession("forgotten") \in Session
  BY DEF DeletedSession, NoSession, Session, SessionState
<1>4. QED
  BY <1>1, <1>2, <1>3 DEF Queues, Sessions

\* The row of a key that a drain backs off from is a row, to be deleted no
\* earlier and no later than before.
LEMMA BackoffRow ==
    ASSUME TypeOK, NEW d \in Drain, NEW row \in GcRow
    PROVE  Backoff(d, row) \in GcRow /\ Backoff(d, row).notBefore = row.notBefore
<1>1. Sooner(row.attempts + 1, 12) \in Nat
  BY DEF Sooner, GcRow
<1>2. 2 ^ Sooner(row.attempts + 1, 12) \in Nat
  BY <1>1, PowerIsNat
<1> DEFINE delay == 2 ^ Sooner(row.attempts + 1, 12)
           time == drain[d].start + Sooner(delay, BackoffCap)
           tries == row.attempts + 1
<1>3. Backoff(d, row) = [row EXCEPT !.attempts = tries, !.next = time]
  BY DEF Backoff
<1>4. delay \in Nat
  BY <1>2
<1> HIDE DEF delay
<1>5. time \in Nat
  <2>1. drain[d].start \in Nat
    BY DEF TypeOK, DrainCall
  <2>2. QED
    BY <1>4, <2>1, TimesAreNat DEF Sooner
<1> HIDE DEF time
<1>6. tries \in Nat
  BY DEF GcRow
<1> HIDE DEF tries
<1>7. QED
  BY <1>3, <1>5, <1>6 DEF GcRow

\* The steps of a drain keep the types.
LEMMA DrainsType == TypeOK /\ Drains => TypeOK'
<1> SUFFICES ASSUME TypeOK, NEW d \in Drain,
                    \/ FireAlarm(d) \/ DrainGarbage(d) \/ DeleteBodies(d)
                    \/ DeleteBodiesFails(d) \/ SettleDrain(d) \/ BackOffDrain(d)
             PROVE  TypeOK'
  BY DEF Drains
<1>1. gc \in Queues /\ session \in Sessions /\ now \in Nat /\ drain[d] \in DrainCall
  BY DEF TypeOK, Queues, Sessions
<1>2. CASE FireAlarm(d)
  <2>1. drain' \in [Drain -> DrainCall]
    BY <1>2 DEF FireAlarm, IdleDrain, DrainCall, TypeOK
  <2>2. QED
    BY <1>2, <2>1 DEF FireAlarm, TypeOK, rows, store, env, history
<1>3. CASE DrainGarbage(d)
  <2> DEFINE Queue(expired) ==
                [u \in Upload |-> IF u \in expired
                    THEN QueueGarbage(gc, u, Later(now, session[u].expires + Grace))[u]
                    ELSE gc[u]]
  <2>1. PICK expired \in Batches(ExpiredSessions) :
            /\ gc' = Queue(expired)
            /\ session' = [u \in Upload |-> IF u \in expired
                 THEN [session[u] EXCEPT !.state = "garbage", !.verifier = None, !.lease = 0]
                 ELSE IF session[u].state = "committed" /\ session[u].expires <= now
                 THEN DeletedSession("forgotten") ELSE session[u]]
            /\ \E keys \in Batches(DueKeys(Queue(expired))) :
                IF keys = {} THEN Rearm(d, drain[d], Queue(expired))
                ELSE /\ drain' = [drain EXCEPT ![d] = [drain[d] EXCEPT
                                    !.pc = "deleting", !.keys = keys, !.start = now]]
                     /\ KeepAlarm
    BY <1>3 DEF DrainGarbage
  <2>2. expired \in SUBSET Upload
    BY DEF Batches, ExpiredSessions
  <2>3. Queue(expired) \in Queues /\ session' \in Sessions
    BY <2>1, <2>2, ExpireType
  <2> HIDE DEF Queue
  <2>4. PICK keys \in SUBSET Upload :
                IF keys = {} THEN Rearm(d, drain[d], Queue(expired))
                ELSE /\ drain' = [drain EXCEPT ![d] = [drain[d] EXCEPT
                                    !.pc = "deleting", !.keys = keys, !.start = now]]
                     /\ KeepAlarm
    BY <2>1 DEF Batches, DueKeys
  <2>5. drain' \in [Drain -> DrainCall] /\ arms' \in Seq(Arm) /\ unarmed' \in BOOLEAN
    <3>1. CASE keys = {}
      BY <1>1, <2>3, <2>4, <3>1, RearmType
    <3>2. CASE keys # {}
      <4>1. [drain[d] EXCEPT !.pc = "deleting", !.keys = keys, !.start = now] \in DrainCall
        BY <1>1 DEF DrainCall
      <4>2. QED
        BY <2>4, <3>2, <4>1 DEF KeepAlarm, TypeOK
    <3>3. QED
      BY <3>1, <3>2
  <2>6. QED
    BY <1>3, <2>1, <2>3, <2>5 DEF DrainGarbage, TypeOK, Sessions, Queues, store, env, history
<1>4. CASE DeleteBodies(d)
  <2>1. drain' \in [Drain -> DrainCall]
    BY <1>1, <1>4 DEF DeleteBodies, DrainCall, TypeOK
  <2>2. QED
    BY <1>4, <2>1 DEF DeleteBodies, TypeOK, rows, env, history
<1>5. CASE DeleteBodiesFails(d)
  <2>1. drain' \in [Drain -> DrainCall]
    BY <1>1, <1>5 DEF DeleteBodiesFails, DrainCall, TypeOK
  <2>2. QED
    BY <1>5, <2>1 DEF DeleteBodiesFails, TypeOK, rows, history
<1>6. CASE SettleDrain(d)
  <2>1. session' \in Sessions
    BY <1>1, <1>6 DEF SettleDrain, DeletedSession, NoSession, Sessions, Session, SessionState
  <2>2. gc' \in Queues
    BY <1>1, <1>6 DEF SettleDrain, Queues
  <2>3. drain' \in [Drain -> DrainCall] /\ arms' \in Seq(Arm) /\ unarmed' \in BOOLEAN
    BY <1>1, <1>6, <2>1, <2>2, RearmType DEF SettleDrain
  <2>4. QED
    BY <1>6, <2>1, <2>2, <2>3
    DEF SettleDrain, TypeOK, Sessions, Queues, store, env, history
<1>7. CASE BackOffDrain(d)
  <2>1. \A row \in GcRow : Backoff(d, row) \in GcRow
    BY BackoffRow
  <2>2. gc' \in Queues /\ session' \in Sessions
    BY <1>1, <1>7, <2>1 DEF BackOffDrain, Queues
  <2>3. drain' \in [Drain -> DrainCall] /\ arms' \in Seq(Arm) /\ unarmed' \in BOOLEAN
    BY <1>1, <1>7, <2>2, RearmType DEF BackOffDrain
  <2>4. QED
    BY <1>7, <2>2, <2>3
    DEF BackOffDrain, TypeOK, Sessions, Queues, store, env, history
<1>8. QED
  BY <1>2, <1>3, <1>4, <1>5, <1>6, <1>7

\* Arming the alarm, PUTs, the clock, the host and evictions keep the types.
LEMMA EnvironmentType == TypeOK /\ (ArmAlarm \/ Environment) => TypeOK'
<1> SUFFICES ASSUME TypeOK, ArmAlarm \/ Environment PROVE TypeOK'
  OBVIOUS
<1> USE DEF TypeOK, rows, store, calls, env, history
<1>1. CASE ArmAlarm
  <2> DEFINE a == Head(arms)
  <2>1. a \in Arm /\ arms' \in Seq(Arm)
    BY <1>1, HeadTailProperties DEF ArmAlarm
  <2>2. a.due \in Nat /\ a.seen \in Nat \cup {None}
    BY <2>1 DEF Arm
  <2>3. alarm' \in Nat \cup {None} /\ reserved' \subseteq Upload
    BY <1>1, <2>2 DEF ArmAlarm
  <2>4. ASSUME NEW c \in Caller
        PROVE  call[c].pc = "arming" => [call[c] EXCEPT !.pc = "head"] \in Call
    <3> SUFFICES ASSUME call[c].pc = "arming" PROVE [call[c] EXCEPT !.pc = "head"] \in Call
      OBVIOUS
    <3>1. call[c] \in Call
      OBVIOUS
    <3>2. call[c] \in [pc : {"arming", "head", "reply"}, upload : Upload, head : HeadAnswer]
      BY <3>1 DEF Call, IdleCall
    <3>3. QED
      BY <3>2 DEF Call
  <2>5. call' \in [Caller -> Call]
    BY <1>1, <2>4 DEF ArmAlarm
  <2>6. drain' \in [Drain -> DrainCall]
    BY <1>1 DEF ArmAlarm, IdleDrain, DrainCall
  <2>7. QED
    BY <1>1, <2>1, <2>3, <2>5, <2>6 DEF ArmAlarm
<1>2. CASE Tick
  BY <1>2 DEF Tick
<1>3. CASE Crash
  <2>1. call' \in [Caller -> Call] /\ drain' \in [Drain -> DrainCall]
    BY <1>3 DEF Crash, IdleDrain, DrainCall, Call
  <2>2. arms' \in Seq(Arm) /\ unarmed' \in BOOLEAN
    BY <1>3 DEF Crash
  <2>3. QED
    BY <1>3, <2>1, <2>2 DEF Crash
<1>4. ASSUME NEW u \in Upload, StartPut(u) PROVE TypeOK'
  BY <1>4 DEF StartPut
<1>5. ASSUME NEW u \in Upload, LandPut(u) PROVE TypeOK'
  BY <1>5 DEF LandPut
<1>6. ASSUME NEW time \in HostTimes, HostSetAlarm(time) PROVE TypeOK'
  BY <1>6, SetsAssumption DEF HostSetAlarm
<1>7. QED
  BY <1>1, <1>2, <1>3, <1>4, <1>5, <1>6 DEF Environment

\* Every reachable state is well typed.
THEOREM TypeCorrect == Spec => []TypeOK
<1>1. TypeOK /\ [Next]_vars => TypeOK'
  <2>1. TypeOK /\ UNCHANGED vars => TypeOK'
    BY DEF TypeOK, vars, rows, store, calls, env, history
  <2>2. QED
    BY <2>1, NamespaceType, UploadsType, CommitsType, DrainsType, EnvironmentType DEF Next
<1>2. QED
  BY <1>1, InitType, PTL DEF Spec

----------------------------------------------------------------------------
(* The inductive invariant. TypeOK' is available to every lemma below, from *)
(* the section above.                                                       *)

Safe ==
    /\ NamesHaveRows /\ RowsAreLive /\ QueueIsDead /\ DrainsTakeDead
    /\ LeasesArePublished /\ LeasedBodyRetained /\ VerifiedIsStored /\ TokensLagBehind

\* Initially there are no names, rows, keys, leases or reservations.
LEMMA InitSafe == Init => Safe
<1> SUFFICES ASSUME Init PROVE Safe
  OBVIOUS
<1>1. NamesHaveRows
  BY SetsAssumption DEF Init, NamesHaveRows
<1>2. RowsAreLive /\ QueueIsDead /\ LeasesArePublished /\ LeasedBodyRetained
  BY DEF Init, RowsAreLive, QueueIsDead, LeasesArePublished, LeasedBodyRetained
<1>3. DrainsTakeDead /\ VerifiedIsStored
  BY DEF Init, DrainsTakeDead, VerifiedIsStored, IdleDrain, IdleCall
<1>4. TokensLagBehind
  BY DEF Init, TokensLagBehind, NoSession
<1>5. QED
  BY <1>1, <1>2, <1>3, <1>4 DEF Safe

\* A namespace transaction whose names were all there before is safe: only
\* objects that no name is left for give up their row.
LEMMA RebindSafe ==
    ASSUME IInv, TypeOK', NEW paths \in SUBSET Path, NEW names \in [Path -> Body],
           \A p \in Path : names[p] \in Upload => \E q \in Path : entry[q] = names[p],
           Rebind(paths, names)
    PROVE  Safe'
<1> DEFINE released == Released({entry[p] : p \in paths}, names)
<1>1. /\ object' = RowsWithout(released) /\ gc' = QueueWith(released)
      /\ entry' = names
      /\ UNCHANGED <<now, session, r2, call, drain, granted>>
  BY DEF Rebind, store, calls
<1>2. \A u \in released : /\ u \in Upload /\ object[u] # NoRow
                          /\ \A p \in Path : names[p] # u
  BY DEF Released
<1> HIDE DEF released
<1>3. \A u \in Upload : IF u \in released
          THEN object'[u] = NoRow /\ gc'[u] = QueueGarbage(gc, u, Later(now, object[u]))[u]
          ELSE object'[u] = object[u] /\ gc'[u] = gc[u]
  BY <1>1 DEF RowsWithout, QueueWith
<1>4. NamesHaveRows'
  BY <1>1, <1>2, <1>3 DEF IInv, NamesHaveRows
<1>5. RowsAreLive'
  BY <1>1, <1>3 DEF IInv, RowsAreLive
<1>6. QueueIsDead'
  <2>1. ASSUME NEW u \in released
        PROVE  /\ session[u].state \in {"garbage", "committed", "forgotten"}
               /\ granted[u] <= gc'[u].notBefore
    <3>1. /\ object[u] \in Nat /\ now \in Nat /\ granted[u] \in Nat /\ gc \in Queues
          /\ u \in Upload
      BY <1>2, <2>1 DEF IInv, TypeOK, Queues
    <3>2. Later(now, object[u]) \in Nat /\ object[u] <= Later(now, object[u])
      BY <3>1, LaterIsMax
    <3>3. /\ gc'[u].notBefore \in Nat
          /\ Later(now, object[u]) <= gc'[u].notBefore
      BY <1>3, <2>1, <3>1, <3>2, QueueGarbageRow DEF GcRow
    <3>4. granted[u] <= object[u] /\ session[u].state \in {"committed", "forgotten"}
      BY <1>2, <2>1, <3>1 DEF IInv, RowsAreLive
    <3>5. QED
      BY <3>1, <3>2, <3>3, <3>4
  <2>2. QED
    BY <1>1, <1>2, <1>3, <2>1 DEF IInv, QueueIsDead
<1>7. DrainsTakeDead'
  <2>1. \A u \in Upload : object[u] = NoRow => object'[u] = NoRow
    BY <1>3
  <2>2. \A d \in Drain : drain[d].keys \subseteq Upload
    BY DEF IInv, TypeOK, DrainCall
  <2>3. QED
    BY <1>1, <2>1, <2>2 DEF IInv, DrainsTakeDead
<1>8. LeasesArePublished' /\ LeasedBodyRetained'
  BY <1>1 DEF IInv, LeasesArePublished, LeasedBodyRetained
<1>9. VerifiedIsStored'
  BY <1>1 DEF IInv, VerifiedIsStored, Holds
<1>10. TokensLagBehind'
  <2>1. \A p \in Path : /\ version[p] \in Nat /\ version'[p] \in Nat
                        /\ version[p] <= version'[p]
                        /\ p \in paths => version[p] < version'[p]
    BY DEF IInv, TypeOK, Rebind, PublishTokens
  <2>2. touched' = touched \cup {u \in Upload : /\ session[u].state \in {"open", "verifying"}
                                                /\ session[u].path \in paths}
    BY DEF Rebind, NoteTouched
  <2>3. \A u \in Upload : session[u].token \in Nat
    BY DEF IInv, TypeOK, Session
  <2>4. QED
    BY <1>1, <2>1, <2>2, <2>3 DEF IInv, TokensLagBehind
<1>11. QED
  BY <1>4, <1>5, <1>6, <1>7, <1>8, <1>9, <1>10 DEF Safe

\* Every namespace operation is such a transaction, and a read lease is only
\* handed out on a body with a row.
LEMMA NamespaceSafe == IInv /\ TypeOK' /\ Namespace => Safe'
<1> SUFFICES ASSUME IInv, TypeOK', Namespace PROVE Safe'
  OBVIOUS
<1>1. entry \in [Path -> Body] /\ None \notin Upload /\ Inline \notin Upload
  BY SetsAssumption DEF IInv, TypeOK
<1>2. ASSUME NEW p \in Path, WriteFile(p) PROVE Safe'
  <2> DEFINE names == [entry EXCEPT ![p] = Inline]
  <2>1. names \in [Path -> Body] /\ {p} \in SUBSET Path
    BY <1>1 DEF Body
  <2>2. \A r \in Path : names[r] \in Upload => \E q \in Path : entry[q] = names[r]
    BY <1>1
  <2>3. Rebind({p}, names)
    BY <1>2 DEF WriteFile
  <2> HIDE DEF names
  <2>4. QED
    BY <2>1, <2>2, <2>3, RebindSafe
<1>3. ASSUME NEW p \in Path, Remove(p) PROVE Safe'
  <2> DEFINE names == [entry EXCEPT ![p] = None]
  <2>1. names \in [Path -> Body] /\ {p} \in SUBSET Path
    BY <1>1 DEF Body
  <2>2. \A r \in Path : names[r] \in Upload => \E q \in Path : entry[q] = names[r]
    BY <1>1
  <2>3. Rebind({p}, names)
    BY <1>3 DEF Remove
  <2> HIDE DEF names
  <2>4. QED
    BY <2>1, <2>2, <2>3, RebindSafe
<1>4. ASSUME NEW tree \in Subtrees, RemoveSubtree(tree) PROVE Safe'
  <2> DEFINE names == [p \in Path |-> IF p \in tree THEN None ELSE entry[p]]
             present == {p \in tree : entry[p] # None}
  <2>1. names \in [Path -> Body] /\ present \in SUBSET Path
    BY <1>1, SetsAssumption DEF Body
  <2>2. \A r \in Path : names[r] \in Upload => \E q \in Path : entry[q] = names[r]
    BY <1>1
  <2>3. Rebind(present, names)
    BY <1>4 DEF RemoveSubtree
  <2> HIDE DEF names, present
  <2>4. QED
    BY <2>1, <2>2, <2>3, RebindSafe
<1>5. ASSUME NEW p \in Path, NEW q \in Path, Move(p, q) PROVE Safe'
  <2> DEFINE names == [entry EXCEPT ![p] = None, ![q] = entry[p]]
  <2>1. names \in [Path -> Body] /\ {p, q} \in SUBSET Path
    BY <1>1 DEF Body
  <2>2. \A r \in Path : names[r] \in Upload => \E s \in Path : entry[s] = names[r]
    BY <1>1
  <2>3. Rebind({p, q}, names)
    BY <1>5 DEF Move
  <2> HIDE DEF names
  <2>4. QED
    BY <2>1, <2>2, <2>3, RebindSafe
<1>6. ASSUME NEW p \in Path, NEW q \in Path, Copy(p, q) PROVE Safe'
  <2> DEFINE names == [entry EXCEPT ![q] = entry[p]]
  <2>1. names \in [Path -> Body] /\ {q} \in SUBSET Path
    BY <1>1 DEF Body
  <2>2. \A r \in Path : names[r] \in Upload => \E s \in Path : entry[s] = names[r]
    BY <1>1
  <2>3. Rebind({q}, names)
    BY <1>6 DEF Copy
  <2> HIDE DEF names
  <2>4. QED
    BY <2>1, <2>2, <2>3, RebindSafe
<1>7. ASSUME NEW p \in Path, ResolveOpaqueRead(p) PROVE Safe'
  <2> DEFINE u == entry[p]
  <2>1. /\ u \in Upload /\ object[u] # NoRow
        /\ object' = [object EXCEPT ![u] = Later(object[u], now + ReadLease)]
        /\ granted' = [granted EXCEPT ![u] = Later(granted[u], now + ReadLease)]
        /\ UNCHANGED <<now, entry, version, session, gc, r2, call, drain, touched>>
    BY <1>7 DEF ResolveOpaqueRead, store, calls
  <2> HIDE DEF u
  <2>2. /\ gc[u] = NoRow /\ u \in r2 /\ session[u].state \in {"committed", "forgotten"}
        /\ granted[u] <= object[u]
    BY <2>1 DEF IInv, RowsAreLive
  <2>3. /\ object[u] \in Nat /\ granted[u] \in Nat /\ now + ReadLease \in Nat
        /\ \A v \in Upload : object[v] # NoRow => object[v] \in Nat
    BY <2>1, TimesAreNat DEF IInv, TypeOK
  <2>4. /\ object'[u] \in Nat /\ granted'[u] <= object'[u]
        /\ \A v \in Upload \ {u} : object'[v] = object[v] /\ granted'[v] = granted[v]
    BY <2>1, <2>2, <2>3 DEF IInv, TypeOK, Later
  <2>5. object'[u] # NoRow
    BY <2>4, SetsAssumption
  <2>6. NamesHaveRows'
    BY <2>1, <2>4, <2>5 DEF IInv, NamesHaveRows
  <2>7. RowsAreLive'
    BY <2>1, <2>2, <2>4 DEF IInv, RowsAreLive
  <2>8. QueueIsDead' /\ LeasesArePublished' /\ LeasedBodyRetained'
    BY <2>1, <2>2, <2>4 DEF IInv, QueueIsDead, LeasesArePublished, LeasedBodyRetained
  <2>9. DrainsTakeDead'
    <3>1. \A d \in Drain : drain[d].keys \subseteq Upload
      BY DEF IInv, TypeOK, DrainCall
    <3>2. QED
      BY <2>1, <2>4, <3>1 DEF IInv, DrainsTakeDead
  <2>10. VerifiedIsStored' /\ TokensLagBehind'
    BY <2>1 DEF IInv, VerifiedIsStored, Holds, TokensLagBehind
  <2>11. QED
    BY <2>6, <2>7, <2>8, <2>9, <2>10 DEF Safe
<1>8. QED
  BY <1>2, <1>3, <1>4, <1>5, <1>6, <1>7 DEF Namespace

\* A pending reservation that becomes garbage takes nothing away: it has no
\* row, no lease and no name.
LEMMA BurySafe ==
    ASSUME IInv, TypeOK', NEW u \in Upload,
           session[u].state \in {"open", "verifying"},
           session'[u].state = "garbage",
           \A v \in Upload \ {u} : session'[v] = session[v],
           QueueUploadGarbage(u),
           \A c \in Caller : call'[c] = call[c] \/ call'[c] = IdleCall,
           UNCHANGED <<now, entry, version, object, r2, drain, touched, granted>>
    PROVE  Safe'
<1>1. gc[u] = NoRow /\ object[u] = NoRow /\ granted[u] = 0
  BY DEF IInv, QueueIsDead, RowsAreLive, LeasesArePublished
<1>2. \A v \in Upload \ {u} : gc'[v] = gc[v]
  BY DEF QueueUploadGarbage, QueueGarbage, IInv, TypeOK
<1>3. gc'[u] # NoRow => gc'[u].notBefore \in Nat
  BY DEF TypeOK, GcRow
<1>4. NamesHaveRows' /\ RowsAreLive'
  BY <1>1, <1>2 DEF IInv, NamesHaveRows, RowsAreLive
<1>5. QueueIsDead'
  BY <1>1, <1>2, <1>3 DEF IInv, QueueIsDead
<1>6. DrainsTakeDead'
  <2>1. \A d \in Drain : drain[d].keys \subseteq Upload
    BY DEF IInv, TypeOK, DrainCall
  <2>2. QED
    BY <2>1 DEF IInv, DrainsTakeDead
<1>7. LeasesArePublished' /\ LeasedBodyRetained'
  BY <1>1 DEF IInv, LeasesArePublished, LeasedBodyRetained
<1>8. VerifiedIsStored'
  <2> SUFFICES ASSUME NEW c \in Caller,
                      call'[c].pc = "reply", call'[c].head = "ok", Holds(c, call[c].upload)',
                      call'[c].upload = call[c].upload
               PROVE  call[c].upload \in r2
    BY DEF VerifiedIsStored, Holds, IdleCall
  <2>1. call'[c] = call[c]
    BY DEF IdleCall
  <2>2. call[c].upload \in Upload
    BY <2>1 DEF IInv, TypeOK, Call, IdleCall
  <2>3. call[c].upload # u
    BY DEF Holds
  <2>4. QED
    BY <2>1, <2>2, <2>3 DEF IInv, VerifiedIsStored, Holds
<1>9. TokensLagBehind'
  BY DEF IInv, TokensLagBehind
<1>10. QED
  BY <1>4, <1>5, <1>6, <1>7, <1>8, <1>9 DEF Safe

\* The sessions alone change: states move within the pending ones, or from
\* committed to forgotten, and no verification lease passes to another call.
LEMMA SessionSafe ==
    ASSUME IInv, TypeOK', NEW u \in Upload,
           \A v \in Upload \ {u} : session'[v] = session[v],
           \/ /\ session[u].state \in {"none", "open", "verifying"}
              /\ session'[u].state \in {"open", "verifying"}
              /\ session'[u].path \in Path
              /\ session'[u].token <= version[session'[u].path]
              /\ u \in touched => /\ session[u].state # "none"
                                  /\ session'[u].token = session[u].token
                                  /\ session'[u].path = session[u].path
           \/ session[u].state = "committed" /\ session'[u].state = "forgotten",
           \A c \in Caller : call'[c].pc = "reply" /\ Holds(c, call[c].upload)'
               => call'[c] = call[c] /\ Holds(c, call[c].upload),
           UNCHANGED <<now, entry, version, object, gc, r2, drain, touched, granted>>
    PROVE  Safe'
<1>1. NamesHaveRows' /\ RowsAreLive'
  BY DEF IInv, NamesHaveRows, RowsAreLive
<1>2. QueueIsDead'
  BY DEF IInv, QueueIsDead
<1>3. DrainsTakeDead'
  <2>1. \A d \in Drain : drain[d].keys \subseteq Upload
    BY DEF IInv, TypeOK, DrainCall
  <2>2. QED
    BY <2>1 DEF IInv, DrainsTakeDead
<1>4. LeasesArePublished' /\ LeasedBodyRetained'
  BY DEF IInv, LeasesArePublished, LeasedBodyRetained
<1>5. VerifiedIsStored'
  BY DEF IInv, VerifiedIsStored
<1>6. TokensLagBehind'
  BY DEF IInv, TokensLagBehind
<1>7. QED
  BY <1>1, <1>2, <1>3, <1>4, <1>5, <1>6 DEF Safe

\* The steps of a reservation before its commit are safe.
LEMMA UploadsSafe == IInv /\ TypeOK' /\ Uploads => Safe'
<1> SUFFICES ASSUME IInv, TypeOK', Uploads PROVE Safe'
  OBVIOUS
<1>1. session \in [Upload -> Session] /\ call \in [Caller -> Call]
  BY DEF IInv, TypeOK
<1>2. \A c \in Caller : call[c].pc = "reply" => call[c].upload \in Upload
  BY <1>1 DEF Call, IdleCall
<1>3. ASSUME NEW u \in Upload, NEW p \in Path, BeginOpaqueUpload(u, p) PROVE Safe'
  <2>1. /\ session[u].state = "none"
        /\ session'[u].state = "open" /\ session'[u].path = p
        /\ session'[u].token = version[p]
        /\ \A v \in Upload \ {u} : session'[v] = session[v]
        /\ UNCHANGED <<now, entry, version, object, gc, r2, call, drain, touched, granted>>
    BY <1>1, <1>3 DEF BeginOpaqueUpload, NoSession, store, calls
  <2>2. u \notin touched /\ version[p] \in Nat
    BY <2>1 DEF IInv, TokensLagBehind, TypeOK
  <2>3. \A c \in Caller : call'[c].pc = "reply" /\ Holds(c, call[c].upload)'
               => call'[c] = call[c] /\ Holds(c, call[c].upload)
    BY <1>2, <2>1 DEF Holds
  <2>4. QED
    BY <2>1, <2>2, <2>3, SessionSafe
<1>4. ASSUME NEW u \in Upload, AbortOpaqueUpload(u) PROVE Safe'
  BY <1>1, <1>4, BurySafe DEF AbortOpaqueUpload, Garbage, store, calls, history
<1>5. ASSUME NEW u \in Upload, CommitExpired(u) PROVE Safe'
  BY <1>1, <1>5, BurySafe DEF CommitExpired, store, calls, history
<1>6. ASSUME NEW u \in Upload, CommitReceiptExpired(u) PROVE Safe'
  <2>1. /\ session[u].state = "committed" /\ session'[u].state = "forgotten"
        /\ \A v \in Upload \ {u} : session'[v] = session[v]
        /\ UNCHANGED <<now, entry, version, object, gc, r2, call, drain, touched, granted>>
    BY <1>1, <1>6 DEF CommitReceiptExpired, DeletedSession, NoSession, store, calls, history
  <2>2. \A c \in Caller : call'[c].pc = "reply" /\ Holds(c, call[c].upload)'
               => call'[c] = call[c] /\ Holds(c, call[c].upload)
    BY <1>2, <2>1 DEF Holds
  <2>3. QED
    BY <2>1, <2>2, SessionSafe
<1>7. ASSUME NEW c \in Caller, NEW u \in Upload, ClaimVerification(c, u) PROVE Safe'
  <2>1. /\ session[u].state \in {"open", "verifying"}
        /\ session'[u].state = "verifying" /\ session'[u].verifier = c
        /\ session'[u].path = session[u].path /\ session'[u].token = session[u].token
        /\ \A v \in Upload \ {u} : session'[v] = session[v]
        /\ call'[c].pc = "arming"
        /\ \A e \in Caller \ {c} : call'[e] = call[e]
        /\ UNCHANGED <<now, entry, version, object, gc, r2, drain, touched, granted>>
    BY <1>1, <1>7 DEF ClaimVerification, store, history
  <2>2. session[u].path \in Path /\ session[u].token <= version[session[u].path]
    BY <2>1 DEF IInv, TokensLagBehind
  <2>3. \A e \in Caller : call'[e].pc = "reply" /\ Holds(e, call[e].upload)'
               => call'[e] = call[e] /\ Holds(e, call[e].upload)
    BY <1>2, <2>1 DEF Holds
  <2>4. QED
    BY <2>1, <2>2, <2>3, SessionSafe
<1>8. QED
  BY <1>3, <1>4, <1>5, <1>6, <1>7 DEF Uploads

\* Only calls change, and drains that let go of keys.
LEMMA MemorySafe ==
    ASSUME IInv, VerifiedIsStored', \A d \in Drain : drain'[d].keys \subseteq drain[d].keys,
           UNCHANGED <<now, entry, version, session, object, gc, r2, touched, granted>>
    PROVE  Safe'
<1>1. NamesHaveRows' /\ RowsAreLive' /\ QueueIsDead' /\ DrainsTakeDead'
  BY DEF IInv, NamesHaveRows, RowsAreLive, QueueIsDead, DrainsTakeDead
<1>2. LeasesArePublished' /\ LeasedBodyRetained' /\ TokensLagBehind'
  BY DEF IInv, LeasesArePublished, LeasedBodyRetained, TokensLagBehind
<1>3. QED
  BY <1>1, <1>2 DEF Safe

\* Rearm leaves a drain no keys.
LEMMA RearmKeys ==
    ASSUME TypeOK, NEW d \in Drain, NEW queue, Rearm(d, drain[d], queue)
    PROVE  /\ drain'[d].keys = {}
           /\ \A e \in Drain : drain'[e].keys \subseteq drain[e].keys
<1>1. drain \in [Drain -> DrainCall] /\ drain[d] \in DrainCall
  BY DEF TypeOK
<1>2. IdleDrain.keys = {} /\ [drain[d] EXCEPT !.pc = "arming", !.keys = {}].keys = {}
  BY <1>1 DEF IdleDrain, DrainCall
<1>3. \/ drain' = [drain EXCEPT ![d] = IdleDrain]
      \/ drain' = [drain EXCEPT ![d] = [drain[d] EXCEPT !.pc = "arming", !.keys = {}]]
  BY DEF Rearm
<1>4. drain'[d].keys = {} /\ \A e \in Drain \ {d} : drain'[e] = drain[e]
  BY <1>1, <1>2, <1>3
<1>5. QED
  BY <1>4

\* A commit publishes a body that is stored, over a path that did not change.
LEMMA PublishSafe ==
    ASSUME IInv, TypeOK', NEW c \in Caller, CommitPublishes(c)
    PROVE  Safe'
<1> DEFINE u == call[c].upload
           p == session[u].path
           released == Released({entry[p]}, entry')
<1>1. /\ call[c].pc = "reply" /\ call[c].head = "ok" /\ Holds(c, u)
      /\ entry' = [entry EXCEPT ![p] = u]
      /\ object' = [v \in Upload |-> IF v = u THEN 0 ELSE IF v \in released THEN NoRow
                                     ELSE object[v]]
      /\ gc' = [v \in Upload |-> IF v \in released
                      THEN QueueGarbage(gc, v, Later(now, object[v]))[v] ELSE gc[v]]
      /\ call' = [call EXCEPT ![c] = IdleCall]
      /\ UNCHANGED <<now, r2, drain, granted>>
  BY DEF CommitPublishes, Finish, store, RowsWithout, QueueWith
<1>2. u \in Upload
  BY <1>1 DEF IInv, TypeOK, Call, IdleCall
<1>3. /\ session[u].state = "verifying" /\ session'[u].state = "committed"
      /\ \A v \in Upload \ {u} : session'[v] = session[v]
  <2>1. session' = [session EXCEPT ![u].state = "committed", ![u].verifier = None,
                                   ![u].lease = 0, ![u].expires = now + Retention]
    BY DEF CommitPublishes
  <2>2. session \in [Upload -> Session] /\ session[u] \in Session
    BY <1>2 DEF IInv, TypeOK
  <2>3. session[u].state = "verifying"
    BY <1>1 DEF Holds
  <2> HIDE DEF u
  <2>4. QED
    BY <1>2, <2>1, <2>2, <2>3 DEF Session
<1>4. /\ p \in Path /\ u \in r2
      /\ object[u] = NoRow /\ gc[u] = NoRow /\ granted[u] = 0
      /\ \A d \in Drain : u \notin drain[d].keys
  <2>1. p \in Path
    BY <1>2, <1>3 DEF IInv, TokensLagBehind
  <2>2. u \in r2
    BY <1>1 DEF IInv, VerifiedIsStored
  <2>3. object[u] = NoRow /\ gc[u] = NoRow /\ granted[u] = 0
    BY <1>2, <1>3 DEF IInv, RowsAreLive, QueueIsDead, LeasesArePublished
  <2>4. \A d \in Drain : u \notin drain[d].keys
    BY <1>3 DEF IInv, DrainsTakeDead
  <2>5. QED
    BY <2>1, <2>2, <2>3, <2>4
<1>5. \A v \in released : /\ v \in Upload /\ object[v] # NoRow
                          /\ \A q \in Path : entry'[q] # v
  BY DEF Released
<1>6. u \notin released
  BY <1>4, <1>5
<1>7. version' = [q \in Path |-> version[q] + IF q \in {p} THEN 1 ELSE 0]
  BY DEF CommitPublishes, PublishTokens
<1>8. touched' = touched \cup {v \in Upload : /\ session[v].state \in {"open", "verifying"}
                                              /\ session[v].path \in {p}}
  BY DEF CommitPublishes, NoteTouched
<1> HIDE DEF u, p, released
<1>9. NamesHaveRows'
  <2>1. 0 # NoRow
    BY SetsAssumption
  <2>2. QED
    BY <1>1, <1>2, <1>5, <2>1 DEF IInv, NamesHaveRows, TypeOK
<1>10. RowsAreLive'
  BY <1>1, <1>2, <1>3, <1>4, <1>6 DEF IInv, RowsAreLive
<1>11. QueueIsDead'
  <2>1. ASSUME NEW v \in released
        PROVE  /\ session[v].state \in {"garbage", "committed", "forgotten"}
               /\ granted[v] <= gc'[v].notBefore
    <3>1. /\ object[v] \in Nat /\ now \in Nat /\ granted[v] \in Nat /\ gc \in Queues
          /\ v \in Upload
      BY <1>5, <2>1 DEF IInv, TypeOK, Queues
    <3>2. Later(now, object[v]) \in Nat /\ object[v] <= Later(now, object[v])
      BY <3>1, LaterIsMax
    <3>3. gc'[v].notBefore \in Nat /\ Later(now, object[v]) <= gc'[v].notBefore
      BY <1>1, <2>1, <3>1, <3>2, QueueGarbageRow DEF GcRow
    <3>4. granted[v] <= object[v] /\ session[v].state \in {"committed", "forgotten"}
      BY <1>5, <2>1, <3>1 DEF IInv, RowsAreLive
    <3>5. QED
      BY <3>1, <3>2, <3>3, <3>4
  <2>2. QED
    BY <1>1, <1>3, <1>4, <1>5, <1>6, <2>1 DEF IInv, QueueIsDead
<1>12. DrainsTakeDead'
  <2>1. \A d \in Drain : drain[d].keys \subseteq Upload
    BY DEF IInv, TypeOK, DrainCall
  <2>2. QED
    BY <1>1, <1>3, <1>4, <2>1 DEF IInv, DrainsTakeDead
<1>13. LeasesArePublished' /\ LeasedBodyRetained'
  BY <1>1, <1>3 DEF IInv, LeasesArePublished, LeasedBodyRetained
<1>14. VerifiedIsStored'
  <2> SUFFICES ASSUME NEW e \in Caller, call'[e].pc = "reply", call'[e].head = "ok",
                      Holds(e, call[e].upload)'
               PROVE  call'[e].upload \in r2
    BY <1>1 DEF VerifiedIsStored
  <2>1. call'[e] = call[e]
    BY <1>1 DEF IInv, TypeOK, IdleCall
  <2>2. call[e].upload \in Upload
    BY <2>1 DEF IInv, TypeOK, Call, IdleCall
  <2>3. call[e].upload # u
    BY <1>3, <2>1 DEF Holds
  <2>4. QED
    BY <1>3, <2>1, <2>2, <2>3 DEF IInv, VerifiedIsStored, Holds
<1>15. TokensLagBehind'
  <2>1. \A q \in Path : version[q] \in Nat
    BY DEF IInv, TypeOK
  <2>2. \A v \in Upload : session[v].token \in Nat
    BY DEF IInv, TypeOK, Session
  <2>3. QED
    BY <1>2, <1>3, <1>4, <1>7, <1>8, <2>1, <2>2 DEF IInv, TokensLagBehind
<1>16. QED
  BY <1>9, <1>10, <1>11, <1>12, <1>13, <1>14, <1>15 DEF Safe

\* The replies to a commit are safe.
LEMMA CommitsSafe == IInv /\ TypeOK' /\ Commits => Safe'
<1> SUFFICES ASSUME IInv, TypeOK', NEW c \in Caller,
                    \/ HeadObject(c) \/ CommitFails(c) \/ RejectMetadata(c)
                    \/ RejectLeaseLost(c) \/ CommitStale(c) \/ CommitPublishes(c)
             PROVE  Safe'
  BY DEF Commits
<1> DEFINE u == call[c].upload
<1>1. session \in [Upload -> Session] /\ call \in [Caller -> Call]
  BY DEF IInv, TypeOK
<1>2. \A e \in Caller : call[e].pc # "idle" => call[e].upload \in Upload
  BY <1>1 DEF Call, IdleCall
<1>3. Finish(c) => /\ call'[c] = IdleCall
                   /\ \A e \in Caller \ {c} : call'[e] = call[e]
  BY <1>1 DEF Finish
<1>4. CASE HeadObject(c)
  <2>1. /\ call'[c].upload = u
        /\ call'[c].head = "ok" => u \in r2
        /\ \A e \in Caller \ {c} : call'[e] = call[e]
        /\ UNCHANGED <<now, entry, version, session, object, gc, r2, drain, touched, granted>>
    <3>1. PICK answer \in (IF u \in r2 THEN {"ok", "mismatch"} ELSE {"missing"}) \cup {"error"} :
              call' = [call EXCEPT ![c].pc = "reply", ![c].head = answer]
      BY <1>4 DEF HeadObject
    <3>2. call[c] \in Call /\ call[c].pc = "head"
      BY <1>1, <1>4 DEF HeadObject
    <3>3. call[c] \in [pc : {"arming", "head", "reply"}, upload : Upload, head : HeadAnswer]
      BY <3>2 DEF Call, IdleCall
    <3>4. call'[c].upload = u /\ call'[c].head = answer
      BY <1>1, <3>1, <3>3
    <3>5. answer = "ok" => u \in r2
      OBVIOUS
    <3>6. /\ \A e \in Caller \ {c} : call'[e] = call[e]
          /\ UNCHANGED <<now, entry, version, session, object, gc, r2, drain, touched, granted>>
      BY <1>1, <1>4 DEF HeadObject, rows, store, history
    <3>7. QED
      BY <3>4, <3>5, <3>6
  <2>2. VerifiedIsStored'
    BY <2>1 DEF IInv, VerifiedIsStored, Holds
  <2>3. QED
    BY <2>1, <2>2, MemorySafe
<1>5. CASE CommitFails(c)
  <2>1. /\ Finish(c) /\ u \in Upload /\ ResetVerification(c, u)
        /\ UNCHANGED <<now, entry, version, object, gc, r2, drain, touched, granted>>
    BY <1>2, <1>5 DEF CommitFails, store, history
  <2>2. CASE Holds(c, u)
    <3>1. /\ session[u].state = "verifying" /\ session'[u].state = "open"
          /\ session'[u].path = session[u].path /\ session'[u].token = session[u].token
          /\ \A v \in Upload \ {u} : session'[v] = session[v]
      BY <1>1, <2>1, <2>2 DEF ResetVerification, Holds
    <3>2. session[u].path \in Path /\ session[u].token <= version[session[u].path]
      BY <2>1, <3>1 DEF IInv, TokensLagBehind
    <3>3. \A e \in Caller : call'[e].pc = "reply" /\ Holds(e, call[e].upload)'
               => call'[e] = call[e] /\ Holds(e, call[e].upload)
      BY <1>2, <1>3, <2>1, <3>1 DEF Holds, IdleCall
    <3>4. QED
      BY <2>1, <3>1, <3>2, <3>3, SessionSafe
  <2>3. CASE ~Holds(c, u)
    <3>1. session' = session
      BY <2>1, <2>3 DEF ResetVerification
    <3>2. VerifiedIsStored'
      BY <1>3, <2>1, <3>1 DEF IInv, VerifiedIsStored, Holds, IdleCall
    <3>3. QED
      BY <2>1, <3>1, <3>2, MemorySafe
  <2>4. QED
    BY <2>2, <2>3
<1>6. CASE RejectMetadata(c)
  BY <1>1, <1>2, <1>3, <1>6, BurySafe DEF RejectMetadata, Holds, Garbage, store, history
<1>7. CASE RejectLeaseLost(c)
  <2>1. /\ Finish(c)
        /\ UNCHANGED <<now, entry, version, session, object, gc, r2, drain, touched, granted>>
    BY <1>7 DEF RejectLeaseLost, rows, store, history
  <2>2. VerifiedIsStored'
    BY <1>3, <2>1 DEF IInv, VerifiedIsStored, Holds, IdleCall
  <2>3. QED
    BY <2>1, <2>2, MemorySafe
<1>8. CASE CommitStale(c)
  BY <1>1, <1>2, <1>3, <1>8, BurySafe DEF CommitStale, Holds, Garbage, store, history
<1>9. CASE CommitPublishes(c)
  BY <1>9, PublishSafe
<1>10. QED
  BY <1>4, <1>5, <1>6, <1>7, <1>8, <1>9

\* The first transaction of a drain takes expired reservations and due keys;
\* neither can have a name or a running lease.
LEMMA DrainGarbageSafe ==
    ASSUME IInv, TypeOK', NEW d \in Drain, DrainGarbage(d)
    PROVE  Safe'
<1> DEFINE Queue(expired) ==
              [u \in Upload |-> IF u \in expired
                  THEN QueueGarbage(gc, u, Later(now, session[u].expires + Grace))[u]
                  ELSE gc[u]]
<1>1. PICK expired \in Batches(ExpiredSessions), keys \in SUBSET DueKeys(gc') :
          /\ gc' = Queue(expired)
          /\ session' = [u \in Upload |-> IF u \in expired
               THEN [session[u] EXCEPT !.state = "garbage", !.verifier = None, !.lease = 0]
               ELSE IF session[u].state = "committed" /\ session[u].expires <= now
               THEN DeletedSession("forgotten") ELSE session[u]]
          /\ IF keys = {} THEN Rearm(d, drain[d], gc')
             ELSE drain' = [drain EXCEPT ![d] = [drain[d] EXCEPT
                                !.pc = "deleting", !.keys = keys, !.start = now]]
  BY DEF DrainGarbage, Batches
<1>2. UNCHANGED <<now, entry, version, object, r2, call, touched, granted>>
  BY DEF DrainGarbage, store, history
<1>3. /\ expired \subseteq Upload
      /\ \A u \in expired : session[u].state \in {"open", "verifying"}
  BY DEF Batches, ExpiredSessions
<1>4. /\ \A u \in expired : session'[u].state = "garbage"
      /\ \A u \in Upload \ expired :
            \/ session'[u] = session[u]
            \/ session[u].state = "committed" /\ session'[u].state = "forgotten"
  <2>1. session' = [u \in Upload |-> IF u \in expired
               THEN [session[u] EXCEPT !.state = "garbage", !.verifier = None, !.lease = 0]
               ELSE IF session[u].state = "committed" /\ session[u].expires <= now
               THEN DeletedSession("forgotten") ELSE session[u]]
    BY <1>1
  <2>2. \A u \in Upload : session[u] \in Session
    BY DEF IInv, TypeOK
  <2>3. \A u \in expired : session'[u].state = "garbage"
    BY <1>3, <2>1, <2>2 DEF Session
  <2>4. DeletedSession("forgotten").state = "forgotten"
    BY DEF DeletedSession, NoSession
  <2>5. QED
    BY <1>3, <2>1, <2>3, <2>4
<1>5. \A u \in expired : gc[u] = NoRow /\ object[u] = NoRow /\ granted[u] = 0
  BY <1>3 DEF IInv, QueueIsDead, RowsAreLive, LeasesArePublished
<1>6. \A u \in Upload \ expired : gc'[u] = gc[u]
  BY <1>1
<1> HIDE DEF Queue
<1>7. NamesHaveRows' /\ RowsAreLive'
  BY <1>2, <1>4, <1>5, <1>6 DEF IInv, NamesHaveRows, RowsAreLive
<1>8. QueueIsDead'
  <2>1. \A u \in Upload : gc'[u] # NoRow => gc'[u].notBefore \in Nat
    BY DEF TypeOK, GcRow
  <2>2. QED
    BY <1>2, <1>3, <1>4, <1>5, <1>6, <2>1 DEF IInv, QueueIsDead
<1>9. DrainsTakeDead'
  <2>1. \A u \in keys : gc'[u] # NoRow /\ gc'[u].notBefore <= now /\ u \in Upload
    BY <1>2 DEF DueKeys
  <2>2. \A u \in keys : /\ object'[u] = NoRow
                        /\ session'[u].state \in {"garbage", "committed", "forgotten"}
                        /\ granted'[u] <= now'
    <3>1. \A u \in keys : gc'[u].notBefore \in Nat /\ granted'[u] \in Nat /\ now \in Nat
      BY <2>1 DEF TypeOK, GcRow, IInv
    <3>2. QED
      BY <1>2, <1>7, <1>8, <2>1, <3>1 DEF RowsAreLive, QueueIsDead
  <2>3. \A e \in Drain : drain[e].keys \subseteq Upload /\ (e # d => drain'[e] = drain[e])
    BY <1>1 DEF IInv, TypeOK, DrainCall, Rearm
  <2>4. drain'[d].keys \subseteq keys
    <3>1. drain \in [Drain -> DrainCall] /\ drain[d] \in DrainCall
      BY DEF IInv, TypeOK
    <3>2. CASE keys = {}
      BY <1>1, <3>2, RearmKeys DEF IInv
    <3>3. CASE keys # {}
      <4>1. drain' = [drain EXCEPT ![d] = [drain[d] EXCEPT
                                !.pc = "deleting", !.keys = keys, !.start = now]]
        BY <1>1, <3>3
      <4>2. QED
        BY <3>1, <4>1 DEF DrainCall
    <3>4. QED
      BY <3>2, <3>3
  <2>5. ASSUME NEW e \in Drain, e # d, NEW u \in drain[e].keys
        PROVE  /\ object'[u] = NoRow
               /\ session'[u].state \in {"garbage", "collected", "committed", "forgotten"}
               /\ granted'[u] <= now'
    BY <1>2, <1>3, <1>4, <2>3, <2>5 DEF IInv, DrainsTakeDead
  <2>6. QED
    BY <2>2, <2>3, <2>4, <2>5 DEF DrainsTakeDead
<1>10. LeasesArePublished' /\ LeasedBodyRetained'
  BY <1>2, <1>3, <1>4, <1>5 DEF IInv, LeasesArePublished, LeasedBodyRetained
<1>11. VerifiedIsStored'
  <2>1. \A c \in Caller : call[c].pc = "reply" => call[c].upload \in Upload
    BY DEF IInv, TypeOK, Call, IdleCall
  <2>2. QED
    BY <1>2, <1>4, <2>1 DEF IInv, VerifiedIsStored, Holds
<1>12. TokensLagBehind'
  BY <1>2, <1>4 DEF IInv, TokensLagBehind
<1>13. QED
  BY <1>7, <1>8, <1>9, <1>10, <1>11, <1>12 DEF Safe

\* Deleting a batch, whole or in part, touches neither leased nor verified
\* bodies, nor bodies with a row.
LEMMA DeleteSafe ==
    ASSUME IInv, NEW d \in Drain, NEW some \in SUBSET drain[d].keys,
           r2' = r2 \ some, NEW pc, drain' = [drain EXCEPT ![d].pc = pc],
           UNCHANGED <<now, entry, version, session, object, gc, call, touched, granted>>
    PROVE  Safe'
<1>1. \A u \in some : /\ object[u] = NoRow
                      /\ session[u].state \in {"garbage", "collected", "committed", "forgotten"}
                      /\ granted[u] <= now
  BY DEF IInv, DrainsTakeDead
<1>2. NamesHaveRows' /\ RowsAreLive' /\ QueueIsDead'
  BY <1>1 DEF IInv, NamesHaveRows, RowsAreLive, QueueIsDead
<1>3. DrainsTakeDead'
  <2>1. \A e \in Drain : drain'[e].keys = drain[e].keys
    <3>1. drain \in [Drain -> DrainCall]
      BY DEF IInv, TypeOK
    <3>2. QED
      BY <3>1 DEF DrainCall
  <2>2. QED
    BY <2>1 DEF IInv, DrainsTakeDead
<1>4. LeasesArePublished' /\ LeasedBodyRetained'
  BY <1>1 DEF IInv, TypeOK, LeasesArePublished, LeasedBodyRetained
<1>5. VerifiedIsStored'
  BY <1>1 DEF IInv, VerifiedIsStored, Holds
<1>6. TokensLagBehind'
  BY DEF IInv, TokensLagBehind
<1>7. QED
  BY <1>2, <1>3, <1>4, <1>5, <1>6 DEF Safe

\* The end of a drain forgets the keys it settled.
LEMMA SettleSafe ==
    ASSUME IInv, TypeOK', NEW d \in Drain, SettleDrain(d)
    PROVE  Safe'
<1> DEFINE keys == drain[d].keys
<1>1. /\ session' = [u \in Upload |-> IF u \in keys /\ session[u].state = "garbage"
                                     THEN DeletedSession("collected") ELSE session[u]]
      /\ gc' = [u \in Upload |-> IF u \in keys THEN NoRow ELSE gc[u]]
      /\ Rearm(d, drain[d], gc')
      /\ UNCHANGED <<now, entry, version, object, r2, call, touched, granted>>
  BY DEF SettleDrain, store, history
<1> HIDE DEF keys
<1>2. \A u \in Upload : \/ session'[u] = session[u]
                        \/ session[u].state = "garbage" /\ session'[u].state = "collected"
                           /\ u \in keys
  BY <1>1 DEF DeletedSession, NoSession
<1>3. NamesHaveRows'
  BY <1>1 DEF IInv, NamesHaveRows
<1>4. RowsAreLive' /\ QueueIsDead'
  BY <1>1, <1>2 DEF IInv, RowsAreLive, QueueIsDead
<1>5. DrainsTakeDead'
  <2>1. \A e \in Drain : drain[e].keys \subseteq Upload
    BY DEF IInv, TypeOK, DrainCall
  <2>2. \A e \in Drain : drain'[e].keys \subseteq drain[e].keys
    BY <1>1, RearmKeys DEF IInv
  <2>3. QED
    BY <1>1, <1>2, <2>1, <2>2 DEF IInv, DrainsTakeDead
<1>6. LeasesArePublished' /\ LeasedBodyRetained'
  BY <1>1, <1>2 DEF IInv, LeasesArePublished, LeasedBodyRetained
<1>7. VerifiedIsStored'
  <2>1. \A c \in Caller : call[c].pc = "reply" => call[c].upload \in Upload
    BY DEF IInv, TypeOK, Call, IdleCall
  <2>2. QED
    BY <1>1, <1>2, <2>1 DEF IInv, VerifiedIsStored, Holds
<1>8. TokensLagBehind'
  BY <1>1, <1>2 DEF IInv, TokensLagBehind
<1>9. QED
  BY <1>3, <1>4, <1>5, <1>6, <1>7, <1>8 DEF Safe

\* A drain that backs off keeps its rows in the queue, for as long as before.
LEMMA BackOffSafe ==
    ASSUME IInv, TypeOK', NEW d \in Drain, BackOffDrain(d)
    PROVE  Safe'
<1>1. /\ gc' = [u \in Upload |-> IF u \in drain[d].keys /\ gc[u] # NoRow
                                 THEN Backoff(d, gc[u]) ELSE gc[u]]
      /\ Rearm(d, drain[d], gc')
      /\ UNCHANGED <<now, entry, version, session, object, r2, call, touched, granted>>
  BY DEF BackOffDrain, store, history
<1>2. \A u \in Upload : /\ gc[u] = NoRow => gc'[u] = NoRow
                        /\ gc[u] # NoRow => gc'[u].notBefore = gc[u].notBefore
  <2>1. ASSUME NEW u \in Upload, gc[u] # NoRow
        PROVE  Backoff(d, gc[u]).notBefore = gc[u].notBefore
    BY <2>1, BackoffRow DEF IInv, TypeOK
  <2>2. QED
    BY <1>1, <2>1
<1>3. NamesHaveRows' /\ RowsAreLive' /\ QueueIsDead'
  BY <1>1, <1>2 DEF IInv, NamesHaveRows, RowsAreLive, QueueIsDead
<1>4. DrainsTakeDead'
  <2>1. \A e \in Drain : drain'[e].keys \subseteq drain[e].keys
    BY <1>1, RearmKeys DEF IInv
  <2>2. QED
    BY <1>1, <2>1 DEF IInv, DrainsTakeDead
<1>5. LeasesArePublished' /\ LeasedBodyRetained'
  BY <1>1 DEF IInv, LeasesArePublished, LeasedBodyRetained
<1>6. VerifiedIsStored' /\ TokensLagBehind'
  BY <1>1 DEF IInv, VerifiedIsStored, Holds, TokensLagBehind
<1>7. QED
  BY <1>3, <1>4, <1>5, <1>6 DEF Safe

\* The steps of a drain are safe.
LEMMA DrainsSafe == IInv /\ TypeOK' /\ Drains => Safe'
<1> SUFFICES ASSUME IInv, TypeOK', NEW d \in Drain,
                    \/ FireAlarm(d) \/ DrainGarbage(d) \/ DeleteBodies(d)
                    \/ DeleteBodiesFails(d) \/ SettleDrain(d) \/ BackOffDrain(d)
             PROVE  Safe'
  BY DEF Drains
<1>1. CASE FireAlarm(d)
  <2>1. UNCHANGED <<now, entry, version, session, object, gc, r2, call, touched, granted>>
    BY <1>1 DEF FireAlarm, rows, store, history
  <2>2. \A e \in Drain : drain'[e].keys \subseteq drain[e].keys
    BY <1>1 DEF FireAlarm, IdleDrain, IInv, TypeOK
  <2>3. QED
    BY <2>1, <2>2, MemorySafe DEF IInv, VerifiedIsStored, Holds
<1>2. CASE DeleteBodies(d)
  BY <1>2, DeleteSafe DEF DeleteBodies, rows, history
<1>3. CASE DeleteBodiesFails(d)
  <2>1. PICK some \in SUBSET drain[d].keys : r2' = r2 \ some
    BY <1>3 DEF DeleteBodiesFails
  <2>2. QED
    BY <1>3, <2>1, DeleteSafe DEF DeleteBodiesFails, rows, history
<1>4. QED
  BY <1>1, <1>2, <1>3, DrainGarbageSafe, SettleSafe, BackOffSafe

\* Arming the alarm, PUTs, the clock, the host and evictions are safe: bodies
\* are only added, calls and drains only end, leases only run out.
LEMMA EnvironmentSafe == IInv /\ TypeOK' /\ (ArmAlarm \/ Environment) => Safe'
<1> SUFFICES ASSUME IInv, TypeOK', ArmAlarm \/ Environment PROVE Safe'
  OBVIOUS
<1>1. CASE ArmAlarm
  <2>1. UNCHANGED <<now, entry, version, session, object, gc, r2, touched, granted>>
    BY <1>1 DEF ArmAlarm, rows, history
  <2>2. \A d \in Drain : drain'[d].keys \subseteq drain[d].keys
    BY <1>1 DEF ArmAlarm, IdleDrain
  <2>3. \A c \in Caller : call'[c].pc = "reply" => call'[c] = call[c]
    BY <1>1 DEF ArmAlarm, IInv, TypeOK, Call, IdleCall
  <2>4. VerifiedIsStored'
    BY <2>1, <2>3 DEF IInv, VerifiedIsStored, Holds
  <2>5. QED
    BY <2>1, <2>2, <2>4, MemorySafe
<1>2. CASE Tick
  <2>1. /\ now \in Nat /\ now' = now + 1
        /\ UNCHANGED <<entry, version, session, object, gc, r2, call, drain, touched, granted>>
    BY <1>2 DEF Tick, rows, store, calls, history, IInv, TypeOK
  <2>2. \A u \in Upload : granted[u] \in Nat
    BY DEF IInv, TypeOK
  <2>3. NamesHaveRows' /\ RowsAreLive' /\ QueueIsDead' /\ LeasesArePublished'
    BY <2>1 DEF IInv, NamesHaveRows, RowsAreLive, QueueIsDead, LeasesArePublished
  <2>4. DrainsTakeDead'
    <3>1. \A d \in Drain : drain[d].keys \subseteq Upload
      BY DEF IInv, TypeOK, DrainCall
    <3>2. QED
      BY <2>1, <2>2, <3>1 DEF IInv, DrainsTakeDead
  <2>5. LeasedBodyRetained'
    BY <2>1, <2>2 DEF IInv, LeasedBodyRetained
  <2>6. VerifiedIsStored' /\ TokensLagBehind'
    BY <2>1 DEF IInv, VerifiedIsStored, Holds, TokensLagBehind
  <2>7. QED
    BY <2>3, <2>4, <2>5, <2>6 DEF Safe
<1>3. CASE Crash
  <2>1. UNCHANGED <<now, entry, version, session, object, gc, r2, touched, granted>>
    BY <1>3 DEF Crash, rows, store, history
  <2>2. \A d \in Drain : drain'[d].keys \subseteq drain[d].keys
    BY <1>3 DEF Crash, IdleDrain
  <2>3. VerifiedIsStored'
    BY <1>3 DEF Crash, VerifiedIsStored, IdleCall
  <2>4. QED
    BY <2>1, <2>2, <2>3, MemorySafe
<1>4. ASSUME NEW u \in Upload, StartPut(u) PROVE Safe'
  <2>1. UNCHANGED <<now, entry, version, session, object, gc, r2, call, drain, touched, granted>>
    BY <1>4 DEF StartPut, rows, calls, history
  <2>2. QED
    BY <2>1, MemorySafe DEF IInv, VerifiedIsStored, Holds
<1>5. ASSUME NEW u \in Upload, LandPut(u) PROVE Safe'
  <2>1. /\ r2' = r2 \cup {u}
        /\ UNCHANGED <<now, entry, version, session, object, gc, call, drain, touched, granted>>
    BY <1>5 DEF LandPut, rows, calls, history
  <2>2. NamesHaveRows' /\ RowsAreLive' /\ QueueIsDead' /\ DrainsTakeDead'
    BY <2>1 DEF IInv, NamesHaveRows, RowsAreLive, QueueIsDead, DrainsTakeDead
  <2>3. LeasesArePublished' /\ LeasedBodyRetained'
    BY <2>1 DEF IInv, LeasesArePublished, LeasedBodyRetained
  <2>4. VerifiedIsStored' /\ TokensLagBehind'
    BY <2>1 DEF IInv, VerifiedIsStored, Holds, TokensLagBehind
  <2>5. QED
    BY <2>2, <2>3, <2>4 DEF Safe
<1>6. ASSUME NEW time \in HostTimes, HostSetAlarm(time) PROVE Safe'
  <2>1. UNCHANGED <<now, entry, version, session, object, gc, r2, call, drain, touched, granted>>
    BY <1>6 DEF HostSetAlarm, rows, store, calls, history
  <2>2. QED
    BY <2>1, MemorySafe DEF IInv, VerifiedIsStored, Holds
<1>7. QED
  BY <1>1, <1>2, <1>3, <1>4, <1>5, <1>6 DEF Environment

----------------------------------------------------------------------------
(* The theorems.                                                            *)

\* IInv holds in every reachable state.
THEOREM Invariance == Spec => []IInv
<1>1. Init => IInv
  BY InitType, InitSafe DEF IInv, Safe
<1>2. IInv /\ TypeOK' /\ [Next]_vars => IInv'
  <2> SUFFICES ASSUME IInv, TypeOK', [Next]_vars PROVE IInv'
    OBVIOUS
  <2>1. CASE Next
    <3>1. Safe'
      BY <2>1, NamespaceSafe, UploadsSafe, CommitsSafe, DrainsSafe, EnvironmentSafe DEF Next
    <3>2. QED
      BY <3>1 DEF IInv, Safe
  <2>2. CASE UNCHANGED vars
    <3> USE <2>2 DEF vars, rows, store, calls, history
    <3>1. VerifiedIsStored'
      BY DEF IInv, VerifiedIsStored, Holds
    <3>2. Safe'
      BY <3>1, MemorySafe
    <3>3. QED
      BY <3>2 DEF IInv, Safe
  <2>3. QED
    BY <2>1, <2>2
<1>3. QED
  BY <1>1, <1>2, TypeCorrect, PTL DEF Spec

\* A name never reaches a missing object row or a missing body, whatever is
\* committed, copied, moved, removed, drained or evicted around it.
THEOREM NoDanglingReferences == Spec => []NoDanglingReference
<1>1. IInv => NoDanglingReference
  BY DEF IInv, NamesHaveRows, RowsAreLive, NoDanglingReference
<1>2. QED
  BY <1>1, Invariance, PTL

\* No collector takes a body from a reader before the lease ends.
THEOREM LeasesAreHonoured == Spec => []LeasedBodyRetained
<1>1. IInv => LeasedBodyRetained
  BY DEF IInv
<1>2. QED
  BY <1>1, Invariance, PTL

\* Where a session can go in one step.
SessionMove(u) ==
    \/ session'[u].state = session[u].state
    \/ session[u].state \in {"none", "open", "verifying"}
       /\ session'[u].state \in {"open", "verifying", "garbage"}
    \/ session[u].state = "committed" /\ session'[u].state = "forgotten"
    \/ session[u].state = "garbage" /\ session'[u].state = "collected"
    \/ \E c \in Caller : /\ CommitPublishes(c) /\ call[c].upload = u
                         /\ session[u].state = "verifying"
                         /\ session'[u].state = "committed"

\* A step that writes one row of the sessions, and ends no publication.
LEMMA OneRowMoves ==
    ASSUME session \in [Upload -> Session], NEW u \in Upload, NEW v \in Upload, NEW row,
           session' = [session EXCEPT ![v] = row],
           \/ row.state = session[v].state
           \/ /\ session[v].state \in {"none", "open", "verifying"}
              /\ row.state \in {"open", "verifying", "garbage"}
    PROVE  SessionMove(u)
<1>1. CASE u = v
  BY <1>1 DEF SessionMove
<1>2. CASE u # v
  BY <1>2 DEF SessionMove
<1> QED  BY <1>1, <1>2

\* Every step moves every session along its lifecycle; only CommitPublishes
\* makes one committed.
LEMMA SessionMoves ==
    ASSUME IInv, [Next]_vars, NEW u \in Upload
    PROVE  SessionMove(u)
<1>1. /\ session \in [Upload -> Session]
      /\ \A c \in Caller : call[c].pc # "idle" => call[c].upload \in Upload
  BY DEF IInv, TypeOK, Call, IdleCall
<1> USE DEF SessionMove
<1>2. CASE session' = session
  BY <1>2
<1>3. CASE Namespace
  BY <1>2, <1>3 DEF Namespace, WriteFile, Remove, RemoveSubtree, Move, Copy, Rebind,
                    ResolveOpaqueRead
<1>4. CASE Uploads
  <2>1. ASSUME NEW v \in Upload, NEW p \in Path, BeginOpaqueUpload(v, p) PROVE SessionMove(u)
    BY <1>1, <2>1 DEF BeginOpaqueUpload, NoSession
  <2>2. ASSUME NEW v \in Upload, AbortOpaqueUpload(v) PROVE SessionMove(u)
    BY <1>1, <2>2 DEF AbortOpaqueUpload, Garbage
  <2>3. ASSUME NEW v \in Upload, CommitExpired(v) PROVE SessionMove(u)
    BY <1>1, <2>3 DEF CommitExpired
  <2>4. ASSUME NEW v \in Upload, CommitReceiptExpired(v) PROVE SessionMove(u)
    BY <1>1, <2>4 DEF CommitReceiptExpired, DeletedSession, NoSession
  <2>5. ASSUME NEW c \in Caller, NEW v \in Upload, ClaimVerification(c, v) PROVE SessionMove(u)
    BY <1>1, <2>5 DEF ClaimVerification
  <2>6. QED
    BY <1>4, <2>1, <2>2, <2>3, <2>4, <2>5 DEF Uploads
<1>5. CASE Commits
  <2> SUFFICES ASSUME NEW c \in Caller,
                      \/ HeadObject(c) \/ CommitFails(c) \/ RejectMetadata(c)
                      \/ RejectLeaseLost(c) \/ CommitStale(c) \/ CommitPublishes(c)
               PROVE  SessionMove(u)
    BY <1>5 DEF Commits
  <2>1. CASE HeadObject(c) \/ RejectLeaseLost(c)
    BY <1>2, <2>1 DEF HeadObject, RejectLeaseLost, rows
  <2> DEFINE w == call[c].upload
             reopened == [session[w] EXCEPT !.state = "open", !.verifier = None, !.lease = 0]
             garbage == [session[w] EXCEPT !.state = "garbage", !.verifier = None, !.lease = 0]
  <2>0. w \in Upload => session[w] \in Session
    BY <1>1
  <2>00. w \in Upload => reopened.state = "open" /\ garbage.state = "garbage"
    BY <2>0 DEF Session
  <2>2. CASE CommitFails(c)
    <3>1. CASE Holds(c, w)
      <4>1. /\ w \in Upload /\ session[w].state = "verifying"
            /\ session' = [session EXCEPT ![w] = reopened]
        BY <1>1, <2>2, <3>1 DEF CommitFails, ResetVerification, Holds
      <4> HIDE DEF w, reopened
      <4> QED  BY <1>1, <2>00, <4>1, OneRowMoves
    <3>2. CASE ~Holds(c, w)
      BY <1>2, <2>2, <3>2 DEF CommitFails, ResetVerification
    <3> QED  BY <3>1, <3>2
  <2>3. CASE RejectMetadata(c) \/ CommitStale(c)
    <3>1. /\ w \in Upload /\ session[w].state = "verifying"
          /\ session' = [session EXCEPT ![w] = garbage]
      BY <1>1, <2>3 DEF RejectMetadata, CommitStale, Holds, Garbage
    <3> HIDE DEF w, garbage
    <3> QED  BY <1>1, <2>00, <3>1, OneRowMoves
  <2>5. CASE CommitPublishes(c)
    <3> DEFINE v == call[c].upload
    <3>1. v \in Upload /\ session[v].state = "verifying"
      BY <1>1, <2>5 DEF CommitPublishes, Holds
    <3>2. /\ session'[v].state = "committed"
          /\ \A x \in Upload \ {v} : session'[x] = session[x]
      <4>1. session' = [session EXCEPT ![v] = [session[v] EXCEPT !.state = "committed",
                !.verifier = None, !.lease = 0, !.expires = now + Retention]]
        BY <2>5 DEF CommitPublishes
      <4>2. session[v] \in Session
        BY <1>1, <3>1
      <4> HIDE DEF v
      <4>3. QED
        BY <1>1, <3>1, <4>1, <4>2 DEF Session
    <3> HIDE DEF v
    <3>3. CASE u = v
      BY <2>5, <3>1, <3>2, <3>3 DEF v
    <3>4. CASE u # v
      BY <3>2, <3>4
    <3>5. QED
      BY <3>3, <3>4
  <2>6. QED
    BY <2>1, <2>2, <2>3, <2>5
<1>6. CASE Drains
  <2> SUFFICES ASSUME NEW d \in Drain,
                      \/ FireAlarm(d) \/ DrainGarbage(d) \/ DeleteBodies(d)
                      \/ DeleteBodiesFails(d) \/ SettleDrain(d) \/ BackOffDrain(d)
               PROVE  SessionMove(u)
    BY <1>6 DEF Drains
  <2>1. CASE FireAlarm(d) \/ DeleteBodies(d) \/ DeleteBodiesFails(d) \/ BackOffDrain(d)
    BY <1>2, <2>1 DEF FireAlarm, DeleteBodies, DeleteBodiesFails, BackOffDrain, rows
  <2>2. CASE DrainGarbage(d)
    <3>1. PICK expired \in SUBSET ExpiredSessions :
            session' = [v \in Upload |-> IF v \in expired
               THEN [session[v] EXCEPT !.state = "garbage", !.verifier = None, !.lease = 0]
               ELSE IF session[v].state = "committed" /\ session[v].expires <= now
               THEN DeletedSession("forgotten") ELSE session[v]]
      BY <2>2 DEF DrainGarbage, Batches
    <3>2. session[u] \in Session
      BY <1>1
    <3>3. CASE u \in expired
      BY <3>1, <3>2, <3>3 DEF ExpiredSessions, Session
    <3>4. CASE u \notin expired
      BY <3>1, <3>4 DEF DeletedSession, NoSession
    <3>5. QED
      BY <3>3, <3>4
  <2>3. CASE SettleDrain(d)
    BY <2>3 DEF SettleDrain, DeletedSession, NoSession
  <2>4. QED
    BY <2>1, <2>2, <2>3
<1>7. CASE ArmAlarm \/ Environment
  BY <1>2, <1>7 DEF ArmAlarm, Environment, Tick, Crash, StartPut, LandPut, HostSetAlarm, rows
<1>8. CASE UNCHANGED vars
  BY <1>2, <1>8 DEF vars, rows
<1>9. QED
  BY <1>3, <1>4, <1>5, <1>6, <1>7, <1>8 DEF Next

\* A reservation whose path has changed since is never published.
THEOREM StaleIsNeverPublished == Spec => NoStalePublish
<1>1. IInv /\ [Next]_vars =>
          \A u \in Upload : session[u].state # "committed" /\ session'[u].state = "committed"
                               => u \notin touched
  <2> SUFFICES ASSUME IInv, [Next]_vars, NEW u \in Upload,
                      session[u].state # "committed", session'[u].state = "committed"
               PROVE  u \notin touched
    OBVIOUS
  <2>1. PICK c \in Caller : CommitPublishes(c) /\ call[c].upload = u
    BY SessionMoves DEF SessionMove
  <2>2. session[u].state = "verifying" /\ version[session[u].path] = session[u].token
    BY <2>1 DEF CommitPublishes, Holds, PathUnchanged
  <2>3. session[u].token \in Nat
    BY DEF IInv, TypeOK, Session
  <2>4. QED
    BY <2>2, <2>3 DEF IInv, TokensLagBehind
<1>2. QED
  BY <1>1, Invariance, PTL DEF Spec, NoStalePublish

\* A published session is never reopened or turned into garbage.
THEOREM PublicationIsFinal == Spec => PublishedIsFinal
<1>1. IInv /\ [Next]_vars =>
          \A u \in Upload : session[u].state = "committed"
                               => session'[u].state \in {"committed", "forgotten"}
  BY SessionMoves DEF SessionMove
<1>2. QED
  BY <1>1, Invariance, PTL DEF Spec, PublishedIsFinal

----------------------------------------------------------------------------
(* Refinement: the lifecycle implements the contract of opaque files.       *)

\* Nothing that the contract sees has changed.
Hidden == UNCHANGED <<now, entry, r2, granted>> /\ Published' = Published

\* Only a commit that publishes changes the set of published sessions.
LEMMA PublishedMoves ==
    ASSUME IInv, [Next]_vars, \A c \in Caller : ~CommitPublishes(c)
    PROVE  Published' = Published
  BY SessionMoves DEF SessionMove, Published

\* Steps that the contract does not see are stuttering steps of it.
LEMMA HiddenStutters ==
    ASSUME Hidden
    PROVE  UNCHANGED Contract!vars
  BY DEF Hidden, Contract!vars, OpaqueName

\* A namespace transaction drops names of bodies or passes them on.
LEMMA RebindRenames ==
    ASSUME IInv, NEW paths, NEW names \in [Path -> Body],
           \A p \in Path : names[p] \in Upload => \E q \in Path : entry[q] = names[p],
           Rebind(paths, names), Published' = Published
    PROVE  Contract!Rename
<1>1. /\ entry' = names
      /\ UNCHANGED <<now, r2, granted>>
  BY DEF Rebind, store
<1>2. \A p \in Path : OpaqueName'[p] = IF names[p] \in Upload THEN names[p] ELSE None
  BY <1>1 DEF OpaqueName
<1>3. \A p \in Path : names[p] \in Upload => names[p] \in Contract!Named
  BY DEF Contract!Named, OpaqueName
<1>4. OpaqueName' \in [Path -> Contract!Named \cup {None}]
  <2>1. OpaqueName' = [p \in Path |-> IF names[p] \in Upload THEN names[p] ELSE None]
    BY <1>1 DEF OpaqueName
  <2>2. QED
    BY <1>3, <2>1
<1>5. QED
  BY <1>1, <1>4 DEF Contract!Rename

\* Namespace operations are renamings and reads of the contract.
LEMMA NamespaceRefines ==
    ASSUME IInv, IInv', Namespace, Published' = Published
    PROVE  Contract!Next
<1>1. entry \in [Path -> Body] /\ None \notin Upload /\ Inline \notin Upload
  BY SetsAssumption DEF IInv, TypeOK
<1>2. ASSUME NEW p \in Path, WriteFile(p) PROVE Contract!Rename
  <2> DEFINE names == [entry EXCEPT ![p] = Inline]
  <2>1. names \in [Path -> Body] /\ Rebind({p}, names)
    BY <1>1, <1>2 DEF Body, WriteFile
  <2>2. \A r \in Path : names[r] \in Upload => \E q \in Path : entry[q] = names[r]
    BY <1>1
  <2> HIDE DEF names
  <2>3. QED
    BY <2>1, <2>2, RebindRenames
<1>3. ASSUME NEW p \in Path, Remove(p) PROVE Contract!Rename
  <2> DEFINE names == [entry EXCEPT ![p] = None]
  <2>1. names \in [Path -> Body] /\ Rebind({p}, names)
    BY <1>1, <1>3 DEF Body, Remove
  <2>2. \A r \in Path : names[r] \in Upload => \E q \in Path : entry[q] = names[r]
    BY <1>1
  <2> HIDE DEF names
  <2>3. QED
    BY <2>1, <2>2, RebindRenames
<1>4. ASSUME NEW tree \in Subtrees, RemoveSubtree(tree) PROVE Contract!Rename
  <2> DEFINE names == [p \in Path |-> IF p \in tree THEN None ELSE entry[p]]
             present == {p \in tree : entry[p] # None}
  <2>1. names \in [Path -> Body] /\ Rebind(present, names)
    BY <1>1, <1>4 DEF Body, RemoveSubtree
  <2>2. \A r \in Path : names[r] \in Upload => \E q \in Path : entry[q] = names[r]
    BY <1>1
  <2> HIDE DEF names, present
  <2>3. QED
    BY <2>1, <2>2, RebindRenames
<1>5. ASSUME NEW p \in Path, NEW q \in Path, Move(p, q) PROVE Contract!Rename
  <2> DEFINE names == [entry EXCEPT ![p] = None, ![q] = entry[p]]
  <2>1. names \in [Path -> Body] /\ Rebind({p, q}, names)
    BY <1>1, <1>5 DEF Body, Move
  <2>2. \A r \in Path : names[r] \in Upload => \E s \in Path : entry[s] = names[r]
    BY <1>1
  <2> HIDE DEF names
  <2>3. QED
    BY <2>1, <2>2, RebindRenames
<1>6. ASSUME NEW p \in Path, NEW q \in Path, Copy(p, q) PROVE Contract!Rename
  <2> DEFINE names == [entry EXCEPT ![q] = entry[p]]
  <2>1. names \in [Path -> Body] /\ Rebind({q}, names)
    BY <1>1, <1>6 DEF Body, Copy
  <2>2. \A r \in Path : names[r] \in Upload => \E s \in Path : entry[s] = names[r]
    BY <1>1
  <2> HIDE DEF names
  <2>3. QED
    BY <2>1, <2>2, RebindRenames
<1>7. ASSUME NEW p \in Path, ResolveOpaqueRead(p) PROVE \E u \in Upload : Contract!Read(u)
  <2> DEFINE u == entry[p]
  <2>1. /\ u \in Upload
        /\ granted' = [granted EXCEPT ![u] = Later(granted[u], now + ReadLease)]
        /\ UNCHANGED <<now, entry, r2>>
    BY <1>7 DEF ResolveOpaqueRead, store
  <2>2. u \in Contract!Named
    BY <2>1 DEF Contract!Named, OpaqueName
  <2>3. granted' \in [Upload -> Nat] /\ granted \in [Upload -> Nat] /\ now + ReadLease \in Nat
    BY TimesAreNat DEF IInv, TypeOK
  <2>4. OpaqueName' = OpaqueName
    BY <2>1 DEF OpaqueName
  <2> HIDE DEF u
  <2>5. granted'[u] >= granted[u] /\ \A v \in Upload \ {u} : granted'[v] = granted[v]
    BY <2>1, <2>3, LaterIsMax
  <2>6. Contract!Read(u)
    BY <2>1, <2>2, <2>3, <2>4, <2>5 DEF Contract!Read
  <2>7. QED
    BY <2>1, <2>6
<1>8. QED
  BY <1>2, <1>3, <1>4, <1>5, <1>6, <1>7 DEF Namespace, Contract!Next

\* A commit that publishes is a publication of the contract.
LEMMA PublishRefines ==
    ASSUME IInv, NEW c \in Caller, CommitPublishes(c)
    PROVE  Contract!Next
<1> DEFINE u == call[c].upload
           p == session[u].path
<1>1. /\ Holds(c, u) /\ call[c].pc = "reply" /\ call[c].head = "ok"
      /\ entry' = [entry EXCEPT ![p] = u]
      /\ session' = [session EXCEPT ![u] = [session[u] EXCEPT !.state = "committed",
                !.verifier = None, !.lease = 0, !.expires = now + Retention]]
      /\ UNCHANGED <<now, r2, granted>>
  BY DEF CommitPublishes, store
<1>2. u \in Upload /\ session[u] \in Session /\ session[u].state = "verifying"
  BY <1>1 DEF IInv, TypeOK, Call, IdleCall, Holds
<1>3. p \in Path /\ u \in r2
  BY <1>1, <1>2 DEF IInv, TokensLagBehind, VerifiedIsStored
<1> HIDE DEF u
<1>4. /\ session'[u].state = "committed"
      /\ \A v \in Upload \ {u} : session'[v] = session[v]
  <2> HIDE DEF p
  <2>1. session \in [Upload -> Session]
    BY DEF IInv, TypeOK
  <2>2. QED
    BY <1>1, <1>2, <2>1 DEF Session
<1> HIDE DEF p
<1>5. OpaqueName' = [OpaqueName EXCEPT ![p] = u]
  BY <1>1, <1>2, <1>3 DEF OpaqueName, IInv, TypeOK
<1>6. u \notin Published /\ Published' = Published \cup {u}
  BY <1>2, <1>4 DEF Published
<1>7. Contract!Publish(p, u)
  BY <1>1, <1>3, <1>5, <1>6 DEF Contract!Publish
<1>8. QED
  BY <1>2, <1>3, <1>7 DEF Contract!Next

\* A delete that reaches the bucket, whole or in part, is a collection.
LEMMA DeleteRefines ==
    ASSUME IInv, NEW d \in Drain, NEW some \in SUBSET drain[d].keys,
           r2' = r2 \ some, UNCHANGED <<now, entry, granted>>, Published' = Published
    PROVE  Contract!Next
<1>1. some \subseteq Upload
  BY DEF IInv, TypeOK, DrainCall
<1>2. \A u \in some : object[u] = NoRow /\ granted[u] <= now
  BY DEF IInv, DrainsTakeDead
<1>3. some \cap Contract!Named = {}
  BY <1>1, <1>2, SetsAssumption DEF IInv, NamesHaveRows, Contract!Named, OpaqueName
<1>4. OpaqueName' = OpaqueName
  BY DEF OpaqueName
<1>5. Contract!Collect(some)
  BY <1>2, <1>3, <1>4 DEF Contract!Collect
<1>6. QED
  BY <1>1, <1>5 DEF Contract!Next

\* Every step of the lifecycle is a step or a stutter of the contract.
LEMMA StepRefines ==
    ASSUME IInv, IInv', [Next]_vars
    PROVE  [Contract!Next]_(Contract!vars)
<1>1. CASE \E c \in Caller : CommitPublishes(c)
  BY <1>1, PublishRefines
<1>2. CASE \A c \in Caller : ~CommitPublishes(c)
  <2>1. Published' = Published
    BY <1>2, PublishedMoves
  <2>2. CASE Namespace
    BY <2>1, <2>2, NamespaceRefines
  <2>3. CASE Uploads
    <3>1. Hidden
      BY <2>1, <2>3 DEF Hidden, Uploads, BeginOpaqueUpload, AbortOpaqueUpload, CommitExpired,
                        CommitReceiptExpired, ClaimVerification, store, history
    <3>2. QED
      BY <3>1, HiddenStutters
  <2>4. CASE Commits
    <3>1. Hidden
      BY <1>2, <2>1, <2>4 DEF Hidden, Commits, HeadObject, CommitFails, RejectMetadata,
                              RejectLeaseLost, CommitStale, rows, store, history
    <3>2. QED
      BY <3>1, HiddenStutters
  <2>5. CASE Drains
    <3> SUFFICES ASSUME NEW d \in Drain,
                        \/ FireAlarm(d) \/ DrainGarbage(d) \/ DeleteBodies(d)
                        \/ DeleteBodiesFails(d) \/ SettleDrain(d) \/ BackOffDrain(d)
                 PROVE  [Contract!Next]_(Contract!vars)
      BY <2>5 DEF Drains
    <3>1. CASE FireAlarm(d) \/ DrainGarbage(d) \/ SettleDrain(d) \/ BackOffDrain(d)
      <4>1. Hidden
        BY <2>1, <3>1 DEF Hidden, FireAlarm, DrainGarbage, SettleDrain, BackOffDrain,
                          rows, store, history
      <4>2. QED
        BY <4>1, HiddenStutters
    <3>2. CASE DeleteBodies(d)
      BY <2>1, <3>2, DeleteRefines DEF DeleteBodies, rows, history
    <3>3. CASE DeleteBodiesFails(d)
      <4>1. PICK some \in SUBSET drain[d].keys : r2' = r2 \ some
        BY <3>3 DEF DeleteBodiesFails
      <4>2. QED
        BY <2>1, <3>3, <4>1, DeleteRefines DEF DeleteBodiesFails, rows, history
    <3>4. QED
      BY <3>1, <3>2, <3>3
  <2>6. CASE Tick
    <3>1. now' \in Nat /\ now' > now
      BY <2>6 DEF Tick, IInv, TypeOK
    <3>2. UNCHANGED <<entry, r2, granted>>
      BY <2>6 DEF Tick, rows, store, history
    <3>3. Contract!Pass
      BY <2>1, <3>1, <3>2 DEF Contract!Pass, OpaqueName
    <3>4. QED
      BY <3>3 DEF Contract!Next
  <2>7. ASSUME NEW u \in Upload, LandPut(u) PROVE Contract!Next
    <3>1. Contract!Store(u)
      BY <2>1, <2>7 DEF LandPut, rows, history, OpaqueName, Contract!Store
    <3>2. QED
      BY <3>1 DEF Contract!Next
  <2>8. CASE ArmAlarm \/ Crash \/ (\E u \in Upload : StartPut(u))
             \/ (\E time \in HostTimes : HostSetAlarm(time)) \/ UNCHANGED vars
    <3>1. Hidden
      BY <2>1, <2>8 DEF Hidden, ArmAlarm, Crash, StartPut, HostSetAlarm, vars, rows, store,
                        history
    <3>2. QED
      BY <3>1, HiddenStutters
  <2>9. QED
    BY <2>2, <2>3, <2>4, <2>5, <2>6, <2>7, <2>8 DEF Next, Environment
<1>3. QED
  BY <1>1, <1>2

\* Sessions, tokens, rows, queue, alarm, clock, failed deletes and evictions
\* together keep the contract: a name gets a stored body, each body is
\* published once, and only a body that nobody can ask for is deleted.
THEOREM LifecycleImplementsContract == Spec => ImplementsContract
<1>1. Init => Contract!Init
  BY SetsAssumption DEF Init, Contract!Init, OpaqueName, Published, NoSession
<1>2. IInv /\ IInv' /\ [Next]_vars => [Contract!Next]_(Contract!vars)
  BY StepRefines
<1>3. QED
  BY <1>1, <1>2, Invariance, PTL DEF Spec, ImplementsContract, Contract!Spec

----------------------------------------------------------------------------
(* Why maintenance loses nothing.  No body is ever orphaned: KeyInv is     *)
(* inductive, which is shown one key at a time.  All but five kinds of     *)
(* steps do no more to a key than KeyStep allows; those have a lemma each. *)
(* And the alarm covers all work, as long as arming calls do not overlap   *)
(* and the host leaves the slot alone: AlarmInv is inductive.              *)

----------------------------------------------------------------------------
(* KeyInv, one key at a time.                                               *)

Pending(u) == session[u].state \in {"open", "verifying"}
Ended(u) == session[u].state \in {"committed", "forgotten"}
Garbaged(u) == session[u].state = "garbage"

\* What the rows of a key and the bucket say together.
KeyRow(u) ==
    /\ session[u].state = "none" => authority[u] = 0 /\ sent[u] = 0
    /\ Pending(u) \/ Garbaged(u) => session[u].expires = authority[u]
    /\ Garbaged(u) /\ gc[u] # NoRow => authority[u] + Grace <= gc[u].notBefore
    /\ session[u].state = "collected" => Settled(u) /\ u \notin r2
    /\ inflight[u] <= sent[u]
    /\ u \in r2 \/ Ended(u) => inflight[u] < sent[u]
    /\ u \in r2 => \/ Pending(u) \/ Garbaged(u)
                   \/ object[u] # NoRow \/ gc[u] # NoRow
                   \/ sent[u] > 1 /\ Ended(u)

\* What a drain that holds the key knows of it.
KeyDrains(u) ==
    \A d \in Drain : u \in drain[d].keys =>
        /\ Garbaged(u) => Settled(u)
        /\ drain[d].pc = "deleted" /\ u \in r2 => sent[u] > 1 /\ Ended(u)

\* KeyInv is these two for every key, on top of IInv.
LEMMA KeyInvByKey ==
    ASSUME IInv
    PROVE  KeyInv <=> \A u \in Upload : KeyRow(u) /\ KeyDrains(u)
<1>1. r2 \subseteq Upload /\ \A d \in Drain : drain[d].keys \subseteq Upload
  BY DEF IInv, TypeOK, DrainCall
<1>2. ASSUME KeyInv, NEW u \in Upload PROVE KeyRow(u)
  BY <1>2 DEF KeyInv, KeyRow, EndIsKnown, GarbageSettles, PutsAreCounted, NoOrphanBody,
              Pending, Ended, Garbaged
<1>3. ASSUME KeyInv, NEW u \in Upload PROVE KeyDrains(u)
  BY <1>3 DEF KeyInv, KeyDrains, GarbageSettles, DeletedIsGone, Ended, Garbaged
<1>4. ASSUME \A u \in Upload : KeyRow(u) /\ KeyDrains(u) PROVE KeyInv
  <2>1. EndIsKnown
    BY <1>4 DEF KeyRow, EndIsKnown, Pending, Garbaged
  <2>2. GarbageSettles
    BY <1>4 DEF KeyRow, KeyDrains, GarbageSettles, Garbaged
  <2>3. PutsAreCounted
    BY <1>4 DEF KeyRow, PutsAreCounted, Ended
  <2>4. DeletedIsGone
    BY <1>1, <1>4 DEF KeyDrains, DeletedIsGone, Ended
  <2>5. NoOrphanBody
    BY <1>1, <1>4 DEF KeyRow, NoOrphanBody, Pending, Garbaged, Ended
  <2>6. QED
    BY <2>1, <2>2, <2>3, <2>4, <2>5 DEF KeyInv
<1>5. QED
  BY <1>2, <1>3, <1>4

----------------------------------------------------------------------------
(* The steps that are ordinary for a key.                                   *)

\* No request is sent or answered, and no right to send one is given.
Outside(u) ==
    /\ now <= now'
    /\ authority'[u] = authority[u]
    /\ inflight'[u] = inflight[u] /\ sent'[u] = sent[u]
    /\ u \in r2' => u \in r2

\* The rows of the key stay, or the object's row makes way for one in the queue.
RowsStay(u) ==
    /\ object[u] # NoRow => object'[u] # NoRow \/ gc'[u] # NoRow
    /\ gc[u] # NoRow => gc'[u] # NoRow
    /\ Garbaged(u) /\ gc'[u] # NoRow => gc[u] # NoRow /\ gc'[u].notBefore = gc[u].notBefore

\* The session stays, is claimed or reopened, loses its receipt, fails, or is
\* published.
SessionStep(u) ==
    \/ session'[u] = session[u] /\ RowsStay(u)
    \/ Pending(u) /\ Pending(u)' /\ session'[u].expires = session[u].expires /\ RowsStay(u)
    \/ session[u].state = "committed" /\ session'[u].state = "forgotten" /\ RowsStay(u)
    \/ /\ Pending(u) /\ Garbaged(u)' /\ session'[u].expires = session[u].expires
       /\ gc'[u] # NoRow /\ session[u].expires + Grace <= gc'[u].notBefore
    \/ Pending(u) /\ session'[u].state = "committed" /\ u \in r2 /\ object'[u] # NoRow

\* Drains take no further key, and what they have deleted is gone.
DrainStep(u) ==
    \A d \in Drain : u \in drain'[d].keys =>
        /\ u \in drain[d].keys
        /\ drain'[d].pc = "deleted" => drain[d].pc = "deleted" \/ u \notin r2'

\* The counters and times of a key.
LEMMA KeyTypes ==
    ASSUME TypeOK, NEW u \in Upload
    PROVE  /\ now \in Nat /\ authority[u] \in Nat /\ Grace \in Nat
           /\ inflight[u] \in Nat /\ sent[u] \in Nat
           /\ session[u].expires \in Nat
           /\ gc[u] # NoRow => gc[u].notBefore \in Nat
  BY TimesAreNat DEF TypeOK, Session, GcRow

\* Ordinary steps keep what the rows of a key say.
LEMMA RowKept ==
    ASSUME TypeOK, TypeOK', NEW u \in Upload, KeyRow(u), Outside(u), SessionStep(u)
    PROVE  KeyRow(u)'
<1>1. /\ now \in Nat /\ authority[u] \in Nat /\ Grace \in Nat
      /\ inflight[u] \in Nat /\ sent[u] \in Nat /\ now' \in Nat
  BY KeyTypes DEF TypeOK
<1>2. Settled(u) => Settled(u)'
  BY <1>1 DEF Settled, Outside
<1>3. CASE session'[u] = session[u] /\ RowsStay(u)
  BY <1>2, <1>3 DEF KeyRow, Outside, RowsStay, Pending, Ended, Garbaged
<1>4. CASE Pending(u) /\ Pending(u)' /\ session'[u].expires = session[u].expires /\ RowsStay(u)
  BY <1>4 DEF KeyRow, Outside, Pending, Ended, Garbaged
<1>5. CASE session[u].state = "committed" /\ session'[u].state = "forgotten" /\ RowsStay(u)
  BY <1>5 DEF KeyRow, Outside, RowsStay, Pending, Ended, Garbaged
<1>6. CASE /\ Pending(u) /\ Garbaged(u)' /\ session'[u].expires = session[u].expires
           /\ gc'[u] # NoRow /\ session[u].expires + Grace <= gc'[u].notBefore
  BY <1>6 DEF KeyRow, Outside, Pending, Ended, Garbaged
<1>7. CASE Pending(u) /\ session'[u].state = "committed" /\ u \in r2 /\ object'[u] # NoRow
  BY <1>7 DEF KeyRow, Outside, Pending, Ended, Garbaged
<1>8. QED
  BY <1>3, <1>4, <1>5, <1>6, <1>7 DEF SessionStep

\* Ordinary steps keep what the drains know of a key: a pending reservation is
\* in no drain.
LEMMA DrainsKept ==
    ASSUME IInv, TypeOK', NEW u \in Upload, KeyDrains(u), Outside(u), SessionStep(u),
           DrainStep(u)
    PROVE  KeyDrains(u)'
<1> SUFFICES ASSUME NEW d \in Drain, u \in drain'[d].keys
             PROVE  /\ Garbaged(u)' => Settled(u)'
                    /\ drain'[d].pc = "deleted" /\ u \in r2' => sent'[u] > 1 /\ Ended(u)'
  BY DEF KeyDrains
<1>1. u \in drain[d].keys /\ (drain'[d].pc = "deleted" => drain[d].pc = "deleted" \/ u \notin r2')
  BY DEF DrainStep
<1>2. ~Pending(u)
  BY <1>1 DEF IInv, DrainsTakeDead, Pending
<1>3. Garbaged(u)' => Garbaged(u)
  BY <1>2 DEF SessionStep, Garbaged
<1>4. Ended(u) => Ended(u)'
  BY <1>2 DEF SessionStep, Ended
<1>5. Settled(u) => Settled(u)'
  <2>1. /\ now \in Nat /\ authority[u] \in Nat /\ Grace \in Nat /\ now' \in Nat
    BY KeyTypes DEF IInv, TypeOK
  <2>2. QED
    BY <2>1 DEF Settled, Outside
<1>6. QED
  BY <1>1, <1>3, <1>4, <1>5 DEF KeyDrains, Outside

----------------------------------------------------------------------------
(* What an ordinary step is, for all keys together.                         *)

\* Keys all of whose rows stay; a step of them that changes no session.
KeyStep(u) == Outside(u) /\ SessionStep(u) /\ DrainStep(u)

\* What lets go of an object queues its key.
LEMMA ReleaseStays ==
    ASSUME IInv, NEW released, released \subseteq {u \in Upload : object[u] # NoRow},
           \A u \in Upload : u \notin released /\ object[u] # NoRow => object'[u] # NoRow,
           gc' = QueueWith(released)
    PROVE  \A u \in Upload : RowsStay(u)
<1>1. \A u \in released : QueueGarbage(gc, u, Later(now, object[u]))[u] \in GcRow
  BY ReleaseType DEF IInv
<1>2. \A u \in Upload : IF u \in released THEN gc'[u] # NoRow ELSE gc'[u] = gc[u]
  BY <1>1, SetsAssumption DEF QueueWith
<1>3. \A u \in released : ~Garbaged(u)
  BY DEF IInv, RowsAreLive, Garbaged
<1>4. QED
  BY <1>2, <1>3 DEF RowsStay

\* A namespace transaction is ordinary.
LEMMA RebindSteps ==
    ASSUME IInv, NEW paths, NEW names, Rebind(paths, names)
    PROVE  \A u \in Upload : KeyStep(u)
<1> DEFINE released == Released({entry[p] : p \in paths}, names)
<1>1. /\ object' = RowsWithout(released) /\ gc' = QueueWith(released)
      /\ UNCHANGED <<now, session, r2, inflight, sent, drain, authority>>
  BY DEF Rebind, store, calls
<1>2. released \subseteq {u \in Upload : object[u] # NoRow}
  BY DEF Released
<1> HIDE DEF released
<1>3. \A u \in Upload : RowsStay(u)
  BY <1>1, <1>2, ReleaseStays DEF RowsWithout
<1>4. \A u \in Upload : Outside(u) /\ DrainStep(u)
  BY <1>1 DEF Outside, DrainStep, IInv, TypeOK
<1>5. QED
  BY <1>1, <1>3, <1>4 DEF KeyStep, SessionStep

\* So is every operation on names, and a read lease.
LEMMA NamespaceSteps ==
    ASSUME IInv, Namespace
    PROVE  \A u \in Upload : KeyStep(u)
<1>1. CASE \E p \in Path : ResolveOpaqueRead(p)
  <2>1. PICK p \in Path : ResolveOpaqueRead(p)
    BY <1>1
  <2> DEFINE v == entry[p]
             end == Later(object[v], now + ReadLease)
  <2>2. /\ v \in Upload /\ object[v] # NoRow
        /\ object' = [object EXCEPT ![v] = end]
        /\ UNCHANGED <<now, session, gc, r2, inflight, sent, drain, authority>>
    BY <2>1 DEF ResolveOpaqueRead, store, calls
  <2>3. end # NoRow
    <3>1. object[v] \in Nat /\ now + ReadLease \in Nat
      BY <2>2, TimesAreNat DEF IInv, TypeOK
    <3>2. end \in Nat
      BY <3>1, LaterIsMax
    <3> HIDE DEF end
    <3>3. QED
      BY <3>2, SetsAssumption
  <2> HIDE DEF v, end
  <2>4. \A u \in Upload : RowsStay(u)
    BY <2>2, <2>3 DEF RowsStay, IInv, TypeOK
  <2>5. \A u \in Upload : Outside(u) /\ DrainStep(u)
    BY <2>2 DEF Outside, DrainStep, IInv, TypeOK
  <2>6. QED
    BY <2>2, <2>4, <2>5 DEF KeyStep, SessionStep
<1>2. CASE \E paths, names : Rebind(paths, names)
  BY <1>2, RebindSteps
<1>3. QED
  BY <1>1, <1>2 DEF Namespace, WriteFile, Remove, RemoveSubtree, Move, Copy

\* A reservation that fails is queued for the time it will have settled.
LEMMA BurySteps ==
    ASSUME IInv, NEW u \in Upload, Pending(u), Garbaged(u)',
           session'[u].expires = session[u].expires,
           \A v \in Upload \ {u} : session'[v] = session[v],
           QueueUploadGarbage(u),
           UNCHANGED <<now, object, r2, inflight, sent, drain, authority>>
    PROVE  \A v \in Upload : KeyStep(v)
<1> DEFINE time == Later(now, session[u].expires + Grace)
<1>1. time \in Nat /\ session[u].expires + Grace <= time /\ session[u].expires + Grace \in Nat
  <2>1. now \in Nat /\ session[u].expires \in Nat /\ Grace \in Nat
    BY KeyTypes DEF IInv
  <2>2. session[u].expires + Grace \in Nat
    BY <2>1
  <2>3. QED
    BY <2>1, <2>2, LaterIsMax
<1>2. gc' = QueueGarbage(gc, u, time) /\ gc \in Queues
  BY DEF QueueUploadGarbage, IInv, TypeOK, Queues
<1> HIDE DEF time
<1>3. /\ \A v \in Upload \ {u} : gc'[v] = gc[v]
      /\ gc'[u] \in GcRow /\ gc'[u].notBefore >= time
  BY <1>1, <1>2, QueueGarbageRow
<1>4. gc'[u] # NoRow /\ session[u].expires + Grace <= gc'[u].notBefore
  <2>1. gc'[u].notBefore \in Nat
    BY <1>3 DEF GcRow
  <2>2. QED
    BY <1>1, <1>3, <2>1, SetsAssumption
<1>5. \A v \in Upload : Outside(v) /\ DrainStep(v)
  BY DEF Outside, DrainStep, IInv, TypeOK
<1>6. \A v \in Upload \ {u} : RowsStay(v)
  BY <1>3 DEF RowsStay
<1>7. QED
  BY <1>4, <1>5, <1>6 DEF KeyStep, SessionStep

\* A session alone changes: claimed, reopened, or its receipt expires.
LEMMA SessionSteps ==
    ASSUME IInv, NEW u \in Upload,
           \/ Pending(u) /\ Pending(u)' /\ session'[u].expires = session[u].expires
           \/ session[u].state = "committed" /\ session'[u].state = "forgotten",
           \A v \in Upload \ {u} : session'[v] = session[v],
           UNCHANGED <<now, object, gc, r2, inflight, sent, drain, authority>>
    PROVE  \A v \in Upload : KeyStep(v)
<1>1. \A v \in Upload : Outside(v) /\ DrainStep(v) /\ RowsStay(v)
  BY DEF Outside, DrainStep, RowsStay, IInv, TypeOK
<1>2. QED
  BY <1>1 DEF KeyStep, SessionStep

\* What happens to a reservation before its commit is ordinary, but for its
\* beginning.
LEMMA UploadsSteps ==
    ASSUME IInv, Uploads, \A u \in Upload, p \in Path : ~BeginOpaqueUpload(u, p)
    PROVE  \A u \in Upload : KeyStep(u)
<1>1. session \in [Upload -> Session]
  BY DEF IInv, TypeOK
<1>2. ASSUME NEW u \in Upload, AbortOpaqueUpload(u) PROVE \A v \in Upload : KeyStep(v)
  <2>1. /\ Pending(u) /\ QueueUploadGarbage(u)
        /\ session' = [session EXCEPT ![u] = [session[u] EXCEPT
                           !.state = "garbage", !.verifier = None, !.lease = 0]]
        /\ UNCHANGED <<now, object, r2, inflight, sent, drain, authority>>
    BY <1>2 DEF AbortOpaqueUpload, Garbage, Pending, store, calls, history
  <2>2. /\ Garbaged(u)' /\ session'[u].expires = session[u].expires
        /\ \A v \in Upload \ {u} : session'[v] = session[v]
    BY <1>1, <2>1 DEF Garbaged, Session
  <2>3. QED
    BY <2>1, <2>2, BurySteps
<1>3. ASSUME NEW u \in Upload, CommitExpired(u) PROVE \A v \in Upload : KeyStep(v)
  <2>1. /\ Pending(u) /\ QueueUploadGarbage(u)
        /\ session' = [session EXCEPT ![u] = [session[u] EXCEPT !.state = "garbage"]]
        /\ UNCHANGED <<now, object, r2, inflight, sent, drain, authority>>
    BY <1>3 DEF CommitExpired, Pending, store, calls, history
  <2>2. /\ Garbaged(u)' /\ session'[u].expires = session[u].expires
        /\ \A v \in Upload \ {u} : session'[v] = session[v]
    BY <1>1, <2>1 DEF Garbaged, Session
  <2>3. QED
    BY <2>1, <2>2, BurySteps
<1>4. ASSUME NEW u \in Upload, CommitReceiptExpired(u) PROVE \A v \in Upload : KeyStep(v)
  <2>1. /\ session[u].state = "committed" /\ session'[u].state = "forgotten"
        /\ \A v \in Upload \ {u} : session'[v] = session[v]
        /\ UNCHANGED <<now, object, gc, r2, inflight, sent, drain, authority>>
    BY <1>1, <1>4
    DEF CommitReceiptExpired, DeletedSession, NoSession, store, calls, history
  <2>2. QED
    BY <2>1, SessionSteps
<1>5. ASSUME NEW c \in Caller, NEW u \in Upload, ClaimVerification(c, u)
      PROVE  \A v \in Upload : KeyStep(v)
  <2>1. /\ Pending(u)
        /\ session' = [session EXCEPT ![u] = [session[u] EXCEPT
                           !.state = "verifying", !.verifier = c, !.lease = now + VerifyLease]]
        /\ UNCHANGED <<now, object, gc, r2, inflight, sent, drain, authority>>
    BY <1>5 DEF ClaimVerification, Pending, store, history
  <2> DEFINE lease == now + VerifyLease
  <2> HIDE DEF lease
  <2>2. /\ Pending(u)' /\ session'[u].expires = session[u].expires
        /\ \A v \in Upload \ {u} : session'[v] = session[v]
    <3>1. session' = [session EXCEPT ![u] = [session[u] EXCEPT
                           !.state = "verifying", !.verifier = c, !.lease = lease]]
      BY <2>1 DEF lease
    <3>2. QED
      BY <1>1, <3>1 DEF Pending, Session
  <2>3. QED
    BY <2>1, <2>2, SessionSteps
<1>6. QED
  BY <1>2, <1>3, <1>4, <1>5 DEF Uploads

\* A commit that publishes gives a stored body its row; the objects it lets go
\* of are queued.
LEMMA PublishSteps ==
    ASSUME IInv, NEW c \in Caller, CommitPublishes(c)
    PROVE  \A u \in Upload : KeyStep(u)
<1> DEFINE v == call[c].upload
           released == Released({entry[session[v].path]}, [entry EXCEPT ![session[v].path] = v])
<1>1. /\ call[c].pc = "reply" /\ call[c].head = "ok" /\ Holds(c, v)
      /\ object' = [RowsWithout(released) EXCEPT ![v] = 0]
      /\ gc' = QueueWith(released)
      /\ UNCHANGED <<now, r2, inflight, sent, drain, authority>>
  BY DEF CommitPublishes, store
<1>2. /\ v \in Upload /\ v \in r2 /\ Pending(v)
      /\ session \in [Upload -> Session]
  BY <1>1 DEF IInv, TypeOK, Call, IdleCall, VerifiedIsStored, Holds, Pending
<1>3. session' = [session EXCEPT ![v].state = "committed", ![v].verifier = None,
                                 ![v].lease = 0, ![v].expires = now + Retention]
  BY DEF CommitPublishes
<1>4. released \subseteq {u \in Upload : object[u] # NoRow}
  BY DEF Released
<1> HIDE DEF released, v
<1>5. /\ session'[v].state = "committed"
      /\ \A u \in Upload \ {v} : session'[u] = session[u]
  <2> DEFINE end == now + Retention
  <2>1. session' = [session EXCEPT ![v] = [session[v] EXCEPT !.state = "committed",
                       !.verifier = None, !.lease = 0, !.expires = end]]
    BY <1>3
  <2> HIDE DEF end
  <2>2. QED
    BY <1>2, <2>1 DEF Session
<1>6. /\ object'[v] # NoRow
      /\ \A u \in Upload : u \notin released /\ object[u] # NoRow => object'[u] # NoRow
  BY <1>1, <1>2, SetsAssumption DEF RowsWithout
<1>7. \A u \in Upload : RowsStay(u)
  BY <1>1, <1>4, <1>6, ReleaseStays
<1>8. \A u \in Upload : Outside(u) /\ DrainStep(u)
  BY <1>1 DEF Outside, DrainStep, IInv, TypeOK
<1>9. QED
  BY <1>2, <1>5, <1>6, <1>7, <1>8 DEF KeyStep, SessionStep

\* No session, row, body or drain changes.
LEMMA QuietSteps ==
    ASSUME TypeOK, now <= now',
           \A d \in Drain : drain'[d] = drain[d] \/ drain'[d].keys = {},
           UNCHANGED <<session, object, gc, r2, inflight, sent, authority>>
    PROVE  \A u \in Upload : KeyStep(u)
  BY DEF KeyStep, Outside, SessionStep, DrainStep, RowsStay

\* The replies to a commit are ordinary.
LEMMA CommitsSteps ==
    ASSUME IInv, Commits
    PROVE  \A u \in Upload : KeyStep(u)
<1> SUFFICES ASSUME NEW c \in Caller,
                    \/ HeadObject(c) \/ CommitFails(c) \/ RejectMetadata(c)
                    \/ RejectLeaseLost(c) \/ CommitStale(c) \/ CommitPublishes(c)
             PROVE  \A u \in Upload : KeyStep(u)
  BY DEF Commits
<1>1. /\ session \in [Upload -> Session] /\ now \in Nat
      /\ call[c].pc = "reply" => call[c].upload \in Upload
  BY DEF IInv, TypeOK, Call, IdleCall
<1>2. CASE HeadObject(c) \/ RejectLeaseLost(c)
  BY <1>1, <1>2, QuietSteps DEF HeadObject, RejectLeaseLost, rows, store, history, IInv
<1>3. CASE CommitFails(c)
  <2>0. PICK v \in Upload : v = call[c].upload
    BY <1>1, <1>3 DEF CommitFails
  <2>1. CASE Holds(c, v)
    <3>1. /\ Pending(v)
          /\ session' = [session EXCEPT ![v] = [session[v] EXCEPT
                             !.state = "open", !.verifier = None, !.lease = 0]]
          /\ UNCHANGED <<now, object, gc, r2, inflight, sent, drain, authority>>
      BY <2>0, <1>3, <2>1 DEF CommitFails, ResetVerification, Holds, Pending, store, history
    <3>2. /\ Pending(v)' /\ session'[v].expires = session[v].expires
          /\ \A u \in Upload \ {v} : session'[u] = session[u]
      BY <1>1, <3>1 DEF Pending, Session
    <3>3. QED
      BY <3>1, <3>2, SessionSteps
  <2>2. CASE ~Holds(c, v)
    BY <1>1, <1>3, <2>0, <2>2, QuietSteps DEF CommitFails, ResetVerification, store, history, IInv
  <2>3. QED
    BY <2>1, <2>2
<1>4. CASE RejectMetadata(c) \/ CommitStale(c)
  <2>0. PICK v \in Upload : v = call[c].upload
    BY <1>1, <1>4 DEF RejectMetadata, CommitStale
  <2>1. /\ Pending(v) /\ QueueUploadGarbage(v)
        /\ session' = [session EXCEPT ![v] = [session[v] EXCEPT
                           !.state = "garbage", !.verifier = None, !.lease = 0]]
        /\ UNCHANGED <<now, object, r2, inflight, sent, drain, authority>>
    BY <1>4, <2>0 DEF RejectMetadata, CommitStale, Holds, Garbage, Pending, store, history
  <2>2. /\ Garbaged(v)' /\ session'[v].expires = session[v].expires
        /\ \A u \in Upload \ {v} : session'[u] = session[u]
    BY <1>1, <2>1 DEF Garbaged, Session
  <2>3. QED
    BY <2>1, <2>2, BurySteps
<1>5. CASE CommitPublishes(c)
  BY <1>5, PublishSteps
<1>6. QED
  BY <1>2, <1>3, <1>4, <1>5

\* The alarm, crashes, the clock and the host are ordinary: drains only end.
LEMMA EnvironmentSteps ==
    ASSUME IInv, \/ ArmAlarm \/ Tick \/ Crash \/ \E time \in HostTimes : HostSetAlarm(time)
                 \/ \E d \in Drain : FireAlarm(d)
                 \/ UNCHANGED vars
    PROVE  \A u \in Upload : KeyStep(u)
<1>1. now \in Nat /\ now <= now'
  BY DEF IInv, TypeOK, ArmAlarm, Tick, Crash, HostSetAlarm, FireAlarm, vars
<1>2. UNCHANGED <<session, object, gc, r2, inflight, sent, authority>>
  BY DEF ArmAlarm, Tick, Crash, HostSetAlarm, FireAlarm, vars, rows, store, history
<1>3. \A d \in Drain : drain'[d] = drain[d] \/ drain'[d].keys = {}
  <2>1. drain \in [Drain -> DrainCall]
    BY DEF IInv, TypeOK
  <2>2. CASE \E d \in Drain : FireAlarm(d)
    <3>1. PICK e \in Drain :
              drain' = [drain EXCEPT ![e] = [IdleDrain EXCEPT !.pc = "fired", !.byAlarm = TRUE]]
      BY <2>2 DEF FireAlarm
    <3>2. QED
      BY <2>1, <3>1 DEF IdleDrain
  <2>3. CASE ArmAlarm \/ Crash
    BY <2>3 DEF ArmAlarm, Crash, IdleDrain
  <2>4. CASE Tick \/ UNCHANGED vars \/ \E time \in HostTimes : HostSetAlarm(time)
    BY <2>4 DEF Tick, HostSetAlarm, vars, calls
  <2>5. QED
    BY <2>2, <2>3, <2>4
<1>4. QED
  BY <1>1, <1>2, <1>3, QuietSteps DEF IInv

----------------------------------------------------------------------------
(* The other steps.                                                         *)

KeySafe(u) == KeyRow(u) /\ KeyDrains(u)

\* A reservation begins with nothing sent and nothing stored.
LEMMA BeginSafe ==
    ASSUME IInv, TypeOK', NEW v \in Upload, NEW p \in Path, BeginOpaqueUpload(v, p),
           NEW u \in Upload, KeySafe(u)
    PROVE  KeySafe(u)'
<1>1. /\ session[v].state = "none" /\ session \in [Upload -> Session]
      /\ session'[v].state = "open" /\ session'[v].expires = authority'[v]
      /\ \A w \in Upload \ {v} : session'[w] = session[w] /\ authority'[w] = authority[w]
      /\ UNCHANGED <<now, object, gc, r2, inflight, sent, drain>>
  BY DEF BeginOpaqueUpload, NoSession, store, calls, IInv, TypeOK
<1>2. inflight[u] \in Nat /\ sent[u] \in Nat /\ now \in Nat
  BY DEF IInv, TypeOK
<1>3. CASE u = v
  <2>1. u \notin r2 /\ \A d \in Drain : u \notin drain[d].keys
    BY <1>1, <1>2, <1>3 DEF IInv, DrainsTakeDead, KeySafe, KeyRow
  <2>2. KeyRow(u)'
    BY <1>1, <1>3, <2>1 DEF KeySafe, KeyRow, Pending, Ended, Garbaged
  <2>3. KeyDrains(u)'
    BY <1>1, <2>1 DEF KeyDrains
  <2>4. QED
    BY <2>2, <2>3 DEF KeySafe
<1>4. CASE u # v
  <2>1. KeyStep(u)
    BY <1>1, <1>2, <1>4 DEF KeyStep, Outside, SessionStep, DrainStep, RowsStay
  <2>2. QED
    BY <2>1, RowKept, DrainsKept DEF KeyStep, KeySafe, IInv
<1>5. QED
  BY <1>3, <1>4

\* A request is only sent under a reservation, and is counted.
LEMMA StartPutSafe ==
    ASSUME IInv, TypeOK', NEW v \in Upload, StartPut(v), NEW u \in Upload, KeySafe(u)
    PROVE  KeySafe(u)'
<1>1. /\ now < authority[v]
      /\ sent' = [sent EXCEPT ![v] = @ + 1] /\ inflight' = [inflight EXCEPT ![v] = @ + 1]
      /\ UNCHANGED <<now, session, object, gc, r2, drain, authority>>
  BY DEF StartPut, rows, calls, history
<1>2. /\ inflight[u] \in Nat /\ sent[u] \in Nat /\ now \in Nat
      /\ inflight \in [Upload -> Nat] /\ sent \in [Upload -> Nat]
  BY DEF IInv, TypeOK
<1>3. CASE u = v
  <2>1. sent'[u] = sent[u] + 1 /\ inflight'[u] = inflight[u] + 1
    BY <1>1, <1>2, <1>3
  <2>2. authority[u] # 0
    BY <1>1, <1>2, <1>3
  <2>3. Settled(u)' <=> Settled(u)
    BY <1>1 DEF Settled
  <2>4. KeyRow(u)'
    BY <1>1, <1>2, <2>1, <2>2, <2>3 DEF KeySafe, KeyRow, Pending, Ended, Garbaged
  <2>5. KeyDrains(u)'
    BY <1>1, <1>2, <2>1, <2>3 DEF KeySafe, KeyDrains, Ended, Garbaged
  <2>6. QED
    BY <2>4, <2>5 DEF KeySafe
<1>4. CASE u # v
  <2>1. KeyStep(u)
    BY <1>1, <1>2, <1>4 DEF KeyStep, Outside, SessionStep, DrainStep, RowsStay
  <2>2. QED
    BY <2>1, RowKept, DrainsKept DEF KeyStep, KeySafe, IInv
<1>5. QED
  BY <1>3, <1>4

\* A body that lands belongs to a reservation whose key is still accounted for;
\* once a session is published, it was not the request that counts.
LEMMA LandPutSafe ==
    ASSUME IInv, TypeOK', NEW v \in Upload, LandPut(v), NEW u \in Upload, KeySafe(u)
    PROVE  KeySafe(u)'
<1>1. /\ inflight[v] > 0 /\ ~Settled(v)
      /\ inflight' = [inflight EXCEPT ![v] = @ - 1] /\ r2' = r2 \cup {v}
      /\ UNCHANGED <<now, session, object, gc, sent, drain, authority>>
  BY DEF LandPut, rows, calls, history
<1>2. /\ inflight[u] \in Nat /\ sent[u] \in Nat /\ now \in Nat
      /\ inflight \in [Upload -> Nat] /\ session[u].state \in SessionState
  BY DEF IInv, TypeOK, Session
<1>3. CASE u = v
  <2>1. inflight'[u] = inflight[u] - 1
    BY <1>1, <1>2, <1>3
  <2>2. Settled(u)' <=> Settled(u)
    BY <1>1 DEF Settled
  <2>3. session[u].state \notin {"none", "collected"}
    BY <1>1, <1>2, <1>3 DEF KeySafe, KeyRow
  <2>4. Pending(u) \/ Garbaged(u) \/ Ended(u)
    BY <1>2, <2>3 DEF SessionState, Pending, Garbaged, Ended
  <2>5. Ended(u) => sent[u] > 1
    BY <1>1, <1>2, <1>3 DEF KeySafe, KeyRow
  <2>6. KeyRow(u)'
    BY <1>1, <1>2, <1>3, <2>1, <2>2, <2>3, <2>4, <2>5
    DEF KeySafe, KeyRow, Pending, Ended, Garbaged
  <2>7. KeyDrains(u)'
    <3>1. ASSUME NEW d \in Drain, u \in drain[d].keys PROVE Ended(u)
      BY <1>1, <1>3, <2>4, <3>1 DEF KeySafe, KeyDrains, IInv, DrainsTakeDead, Pending
    <3>2. QED
      BY <1>1, <2>5, <3>1 DEF KeyDrains, Garbaged, Ended
  <2>8. QED
    BY <2>6, <2>7 DEF KeySafe
<1>4. CASE u # v
  <2>1. KeyStep(u)
    BY <1>1, <1>2, <1>4 DEF KeyStep, Outside, SessionStep, DrainStep, RowsStay
  <2>2. QED
    BY <2>1, RowKept, DrainsKept DEF KeyStep, KeySafe, IInv
<1>5. QED
  BY <1>3, <1>4

\* After its last transaction a drain holds no key, and no other drain changed.
LEMMA RearmEnds ==
    ASSUME TypeOK, NEW d \in Drain, NEW queue, Rearm(d, drain[d], queue)
    PROVE  \A e \in Drain : drain'[e] = drain[e] \/ drain'[e].keys = {}
<1>1. drain'[d].keys = {}
  BY RearmKeys
<1>2. \A e \in Drain \ {d} : drain'[e] = drain[e]
  BY DEF Rearm, TypeOK
<1>3. QED
  BY <1>1, <1>2

\* The first transaction of a drain: expired reservations fail, receipts expire,
\* and the keys that are taken are due, so those of failed reservations settled.
LEMMA DrainGarbageKeeps ==
    ASSUME IInv, TypeOK', NEW d \in Drain, DrainGarbage(d), NEW u \in Upload, KeySafe(u)
    PROVE  KeySafe(u)'
<1> DEFINE time(v) == Later(now, session[v].expires + Grace)
<1>1. PICK expired \in Batches(ExpiredSessions), keys \in SUBSET DueKeys(gc') :
          /\ gc' = [v \in Upload |-> IF v \in expired THEN QueueGarbage(gc, v, time(v))[v]
                                     ELSE gc[v]]
          /\ session' = [v \in Upload |-> IF v \in expired
               THEN [session[v] EXCEPT !.state = "garbage", !.verifier = None, !.lease = 0]
               ELSE IF session[v].state = "committed" /\ session[v].expires <= now
               THEN DeletedSession("forgotten") ELSE session[v]]
          /\ IF keys = {} THEN Rearm(d, drain[d], gc')
             ELSE drain' = [drain EXCEPT ![d] = [drain[d] EXCEPT
                                !.pc = "deleting", !.keys = keys, !.start = now]]
  BY DEF DrainGarbage, Batches
<1>2. UNCHANGED <<now, object, r2, inflight, sent, authority>>
  BY DEF DrainGarbage, store, history
<1>3. u \in expired => Pending(u)
  BY DEF Batches, ExpiredSessions, Pending
<1>4. /\ now \in Nat /\ Grace \in Nat /\ session[u] \in Session /\ gc \in Queues
      /\ session[u].expires \in Nat /\ now' \in Nat /\ authority'[u] \in Nat
      /\ gc'[u] # NoRow => gc'[u].notBefore \in Nat
  BY KeyTypes DEF IInv, TypeOK, Queues, Session, GcRow
<1>5. Outside(u)
  BY <1>2, <1>4 DEF Outside
<1>6. SessionStep(u)
  <2>1. CASE u \in expired
    <3>1. Garbaged(u)' /\ session'[u].expires = session[u].expires
      BY <1>1, <1>4, <2>1 DEF Garbaged, Session
    <3>2. session[u].expires + Grace \in Nat
      BY <1>4
    <3>3. time(u) \in Nat /\ session[u].expires + Grace <= time(u)
      BY <1>4, <3>2, LaterIsMax
    <3>4. gc'[u] = QueueGarbage(gc, u, time(u))[u]
      BY <1>1, <2>1
    <3> HIDE DEF time
    <3>5. gc'[u] \in GcRow /\ gc'[u].notBefore >= time(u)
      BY <1>4, <3>3, <3>4, QueueGarbageRow
    <3>6. gc'[u] # NoRow /\ session[u].expires + Grace <= gc'[u].notBefore
      <4>1. gc'[u] # NoRow
        BY <3>5, SetsAssumption
      <4>2. QED
        BY <1>4, <3>2, <3>3, <3>5, <4>1
    <3>7. QED
      BY <1>3, <2>1, <3>1, <3>6 DEF SessionStep
  <2>2. CASE u \notin expired
    <3>1. gc'[u] = gc[u] /\ object'[u] = object[u]
      BY <1>1, <1>2, <2>2
    <3>2. RowsStay(u)
      BY <3>1 DEF RowsStay
    <3>3. \/ session'[u] = session[u]
          \/ session[u].state = "committed" /\ session'[u].state = "forgotten"
      BY <1>1, <2>2 DEF DeletedSession, NoSession
    <3>4. QED
      BY <3>2, <3>3 DEF SessionStep
  <2>3. QED
    BY <2>1, <2>2
<1>7. KeyRow(u)'
  BY <1>5, <1>6, RowKept DEF KeySafe, IInv
<1> HIDE DEF time
<1>8. CASE keys = {}
  <2>1. DrainStep(u)
    BY <1>1, <1>8, RearmEnds DEF DrainStep, IInv
  <2>2. QED
    BY <1>5, <1>6, <1>7, <2>1, DrainsKept DEF KeySafe
<1>9. CASE keys # {}
  <2>1. /\ drain \in [Drain -> DrainCall]
        /\ drain' = [drain EXCEPT ![d] = [drain[d] EXCEPT
                                !.pc = "deleting", !.keys = keys, !.start = now]]
    BY <1>1, <1>9 DEF IInv, TypeOK
  <2>2. /\ drain'[d].keys = keys /\ drain'[d].pc = "deleting"
        /\ \A e \in Drain \ {d} : drain'[e] = drain[e]
    BY <2>1 DEF DrainCall
  <2>3. ASSUME u \in keys, Garbaged(u)' PROVE Settled(u)'
    <3>1. gc'[u] # NoRow /\ gc'[u].notBefore <= now
      BY <2>3 DEF DueKeys
    <3>2. authority'[u] + Grace <= gc'[u].notBefore
      BY <1>7, <2>3, <3>1 DEF KeyRow
    <3>3. QED
      BY <1>2, <1>4, <3>1, <3>2 DEF Settled
  <2>4. ASSUME NEW e \in Drain \ {d}, u \in drain[e].keys
        PROVE  /\ Garbaged(u)' => Settled(u)'
               /\ drain[e].pc = "deleted" /\ u \in r2 => sent[u] > 1 /\ Ended(u)'
    <3>1. ~Pending(u)
      BY <2>4 DEF IInv, DrainsTakeDead, Pending
    <3>2. (Garbaged(u)' => Garbaged(u)) /\ (Ended(u) => Ended(u)')
      BY <3>1, <1>6 DEF SessionStep, Garbaged, Ended
    <3>3. Settled(u)' <=> Settled(u)
      BY <1>2 DEF Settled
    <3>4. QED
      BY <2>4, <3>2, <3>3 DEF KeySafe, KeyDrains
  <2>5. KeyDrains(u)'
    BY <1>2, <2>2, <2>3, <2>4 DEF KeyDrains
  <2>6. QED
    BY <1>7, <2>5 DEF KeySafe
<1>10. QED
  BY <1>8, <1>9

\* The bodies of a batch go, all of them or, when the delete fails, some.
LEMMA DeleteKeeps ==
    ASSUME IInv, TypeOK', NEW d \in Drain, NEW some \in SUBSET drain[d].keys, NEW pc,
           pc = "deleted" => some = drain[d].keys,
           r2' = r2 \ some, drain' = [drain EXCEPT ![d].pc = pc],
           UNCHANGED <<now, session, object, gc, inflight, sent, authority>>,
           NEW u \in Upload, KeySafe(u)
    PROVE  KeySafe(u)'
<1>1. drain \in [Drain -> DrainCall] /\ now \in Nat
  BY DEF IInv, TypeOK
<1>2. /\ \A e \in Drain : drain'[e].keys = drain[e].keys
      /\ \A e \in Drain \ {d} : drain'[e] = drain[e]
      /\ drain'[d].pc = pc
  BY <1>1 DEF DrainCall
<1>3. DrainStep(u)
  BY <1>2 DEF DrainStep
<1>4. Outside(u) /\ SessionStep(u)
  BY <1>1 DEF Outside, SessionStep, RowsStay
<1>5. QED
  BY <1>3, <1>4, RowKept, DrainsKept DEF KeySafe, IInv

\* The last transaction of a drain takes its keys from the queue: their bodies
\* are gone, but for those a second PUT of a published session brought back.
LEMMA SettleKeeps ==
    ASSUME IInv, TypeOK', NEW d \in Drain, SettleDrain(d), NEW u \in Upload, KeySafe(u)
    PROVE  KeySafe(u)'
<1>1. /\ drain[d].pc = "deleted"
      /\ session' = [v \in Upload |-> IF v \in drain[d].keys /\ session[v].state = "garbage"
                                     THEN DeletedSession("collected") ELSE session[v]]
      /\ gc' = [v \in Upload |-> IF v \in drain[d].keys THEN NoRow ELSE gc[v]]
      /\ Rearm(d, drain[d], gc')
      /\ UNCHANGED <<now, object, r2, inflight, sent, authority>>
  BY DEF SettleDrain, store, history
<1>2. now \in Nat /\ Outside(u)
  BY <1>1 DEF Outside, IInv, TypeOK
<1>3. \A e \in Drain : drain'[e] = drain[e] \/ drain'[e].keys = {}
  BY <1>1, RearmEnds DEF IInv
<1>4. CASE u \notin drain[d].keys
  <2>1. SessionStep(u) /\ DrainStep(u)
    BY <1>1, <1>3, <1>4 DEF SessionStep, DrainStep, RowsStay
  <2>2. QED
    BY <1>2, <2>1, RowKept, DrainsKept DEF KeySafe, IInv
<1>5. CASE u \in drain[d].keys
  <2>1. /\ u \in r2 => sent[u] > 1 /\ Ended(u)
        /\ Garbaged(u) => Settled(u) /\ u \notin r2
        /\ gc'[u] = NoRow
    BY <1>1, <1>5 DEF KeySafe, KeyDrains, Ended, Garbaged
  <2>2. Settled(u)' <=> Settled(u)
    BY <1>1 DEF Settled
  <2>3. CASE Garbaged(u)
    <3>1. session'[u].state = "collected"
      BY <1>1, <1>5, <2>3 DEF Garbaged, DeletedSession, NoSession
    <3>2. KeyRow(u)'
      BY <1>1, <2>1, <2>2, <2>3, <3>1 DEF KeySafe, KeyRow, Pending, Garbaged, Ended
    <3>3. KeyDrains(u)'
      BY <1>1, <2>1, <2>3, <3>1 DEF KeyDrains, Garbaged, Ended
    <3>4. QED
      BY <3>2, <3>3 DEF KeySafe
  <2>4. CASE ~Garbaged(u)
    <3>1. session'[u] = session[u]
      BY <1>1, <2>4 DEF Garbaged
    <3>2. KeyRow(u)'
      BY <1>1, <2>1, <2>2, <2>4, <3>1 DEF KeySafe, KeyRow, Pending, Garbaged, Ended
    <3>3. KeyDrains(u)'
      BY <1>1, <2>1, <2>4, <3>1 DEF KeyDrains, Garbaged, Ended
    <3>4. QED
      BY <3>2, <3>3 DEF KeySafe
  <2>5. QED
    BY <2>3, <2>4
<1>6. QED
  BY <1>4, <1>5

\* A drain that backs off keeps its rows, for as long as before.
LEMMA BackOffSteps ==
    ASSUME IInv, NEW d \in Drain, BackOffDrain(d)
    PROVE  \A u \in Upload : KeyStep(u)
<1>1. /\ gc' = [u \in Upload |-> IF u \in drain[d].keys /\ gc[u] # NoRow
                                 THEN Backoff(d, gc[u]) ELSE gc[u]]
      /\ Rearm(d, drain[d], gc')
      /\ UNCHANGED <<now, session, object, r2, inflight, sent, authority>>
  BY DEF BackOffDrain, store, history
<1>2. \A e \in Drain : drain'[e] = drain[e] \/ drain'[e].keys = {}
  BY <1>1, RearmEnds DEF IInv
<1> SUFFICES ASSUME NEW u \in Upload PROVE KeyStep(u)
  OBVIOUS
<1>3. Outside(u) /\ DrainStep(u)
  <2>1. Outside(u)
    BY <1>1 DEF Outside, IInv, TypeOK
  <2>2. DrainStep(u)
    BY <1>2 DEF DrainStep
  <2>3. QED
    BY <2>1, <2>2
<1>4. RowsStay(u)
  <2>1. CASE u \in drain[d].keys /\ gc[u] # NoRow
    <3>1. gc[u] \in GcRow /\ gc'[u] = Backoff(d, gc[u])
      BY <1>1, <2>1 DEF IInv, TypeOK
    <3>2. gc'[u] # NoRow /\ gc'[u].notBefore = gc[u].notBefore
      BY <3>1, BackoffRow, SetsAssumption DEF IInv
    <3>3. QED
      BY <1>1, <2>1, <3>2 DEF RowsStay
  <2>2. CASE ~(u \in drain[d].keys /\ gc[u] # NoRow)
    BY <1>1, <2>2 DEF RowsStay
  <2>3. QED
    BY <2>1, <2>2
<1>5. QED
  BY <1>1, <1>3, <1>4 DEF KeyStep, SessionStep

----------------------------------------------------------------------------
(* The theorems about bodies.                                               *)

\* Whatever step is taken, every key stays accounted for.
LEMMA StepKeepsKeys ==
    ASSUME IInv, TypeOK', [Next]_vars, NEW u \in Upload, KeySafe(u)
    PROVE  KeySafe(u)'
<1>1. CASE KeyStep(u)
  BY <1>1, RowKept, DrainsKept DEF KeyStep, KeySafe, IInv
<1>2. CASE Namespace
  BY <1>1, <1>2, NamespaceSteps
<1>3. CASE Uploads
  <2>1. CASE \E v \in Upload, p \in Path : BeginOpaqueUpload(v, p)
    BY <2>1, BeginSafe
  <2>2. CASE \A v \in Upload, p \in Path : ~BeginOpaqueUpload(v, p)
    BY <1>1, <1>3, <2>2, UploadsSteps
  <2>3. QED
    BY <2>1, <2>2
<1>4. CASE Commits
  BY <1>1, <1>4, CommitsSteps
<1>5. CASE Drains
  <2> SUFFICES ASSUME NEW d \in Drain,
                      \/ FireAlarm(d) \/ DrainGarbage(d) \/ DeleteBodies(d)
                      \/ DeleteBodiesFails(d) \/ SettleDrain(d) \/ BackOffDrain(d)
               PROVE  KeySafe(u)'
    BY <1>5 DEF Drains
  <2>1. CASE FireAlarm(d)
    BY <1>1, <2>1, EnvironmentSteps
  <2>2. CASE DrainGarbage(d)
    BY <2>2, DrainGarbageKeeps
  <2>3. CASE DeleteBodies(d)
    BY <2>3, DeleteKeeps DEF DeleteBodies, rows, history
  <2>4. CASE DeleteBodiesFails(d)
    <3>1. PICK some \in SUBSET drain[d].keys : r2' = r2 \ some
      BY <2>4 DEF DeleteBodiesFails
    <3>2. QED
      BY <2>4, <3>1, DeleteKeeps DEF DeleteBodiesFails, rows, history
  <2>5. CASE SettleDrain(d)
    BY <2>5, SettleKeeps
  <2>6. CASE BackOffDrain(d)
    BY <1>1, <2>6, BackOffSteps
  <2>7. QED
    BY <2>1, <2>2, <2>3, <2>4, <2>5, <2>6
<1>6. CASE ArmAlarm \/ UNCHANGED vars
  BY <1>1, <1>6, EnvironmentSteps
<1>7. CASE Environment
  <2>1. CASE \E v \in Upload : StartPut(v)
    BY <2>1, StartPutSafe
  <2>2. CASE \E v \in Upload : LandPut(v)
    BY <2>2, LandPutSafe
  <2>3. CASE Tick \/ Crash \/ \E time \in HostTimes : HostSetAlarm(time)
    BY <1>1, <2>3, EnvironmentSteps
  <2>4. QED
    BY <1>7, <2>1, <2>2, <2>3 DEF Environment
<1>8. QED
  BY <1>2, <1>3, <1>4, <1>5, <1>6, <1>7 DEF Next

\* Initially there is no session, no request and no body.
LEMMA InitKeys == Init => \A u \in Upload : KeySafe(u)
<1> SUFFICES ASSUME Init, NEW u \in Upload PROVE KeySafe(u)
  OBVIOUS
<1>1. KeyRow(u)
  BY DEF Init, KeyRow, NoSession, Pending, Garbaged, Ended
<1>2. KeyDrains(u)
  BY DEF Init, KeyDrains, IdleDrain
<1>3. QED
  BY <1>1, <1>2 DEF KeySafe

\* KeyInv holds in every reachable state.
THEOREM KeysInvariance == Spec => []KeyInv
<1> DEFINE Keys == \A u \in Upload : KeySafe(u)
<1>1. Init => Keys
  BY InitKeys
<1>2. IInv /\ TypeOK' /\ Keys /\ [Next]_vars => Keys'
  BY StepKeepsKeys
<1>3. IInv => (KeyInv <=> Keys)
  BY KeyInvByKey DEF KeySafe
<1> HIDE DEF Keys
<1>4. QED
  BY <1>1, <1>2, <1>3, Invariance, TypeCorrect, PTL DEF Spec

\* No body is left in the bucket without a row that keeps it alive or leads to
\* its deletion: not by a commit that failed, was rejected, came too late or was
\* cut off, not by a PUT that lands late, a drain that fails or an eviction.
THEOREM NothingOrphaned == Spec => []NoOrphanBody
<1>1. KeyInv => NoOrphanBody
  BY DEF KeyInv
<1>2. QED
  BY <1>1, KeysInvariance, PTL

----------------------------------------------------------------------------
(* The alarm. Storage calls of a Durable Object are answered before the     *)
(* next event is delivered, so two calls that arm the alarm do not overlap  *)
(* unless one event starts both.                                            *)

OneArmingCall == MaxArms <= 1 /\ HostTimes = {}

\* A nonempty set of times has an earliest one, which is one of them.
LEMMA MinIsLeast ==
    ASSUME NEW S, S \subseteq Nat, S # {}
    PROVE  Min(S) \in S /\ \A t \in S : Min(S) <= t
<1>1. PICK x \in S : \A y \in S : <<y, x>> \notin OpToRel(<, Nat)
  BY NatLessThanWellFounded, WFMin, Zenon
<1>2. \A y \in S : ~(y < x)
  BY <1>1, Zenon DEF OpToRel
<1>3. \A y \in S : x =< y
  BY <1>2
<1>4. QED
  BY <1>3 DEF Min

\* What is due, and when, is known for well-typed states.
LEMMA DueTypes ==
    ASSUME TypeOK
    PROVE  /\ DueTimes(session, gc) \subseteq Nat /\ now \in Nat
           /\ alarm \in Nat \cup {None} /\ None \notin Nat
<1>1. session \in Sessions /\ gc \in Queues /\ now \in Nat /\ alarm \in Nat \cup {None}
  BY DEF TypeOK, Sessions, Queues
<1>2. QED
  BY <1>1, DueTimesAreTimes, SetsAssumption

\* An arming call starts from the work as it is now, and alone.
LEMMA ScheduleArms ==
    ASSUME TypeOK, TypeOK', OneArmingCall, NEW owner,
           ScheduleAlarm(owner, session', gc'), alarm' = alarm
    PROVE  AlarmInv'
<1>1. /\ Len(arms) < MaxArms /\ arms \in Seq(Arm) /\ unarmed' = FALSE
      /\ DueTimes(session', gc') = DueTimes(session, gc)'
  BY DEF ScheduleAlarm, TypeOK, DueTimes
<1>2. arms = <<>>
  BY <1>1, TimesAssumption DEF OneArmingCall
<1>3. CASE DueTimes(session', gc') = {}
  BY <1>1, <1>2, <1>3 DEF ScheduleAlarm, AlarmInv, ArmIsFresh, Covered
<1>4. CASE DueTimes(session', gc') # {}
  <2> DEFINE first == Min(DueTimes(session', gc'))
             a == [owner |-> owner, due |-> first, seen |-> alarm]
  <2>1. arms' = <<a>>
    BY <1>1, <1>2, <1>4 DEF ScheduleAlarm
  <2>2. Len(arms') = 1 /\ Head(arms') = a /\ arms' # <<>>
    BY <2>1
  <2>3. \A t \in DueTimes(session', gc') : first <= t
    <3>1. DueTimes(session', gc') \subseteq Nat
      BY DueTimesAreTimes DEF TypeOK, Sessions, Queues
    <3>2. QED
      BY <1>4, <3>1, MinIsLeast
  <2>4. a.due = first /\ a.seen = alarm
    OBVIOUS
  <2> HIDE DEF a, first
  <2>5. ArmIsFresh'
    BY <1>1, <2>2, <2>3, <2>4 DEF ArmIsFresh
  <2>6. QED
    BY <2>2, <2>5 DEF AlarmInv
<1>5. QED
  BY <1>3, <1>4

\* Neither the work nor the alarm changes, and no woken handler stops.
LEMMA AlarmStays ==
    ASSUME TypeOK, TypeOK', AlarmInv, Woken => Woken', now <= now',
           \A t \in DueTimes(session', gc') :
               t \in DueTimes(session, gc) \/ \E s \in DueTimes(session, gc) : s <= now,
           UNCHANGED <<alarm, arms, unarmed>>
    PROVE  AlarmInv'
<1>1. DueTimes(session', gc') = DueTimes(session, gc)'
  BY DEF DueTimes
<1>2. /\ DueTimes(session, gc) \subseteq Nat /\ now \in Nat /\ now' \in Nat
      /\ alarm \in Nat \cup {None} /\ None \notin Nat
  BY DueTypes DEF TypeOK
<1>3. ArmIsFresh'
  <2> SUFFICES ASSUME arms # <<>>
               PROVE  /\ \A t \in DueTimes(session', gc') :
                             Head(arms).due <= t \/ Head(arms).due <= now'
                      /\ Head(arms).seen = alarm \/ Woken'
    BY <1>1 DEF ArmIsFresh
  <2>1. /\ \A t \in DueTimes(session, gc) : Head(arms).due <= t \/ Head(arms).due <= now
        /\ Head(arms).seen = alarm \/ Woken
    BY DEF AlarmInv, ArmIsFresh
  <2>2. Head(arms).due \in Nat
    <3>1. arms \in Seq(Arm)
      BY DEF TypeOK
    <3>2. Head(arms) \in Arm
      BY <3>1, HeadTailProperties
    <3>3. QED
      BY <3>2 DEF Arm
  <2>3. QED
    BY <1>2, <2>1, <2>2
<1>4. Covered => Covered'
  BY <1>1, <1>2 DEF Covered
<1>5. QED
  BY <1>3, <1>4 DEF AlarmInv

\* When the work, the calls and the drains are as before, the alarm covers it.
LEMMA AlarmUnmoved ==
    ASSUME TypeOK, TypeOK', AlarmInv, now <= now',
           UNCHANGED <<session, gc, alarm, arms, unarmed>>,
           \A d \in Drain : drain[d].byAlarm /\ drain[d].pc # "arming"
                               => drain'[d].byAlarm /\ drain'[d].pc # "arming"
    PROVE  AlarmInv'
<1>1. Woken => Woken'
  BY DEF Woken
<1>2. QED
  BY <1>1, AlarmStays

\* The platform clears the slot and wakes a handler.
LEMMA FireKeeps ==
    ASSUME TypeOK, TypeOK', AlarmInv, NEW d \in Drain, FireAlarm(d)
    PROVE  AlarmInv'
<1>1. drain'[d].byAlarm /\ drain'[d].pc = "fired"
  BY DEF FireAlarm, IdleDrain, TypeOK
<1>2. Woken'
  BY <1>1 DEF Woken
<1>3. /\ UNCHANGED <<now, session, gc, arms>>
      /\ DueTimes(session, gc)' = DueTimes(session, gc)
  BY DEF FireAlarm, rows, DueTimes
<1>4. QED
  BY <1>2, <1>3 DEF AlarmInv, ArmIsFresh

\* The one arming call resumes: the alarm comes no later than the time it
\* brought, unless a handler that runs now will see to it.
LEMMA ArmKeeps ==
    ASSUME TypeOK, TypeOK', AlarmInv, ArmAlarm
    PROVE  AlarmInv'
<1> DEFINE a == Head(arms)
<1>1. arms # <<>> /\ arms \in Seq(Arm) /\ Len(arms) <= 1
  BY DEF ArmAlarm, AlarmInv, TypeOK
<1>2. /\ a \in Arm /\ arms' = Tail(arms) /\ Len(arms) \in Nat
      /\ arms' \in Seq(Arm) /\ Len(arms') = Len(arms) - 1
  BY <1>1, HeadTailProperties DEF ArmAlarm
<1>3. a.due \in Nat /\ a.seen \in Nat \cup {None}
  BY <1>2 DEF Arm
<1>4. arms' = <<>> /\ Len(arms') <= 1
  BY <1>1, <1>2
<1>5. /\ \A t \in DueTimes(session, gc) : a.due <= t \/ a.due <= now
      /\ a.seen = alarm \/ Woken
  BY <1>1 DEF AlarmInv, ArmIsFresh
<1>6. /\ alarm' = IF a.seen = None \/ a.due < a.seen THEN a.due ELSE alarm
      /\ DueTimes(session, gc)' = DueTimes(session, gc) /\ UNCHANGED <<now, unarmed>>
  BY DEF ArmAlarm, rows, DueTimes
<1>7. DueTimes(session, gc) \subseteq Nat /\ now \in Nat /\ None \notin Nat
  BY DueTypes
<1> HIDE DEF a
<1>8. CASE Woken
  <2>1. PICK d \in Drain : drain[d].byAlarm /\ drain[d].pc # "arming"
    BY <1>8 DEF Woken
  <2>2. drain'[d] = drain[d]
    BY <2>1 DEF ArmAlarm
  <2>3. Woken'
    BY <2>1, <2>2 DEF Woken
  <2>4. QED
    BY <1>4, <2>3 DEF AlarmInv, ArmIsFresh
<1>9. CASE a.seen = alarm
  <2>1. alarm' \in Nat /\ alarm' <= a.due
    BY <1>3, <1>6, <1>7, <1>9
  <2>2. Covered'
    BY <1>3, <1>5, <1>6, <1>7, <2>1 DEF Covered
  <2>3. QED
    BY <1>4, <2>2 DEF AlarmInv, ArmIsFresh
<1>10. QED
  BY <1>5, <1>8, <1>9

\* An eviction ends the calls; an alarm handler that did not finish is due.
LEMMA CrashKeeps ==
    ASSUME TypeOK, TypeOK', AlarmInv, Crash
    PROVE  AlarmInv'
<1>1. /\ arms' = <<>> /\ Len(arms') <= 1
      /\ unarmed' = (unarmed \/ arms # <<>>)
      /\ alarm' = IF \E d \in Drain : drain[d].byAlarm THEN now ELSE alarm
      /\ now' = now /\ DueTimes(session, gc)' = DueTimes(session, gc)
  BY DEF Crash, rows, DueTimes
<1>2. DueTimes(session, gc) \subseteq Nat /\ now \in Nat /\ None \notin Nat
  BY DueTypes
<1>3. CASE \E d \in Drain : drain[d].byAlarm
  <2>1. Covered'
    BY <1>1, <1>2, <1>3 DEF Covered
  <2>2. QED
    BY <1>1, <2>1 DEF AlarmInv, ArmIsFresh
<1>4. CASE ~\E d \in Drain : drain[d].byAlarm
  <2>1. ~Woken /\ alarm' = alarm
    BY <1>1, <1>4 DEF Woken
  <2>2. arms = <<>> /\ ~unarmed => Covered'
    BY <1>1, <2>1 DEF AlarmInv, Covered
  <2>3. ~unarmed' => ~unarmed /\ arms = <<>>
    BY <1>1
  <2>4. QED
    BY <1>1, <2>2, <2>3 DEF AlarmInv, ArmIsFresh
<1>5. QED
  BY <1>3, <1>4

\* A drain that goes on to delete has only brought work forward that was due.
LEMMA DrainGarbageAlarm ==
    ASSUME TypeOK, TypeOK', AlarmInv, OneArmingCall, NEW d \in Drain, DrainGarbage(d)
    PROVE  AlarmInv'
<1> DEFINE Queue(expired) ==
              [u \in Upload |-> IF u \in expired
                  THEN QueueGarbage(gc, u, Later(now, session[u].expires + Grace))[u]
                  ELSE gc[u]]
<1>1. PICK expired \in SUBSET ExpiredSessions, keys \in SUBSET DueKeys(gc') :
          /\ gc' = Queue(expired)
          /\ session' = [u \in Upload |-> IF u \in expired
               THEN [session[u] EXCEPT !.state = "garbage", !.verifier = None, !.lease = 0]
               ELSE IF session[u].state = "committed" /\ session[u].expires <= now
               THEN DeletedSession("forgotten") ELSE session[u]]
          /\ IF keys = {} THEN Rearm(d, drain[d], gc')
             ELSE /\ drain' = [drain EXCEPT ![d] = [drain[d] EXCEPT
                                   !.pc = "deleting", !.keys = keys, !.start = now]]
                  /\ KeepAlarm
  BY DEF DrainGarbage, Batches
<1>2. UNCHANGED <<now, alarm>> /\ now \in Nat
  BY DEF DrainGarbage, TypeOK
<1>3. CASE keys = {}
  BY <1>1, <1>2, <1>3, ScheduleArms DEF Rearm
<1>4. CASE keys # {}
  <2>1. /\ drain' = [drain EXCEPT ![d] = [drain[d] EXCEPT !.pc = "deleting", !.keys = keys,
                                                          !.start = now]]
        /\ KeepAlarm
    BY <1>1, <1>4
  <2>2. UNCHANGED <<now, alarm, arms, unarmed>> /\ now <= now'
    BY <1>2, <2>1 DEF KeepAlarm
  <2>3. Woken => Woken'
    <3>1. drain[d] \in DrainCall /\ drain \in [Drain -> DrainCall]
      BY DEF TypeOK
    <3>2. drain'[d] = [drain[d] EXCEPT !.pc = "deleting", !.keys = keys, !.start = now]
      BY <2>1, <3>1
    <3>3. drain'[d].pc = "deleting" /\ drain'[d].byAlarm = drain[d].byAlarm
      BY <3>1, <3>2 DEF DrainCall
    <3>4. \A e \in Drain : e # d => drain'[e] = drain[e]
      BY <2>1, <3>1
    <3>5. QED
      BY <3>3, <3>4 DEF Woken
  <2>4. CASE expired = {}
    <3>1. gc' = gc
      BY <1>1, <2>4 DEF TypeOK
    <3>2. \A u \in Upload : session'[u].state \in {"open", "verifying", "committed"}
                               => session'[u] = session[u]
      BY <1>1, <2>4 DEF DeletedSession, NoSession
    <3>3. \A t \in DueTimes(session', gc') : t \in DueTimes(session, gc)
      BY <3>1, <3>2 DEF DueTimes
    <3>4. QED
      BY <2>2, <2>3, <3>3, AlarmStays
  <2>5. CASE expired # {}
    <3>1. PICK u \in Upload : \/ session[u].state = "open" /\ session[u].expires <= now
                              \/ session[u].state = "verifying" /\ session[u].lease <= now
      BY <2>5 DEF ExpiredSessions
    <3>2. \E t \in DueTimes(session, gc) : t <= now
      BY <3>1 DEF DueTimes
    <3>3. QED
      BY <2>2, <2>3, <3>2, AlarmStays
  <2>6. QED
    BY <2>4, <2>5
<1>5. QED
  BY <1>3, <1>4

\* A namespace transaction arms the alarm when it queued a key.
LEMMA RebindAlarm ==
    ASSUME TypeOK, TypeOK', AlarmInv, OneArmingCall, NEW paths, NEW names,
           Rebind(paths, names)
    PROVE  AlarmInv'
<1> DEFINE released == Released({entry[p] : p \in paths}, names)
<1>1. /\ gc' = QueueWith(released)
      /\ IF released = {} THEN KeepAlarm ELSE ScheduleAlarm(None, session, gc')
      /\ UNCHANGED <<now, session, alarm, drain>> /\ now \in Nat
  BY DEF Rebind, calls, TypeOK
<1> HIDE DEF released
<1>2. CASE released = {}
  <2>1. gc' = gc
    BY <1>1, <1>2 DEF QueueWith, TypeOK
  <2>2. QED
    BY <1>1, <1>2, <2>1, AlarmUnmoved DEF KeepAlarm
<1>3. CASE released # {}
  BY <1>1, <1>3, ScheduleArms
<1>4. QED
  BY <1>2, <1>3

\* Whatever step is taken, the work stays covered.
LEMMA StepKeepsAlarm ==
    ASSUME TypeOK, TypeOK', AlarmInv, OneArmingCall, [Next]_vars
    PROVE  AlarmInv'
<1>1. now \in Nat
  BY DEF TypeOK
<1>2. CASE Namespace
  <2>1. CASE \E paths, names : Rebind(paths, names)
    BY <2>1, RebindAlarm
  <2>2. CASE \E p \in Path : ResolveOpaqueRead(p)
    BY <1>1, <2>2, AlarmUnmoved DEF ResolveOpaqueRead, KeepAlarm, calls
  <2>3. QED
    BY <1>2, <2>1, <2>2 DEF Namespace, WriteFile, Remove, RemoveSubtree, Move, Copy
<1>3. CASE Uploads
  <2>1. alarm' = alarm /\ \E owner : ScheduleAlarm(owner, session', gc')
    BY <1>3 DEF Uploads, BeginOpaqueUpload, AbortOpaqueUpload, CommitExpired,
                CommitReceiptExpired, ClaimVerification
  <2>2. QED
    BY <2>1, ScheduleArms
<1>4. CASE Commits
  <2> SUFFICES ASSUME NEW c \in Caller,
                      \/ HeadObject(c) \/ CommitFails(c) \/ RejectMetadata(c)
                      \/ RejectLeaseLost(c) \/ CommitStale(c) \/ CommitPublishes(c)
               PROVE  AlarmInv'
    BY <1>4 DEF Commits
  <2>1. CASE HeadObject(c) \/ RejectLeaseLost(c)
    BY <1>1, <2>1, AlarmUnmoved DEF HeadObject, RejectLeaseLost, KeepAlarm, rows
  <2>2. CASE CommitFails(c) \/ RejectMetadata(c) \/ CommitStale(c) \/ CommitPublishes(c)
    <3>1. alarm' = alarm /\ ScheduleAlarm(None, session', gc')
      BY <2>2 DEF CommitFails, RejectMetadata, CommitStale, CommitPublishes
    <3>2. QED
      BY <3>1, ScheduleArms
  <2>3. QED
    BY <2>1, <2>2
<1>5. CASE Drains
  <2> SUFFICES ASSUME NEW d \in Drain,
                      \/ FireAlarm(d) \/ DrainGarbage(d) \/ DeleteBodies(d)
                      \/ DeleteBodiesFails(d) \/ SettleDrain(d) \/ BackOffDrain(d)
               PROVE  AlarmInv'
    BY <1>5 DEF Drains
  <2>1. CASE DeleteBodies(d) \/ DeleteBodiesFails(d)
    <3>1. PICK pc \in {"deleted", "failed"} : drain' = [drain EXCEPT ![d].pc = pc]
      BY <2>1 DEF DeleteBodies, DeleteBodiesFails
    <3>2. \A e \in Drain : drain[e].byAlarm /\ drain[e].pc # "arming"
                              => drain'[e].byAlarm /\ drain'[e].pc # "arming"
      BY <3>1 DEF TypeOK, DrainCall
    <3>3. UNCHANGED <<now, session, gc, alarm, arms, unarmed>>
      BY <2>1 DEF DeleteBodies, DeleteBodiesFails, rows
    <3>4. QED
      BY <1>1, <3>2, <3>3, AlarmUnmoved
  <2>2. CASE SettleDrain(d) \/ BackOffDrain(d)
    <3>1. alarm' = alarm /\ ScheduleAlarm(d, session', gc')
      BY <2>2 DEF SettleDrain, BackOffDrain, Rearm
    <3>2. QED
      BY <3>1, ScheduleArms
  <2>3. QED
    BY <2>1, <2>2, FireKeeps, DrainGarbageAlarm
<1>6. CASE ArmAlarm
  BY <1>6, ArmKeeps
<1>7. CASE Environment
  <2>1. CASE Tick \/ \E u \in Upload : StartPut(u) \/ LandPut(u)
    <3>1. now <= now'
      BY <1>1, <2>1 DEF Tick, StartPut, LandPut
    <3>2. UNCHANGED <<session, gc, alarm, arms, unarmed, drain>>
      BY <2>1 DEF Tick, StartPut, LandPut, rows, calls
    <3>3. QED
      BY <3>1, <3>2, AlarmUnmoved
  <2>2. CASE Crash
    BY <2>2, CrashKeeps
  <2>3. QED
    BY <1>7, <2>1, <2>2 DEF Environment, OneArmingCall
<1>8. CASE UNCHANGED vars
  BY <1>1, <1>8, AlarmUnmoved DEF vars, rows, calls
<1>9. QED
  BY <1>2, <1>3, <1>4, <1>5, <1>6, <1>7, <1>8 DEF Next

\* When arming calls do not overlap and the host leaves the slot alone, all work
\* is covered whenever no arming call is pending and no alarm handler runs: the
\* alarm is set no later than the earliest deadline, or is due, whatever drains,
\* fails or is added meanwhile; but for what an eviction cut off.
THEOREM AlarmIsSet == OneArmingCall => (Spec => []AlarmCovers)
<1> SUFFICES ASSUME OneArmingCall PROVE Spec => []AlarmCovers
  OBVIOUS
<1>1. Init => AlarmInv
  <2> SUFFICES ASSUME Init PROVE AlarmInv
    OBVIOUS
  <2>1. DueTimes(session, gc) = {}
    BY DEF Init, DueTimes, NoSession
  <2>2. QED
    BY <2>1 DEF Init, AlarmInv, ArmIsFresh, Covered
<1>2. TypeOK /\ TypeOK' /\ AlarmInv /\ [Next]_vars => AlarmInv'
  BY StepKeepsAlarm
<1>3. AlarmInv => AlarmCovers
  BY DEF AlarmInv, AlarmCovers, Covered, Woken
<1>4. QED
  BY <1>1, <1>2, <1>3, TypeCorrect, PTL DEF Spec

=============================================================================
