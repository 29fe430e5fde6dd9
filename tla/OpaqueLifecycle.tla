-------------------------- MODULE OpaqueLifecycle --------------------------
(***************************************************************************)
(* Opaque files of cf-vfs: large bodies that live in R2 under random keys  *)
(* while a SQLite database in one Durable Object holds the names, the      *)
(* upload sessions, the object rows, the garbage queue and the one alarm   *)
(* that drives maintenance (src/vfs/sql-opaque-start-base.ts,              *)
(* sql-opaque-commit-base.ts, sql-gc-base.ts, sql-write-plan-base.ts).     *)
(*                                                                         *)
(* A synchronous SQL transaction and everything the code does up to its    *)
(* next await is one action; each await (R2 HEAD, R2 delete, getAlarm) is  *)
(* a point where every other call may run.                                 *)
(*                                                                         *)
(* Simplifications.                                                        *)
(*  - A session identifier and the R2 key reserved with it are both fresh  *)
(*    random values: one element of Upload stands for the pair.            *)
(*  - Paths are names without structure. Subtrees gives the sets of files  *)
(*    that a recursive removal can take at once.                           *)
(*  - A mutation token is the path's version (the epoch never changes).    *)
(*  - Verification tokens are fresh, so the identity of the commit call    *)
(*    that drew one stands for it.                                         *)
(*  - Calls that fail or answer without changing any state are no action.  *)
(***************************************************************************)
EXTENDS Integers, FiniteSets, FiniteSetsExt, Sequences

CONSTANTS
    Path,            \* names in the workspace
    Subtrees,        \* sets of names that a recursive removal covers
    Upload,          \* upload session = R2 key
    Caller,          \* concurrent commitOpaqueUpload calls
    Drain,           \* concurrent drainGarbage calls
    Ttl,             \* expiresInMs of a reservation
    VerifyLease,     \* DEFAULT_VERIFY_LEASE_MS
    Grace,           \* uploadSettlementGraceMs
    Retention,       \* receiptRetentionMs
    ReadLease,       \* leaseMs of resolveOpaqueRead, after its cap
    Batch,           \* MAX_GC_BATCH
    BackoffCap       \* bound on the exponential backoff

\* Bounds of the model, none of them in the code.
CONSTANTS
    MaxTime,         \* the clock stops here
    LastOp,          \* no reservation and no read lease starts after this time
    MaxVersion,      \* inline writes, moves, copies and removals stop here
    MaxPuts,         \* PUT requests a client sends for one reservation
    MaxArms,         \* calls to scheduleGarbageAlarm in flight at once
    MaxFaults,       \* failed R2 deletes
    MaxCrashes,      \* evictions of the Durable Object
    HostTimes        \* times at which the host may set the shared alarm

CONSTANTS None, Inline, NoRow

GcRow == [notBefore : Nat, attempts : Nat, next : Nat]

ASSUME SetsAssumption ==
    /\ None \notin Upload \cup Caller \cup Drain
    /\ Caller \cap Drain = {} /\ Upload \cap (Caller \cup Drain) = {}
    /\ Inline \notin Upload /\ Inline # None /\ None \notin Int
    /\ NoRow \notin Int /\ NoRow \notin GcRow
    /\ Subtrees \subseteq SUBSET Path
    /\ HostTimes \subseteq Nat

ASSUME TimesAssumption ==
    /\ {Ttl, VerifyLease, Grace, Retention, ReadLease, Batch, BackoffCap} \subseteq Nat \ {0}
    /\ {MaxTime, LastOp, MaxVersion, MaxPuts, MaxArms, MaxFaults, MaxCrashes} \subseteq Nat

VARIABLES
    now,        \* Date.now()
    \* rows of the database
    entry,      \* vfs_entries: what each path names
    version,    \* mutation_version of the entry or of its tombstone
    session,    \* vfs_upload_sessions
    object,     \* vfs_opaque_objects: retain_until_ms, or NoRow
    gc,         \* vfs_gc_queue
    alarm,      \* the Durable Object's alarm
    \* outside the database
    r2,         \* keys that have a body in the bucket
    inflight,   \* PUT requests under way
    sent,       \* PUT requests sent so far
    reserved,   \* sessions whose reservation reached the client
    \* memory of the Durable Object
    call,       \* commitOpaqueUpload calls
    drain,      \* drainGarbage calls
    arms,       \* scheduleGarbageAlarm calls that await getAlarm(), in order
    \* what the environment has done
    faults, crashes,
    \* history, read by properties only
    authority,  \* when the client's right to PUT ends
    touched,    \* sessions whose path changed after they were reserved
    granted,    \* end of the longest read lease handed out
    unarmed,    \* an eviction dropped a scheduleGarbageAlarm call
    hostTimer   \* the time the host set the alarm to, until it has been served

rows == <<entry, version, session, object, gc>>
store == <<r2, inflight, sent, reserved>>
calls == <<call, drain>>
env == <<faults, crashes>>
history == <<authority, touched, granted>>
vars == <<now, rows, alarm, store, calls, arms, env, history, unarmed, hostTimer>>

----------------------------------------------------------------------------
Later(a, b) == IF a > b THEN a ELSE b
Sooner(a, b) == IF a < b THEN a ELSE b

\* "none" before the session exists; "collected" and "forgotten" after its row is
\* deleted, with its body or because the receipt expired.
Body == Upload \cup {None, Inline}
SessionState == {"none", "open", "verifying", "committed", "garbage",
                 "collected", "forgotten"}
Session == [state : SessionState, path : Path \cup {None}, token : Nat,
            verifier : Caller \cup {None}, expires : Nat, lease : Nat]
HeadAnswer == {"none", "ok", "mismatch", "missing", "error"}
IdleCall == [pc |-> "idle", upload |-> None, head |-> "none"]
Call == {IdleCall} \cup [pc : {"arming", "head", "reply"}, upload : Upload, head : HeadAnswer]
DrainCall == [pc : {"idle", "fired", "deleting", "deleted", "failed", "arming"},
              keys : SUBSET Upload, start : Nat, byAlarm : BOOLEAN]
Arm == [owner : Upload \cup Caller \cup Drain \cup {None}, due : Nat, seen : Nat \cup {None}]

NoSession == [state |-> "none", path |-> None, token |-> 0, verifier |-> None,
              expires |-> 0, lease |-> 0]
DeletedSession(end) == [NoSession EXCEPT !.state = end]
IdleDrain == [pc |-> "idle", keys |-> {}, start |-> 0, byAlarm |-> FALSE]

Init ==
    /\ now = 0
    /\ entry = [p \in Path |-> None]
    /\ version = [p \in Path |-> 0]
    /\ session = [u \in Upload |-> NoSession]
    /\ object = [u \in Upload |-> NoRow]
    /\ gc = [u \in Upload |-> NoRow]
    /\ alarm = None
    /\ r2 = {}
    /\ inflight = [u \in Upload |-> 0]
    /\ sent = [u \in Upload |-> 0]
    /\ reserved = {}
    /\ call = [c \in Caller |-> IdleCall]
    /\ drain = [d \in Drain |-> IdleDrain]
    /\ arms = <<>>
    /\ faults = 0 /\ crashes = 0
    /\ authority = [u \in Upload |-> 0]
    /\ touched = {}
    /\ granted = [u \in Upload |-> 0]
    /\ unarmed = FALSE
    /\ hostTimer = None

----------------------------------------------------------------------------
(* scheduleGarbageAlarm: the earliest deadline is read in the same          *)
(* synchronous stretch as the transaction that called for it; the answer    *)
(* of getAlarm() and the setAlarm() that may follow come later, in order.   *)

\* Mutant: a reservation nobody commits is no reason to wake up.
DueTimesOfWork(sessions, queue) ==
    {Later(queue[u].notBefore, queue[u].next) : u \in {v \in Upload : queue[v] # NoRow}}
    \cup {sessions[u].lease : u \in {v \in Upload : sessions[v].state = "verifying"}}

DueTimes(sessions, queue) ==
    {Later(queue[u].notBefore, queue[u].next) : u \in {v \in Upload : queue[v] # NoRow}}
    \cup {sessions[u].expires : u \in {v \in Upload : sessions[v].state \in {"open", "committed"}}}
    \cup {sessions[u].lease : u \in {v \in Upload : sessions[v].state = "verifying"}}

ScheduleAlarm(owner, sessions, queue) ==
    /\ Len(arms) < MaxArms
    /\ arms' = IF DueTimes(sessions, queue) = {} THEN arms
               ELSE Append(arms, [owner |-> owner, due |-> Min(DueTimes(sessions, queue)),
                                  seen |-> alarm])
    /\ unarmed' = FALSE

KeepAlarm == UNCHANGED <<arms, unarmed>>

\* The earliest pending call resumes: an existing alarm is never moved later.
ArmAlarm ==
    /\ arms # <<>>
    /\ LET a == Head(arms) IN
        /\ alarm' = IF a.seen = None \/ a.due < a.seen THEN a.due ELSE alarm
        /\ call' = [c \in Caller |-> IF a.owner = c /\ call[c].pc = "arming"
                                     THEN [call[c] EXCEPT !.pc = "head"] ELSE call[c]]
        /\ drain' = [d \in Drain |-> IF a.owner = d /\ drain[d].pc = "arming"
                                     THEN IdleDrain ELSE drain[d]]
        /\ reserved' = reserved \cup ({a.owner} \cap Upload)
    /\ arms' = Tail(arms)
    /\ UNCHANGED <<now, rows, r2, inflight, sent, env, history, unarmed, hostTimer>>

----------------------------------------------------------------------------
(* Garbage rows.                                                            *)

\* queueGarbage: a key queued twice keeps the later of both deadlines.
QueueGarbage(queue, u, time) ==
    LET row == queue[u] IN
    [queue EXCEPT ![u] =
        IF row = NoRow THEN [notBefore |-> time, attempts |-> 0, next |-> time]
        ELSE [row EXCEPT !.notBefore = Later(row.notBefore, time),
                         !.next = Later(row.next, time)]]

\* Mutant: the settlement grace is left out.
QueueUploadGarbageAtExpiry(u) ==
    gc' = QueueGarbage(gc, u, Later(now, session[u].expires))

\* queueUploadGarbage: never before upload authority has expired and settled.
QueueUploadGarbage(u) ==
    gc' = QueueGarbage(gc, u, Later(now, session[u].expires + Grace))

\* Mutant: clears the wrong column.
GarbageWithoutExpiry(u) ==
    session' = [session EXCEPT ![u].state = "garbage", ![u].verifier = None, ![u].expires = None]

Garbage(u) ==
    session' = [session EXCEPT ![u].state = "garbage", ![u].verifier = None, ![u].lease = 0]

\* Mutant: forgets that a copy may share the object.
ReleasedWithCopies(gone, names) == {u \in gone \cap Upload : object[u] # NoRow}

\* queueObjectIfUnreferenced, for the objects that a change of the entries to
\* "names" let go of: the row goes, the key waits for the read leases.
Released(gone, names) ==
    {u \in gone \cap Upload : object[u] # NoRow /\ \A p \in Path : names[p] # u}

RowsWithout(released) == [u \in Upload |-> IF u \in released THEN NoRow ELSE object[u]]

\* Mutant: the keys do not wait for the read leases.
QueueAtOnce(released) ==
    [u \in Upload |-> IF u \in released THEN QueueGarbage(gc, u, now)[u] ELSE gc[u]]

QueueWith(released) ==
    [u \in Upload |-> IF u \in released
                      THEN QueueGarbage(gc, u, Later(now, object[u]))[u] ELSE gc[u]]

----------------------------------------------------------------------------
(* The namespace.                                                           *)

PublishTokens(paths) ==
    version' = [p \in Path |-> version[p] + IF p \in paths THEN 1 ELSE 0]

NoteTouched(paths) ==
    touched' = touched \cup {u \in Upload : /\ session[u].state \in {"open", "verifying"}
                                            /\ session[u].path \in paths}

\* One namespace transaction: the paths that change, what they name after it.
Rebind(paths, names) ==
    LET released == Released({entry[p] : p \in paths}, names) IN
    /\ \A p \in paths : version[p] < MaxVersion
    /\ entry' = names
    /\ PublishTokens(paths)
    /\ NoteTouched(paths)
    /\ object' = RowsWithout(released)
    /\ gc' = QueueWith(released)
    /\ IF released = {} THEN KeepAlarm ELSE ScheduleAlarm(None, session, gc')
    /\ UNCHANGED <<now, session, alarm, store, calls, env, authority, granted, hostTimer>>

WriteFile(p) == Rebind({p}, [entry EXCEPT ![p] = Inline])

Remove(p) ==
    /\ entry[p] # None
    /\ Rebind({p}, [entry EXCEPT ![p] = None])

RemoveSubtree(tree) ==
    LET present == {p \in tree : entry[p] # None} IN
    /\ present # {}
    /\ Rebind(present, [p \in Path |-> IF p \in tree THEN None ELSE entry[p]])

Move(p, q) ==
    /\ p # q /\ entry[p] # None
    /\ Rebind({p, q}, [entry EXCEPT ![p] = None, ![q] = entry[p]])

Copy(p, q) ==
    /\ p # q /\ entry[p] # None
    /\ Rebind({q}, [entry EXCEPT ![q] = entry[p]])

\* resolveOpaqueRead: the lease only ever extends the retention time.
ResolveOpaqueRead(p) ==
    LET u == entry[p] IN
    /\ now <= LastOp
    /\ u \in Upload
    /\ object[u] # NoRow
    /\ object' = [object EXCEPT ![u] = Later(@, now + ReadLease)]
    /\ granted' = [granted EXCEPT ![u] = Later(@, now + ReadLease)]
    /\ KeepAlarm
    /\ UNCHANGED <<now, entry, version, session, gc, alarm, store, calls, env,
                   authority, touched, hostTimer>>

----------------------------------------------------------------------------
(* Upload sessions.                                                         *)

BeginOpaqueUpload(u, p) ==
    /\ now <= LastOp
    /\ session[u] = NoSession
    /\ session' = [session EXCEPT ![u] =
          [state |-> "open", path |-> p, token |-> version[p], verifier |-> None,
           expires |-> now + Ttl, lease |-> 0]]
    /\ authority' = [authority EXCEPT ![u] = now + Ttl]
    /\ ScheduleAlarm(u, session', gc)
    /\ UNCHANGED <<now, entry, version, object, gc, alarm, store, calls, env,
                   touched, granted, hostTimer>>

AbortOpaqueUpload(u) ==
    /\ u \in reserved
    /\ session[u].state \in {"open", "verifying"}
    /\ Garbage(u)
    /\ QueueUploadGarbage(u)
    /\ ScheduleAlarm(None, session', gc')
    /\ UNCHANGED <<now, entry, version, object, alarm, store, calls, env, history, hostTimer>>

\* beginOpaqueVerification of a commit that comes too late; the verification
\* token stays in the row.
CommitExpired(u) ==
    /\ u \in reserved
    /\ session[u].state \in {"open", "verifying"}
    /\ session[u].expires <= now
    /\ session' = [session EXCEPT ![u].state = "garbage"]
    /\ QueueUploadGarbage(u)
    /\ ScheduleAlarm(None, session', gc')
    /\ UNCHANGED <<now, entry, version, object, alarm, store, calls, env, history, hostTimer>>

\* beginOpaqueVerification of a retry whose receipt has expired.
CommitReceiptExpired(u) ==
    /\ u \in reserved
    /\ session[u].state = "committed"
    /\ session[u].expires <= now
    /\ session' = [session EXCEPT ![u] = DeletedSession("forgotten")]
    /\ ScheduleAlarm(None, session', gc)
    /\ UNCHANGED <<now, entry, version, object, gc, alarm, store, calls, env, history, hostTimer>>

\* beginOpaqueVerification: an open session, or one whose verifier let its
\* lease run out, is claimed under a new token.
ClaimVerification(c, u) ==
    /\ call[c].pc = "idle" /\ u \in reserved
    /\ \/ session[u].state = "open"
       \/ session[u].state = "verifying" /\ session[u].lease <= now
    /\ session[u].expires > now
    /\ session' = [session EXCEPT ![u].state = "verifying", ![u].verifier = c,
                                  ![u].lease = now + VerifyLease]
    /\ call' = [call EXCEPT ![c] = [pc |-> "arming", upload |-> u, head |-> "none"]]
    /\ ScheduleAlarm(c, session', gc)
    /\ UNCHANGED <<now, entry, version, object, gc, alarm, store, drain, env, history, hostTimer>>

\* store.head(): R2 answers now, the answer reaches the object later.
HeadObject(c) ==
    /\ call[c].pc = "head"
    /\ \E answer \in (IF call[c].upload \in r2 THEN {"ok", "mismatch"} ELSE {"missing"}) \cup {"error"} :
          call' = [call EXCEPT ![c].pc = "reply", ![c].head = answer]
    /\ UNCHANGED <<now, rows, alarm, store, drain, arms, env, history, unarmed, hostTimer>>

Holds(c, u) == session[u].state = "verifying" /\ session[u].verifier = c

Finish(c) == call' = [call EXCEPT ![c] = IdleCall]

\* Mutant: reopens without looking whose verification it is.
ResetAnyVerification(c, u) ==
    session' = [session EXCEPT ![u].state = "open", ![u].verifier = None, ![u].lease = 0]

\* resetOpaqueVerification: only the holder's own token reopens the session.
ResetVerification(c, u) ==
    session' = IF Holds(c, u)
               THEN [session EXCEPT ![u].state = "open", ![u].verifier = None, ![u].lease = 0]
               ELSE session

\* The head failed, or the second transaction threw and rolled back: quota,
\* missing parent, or a verification lease that was lost in the meantime.
CommitFails(c) ==
    LET u == call[c].upload IN
    /\ call[c].pc = "reply" /\ call[c].head \in {"error", "ok"}
    /\ ResetVerification(c, u)
    /\ Finish(c)
    /\ ScheduleAlarm(None, session', gc)
    /\ UNCHANGED <<now, entry, version, object, gc, alarm, store, drain, env, history, hostTimer>>

\* Mutant: rejects whoever holds the lease now.
RejectMetadataBlindly(c) ==
    LET u == call[c].upload IN
    /\ call[c].pc = "reply" /\ call[c].head \in {"missing", "mismatch"}
    /\ Garbage(u)
    /\ QueueUploadGarbage(u)
    /\ Finish(c)
    /\ ScheduleAlarm(None, session', gc')
    /\ UNCHANGED <<now, entry, version, object, alarm, store, drain, env, history, hostTimer>>

\* rejectOpaqueMetadata: markUploadGarbage acts for the holder of the lease.
RejectMetadata(c) ==
    LET u == call[c].upload IN
    /\ call[c].pc = "reply" /\ call[c].head \in {"missing", "mismatch"}
    /\ Holds(c, u)
    /\ Garbage(u)
    /\ QueueUploadGarbage(u)
    /\ Finish(c)
    /\ ScheduleAlarm(None, session', gc')
    /\ UNCHANGED <<now, entry, version, object, alarm, store, drain, env, history, hostTimer>>

RejectLeaseLost(c) ==
    /\ call[c].pc = "reply" /\ call[c].head \in {"missing", "mismatch"}
    /\ ~Holds(c, call[c].upload)
    /\ Finish(c)
    /\ KeepAlarm
    /\ UNCHANGED <<now, rows, alarm, store, drain, env, history, hostTimer>>

InTime(u) == session[u].expires > now /\ session[u].lease > now

\* Mutant: a path that names nothing counts as unchanged.
PathUnchangedIfPresent(u) ==
    entry[session[u].path] # None => version[session[u].path] = session[u].token

PathUnchanged(u) == version[session[u].path] = session[u].token

\* commitVerifiedOpaqueUpload, the stale and expired ends.
CommitStale(c) ==
    LET u == call[c].upload IN
    /\ call[c].pc = "reply" /\ call[c].head = "ok"
    /\ Holds(c, u)
    /\ ~InTime(u) \/ ~PathUnchanged(u)
    /\ Garbage(u)
    /\ QueueUploadGarbage(u)
    /\ Finish(c)
    /\ ScheduleAlarm(None, session', gc')
    /\ UNCHANGED <<now, entry, version, object, alarm, store, drain, env, history, hostTimer>>

\* commitVerifiedOpaqueUpload: object row, entry, token and receipt at once.
CommitPublishes(c) ==
    LET u == call[c].upload
        p == session[u].path
        names == [entry EXCEPT ![p] = u]
        released == Released({entry[p]}, names)
    IN
    /\ call[c].pc = "reply" /\ call[c].head = "ok"
    /\ Holds(c, u)
    /\ InTime(u) /\ PathUnchanged(u)
    /\ entry' = names
    /\ PublishTokens({p})
    /\ NoteTouched({p})
    /\ object' = [RowsWithout(released) EXCEPT ![u] = 0]
    /\ gc' = QueueWith(released)
    /\ session' = [session EXCEPT ![u].state = "committed", ![u].verifier = None,
                                  ![u].lease = 0, ![u].expires = now + Retention]
    /\ Finish(c)
    /\ ScheduleAlarm(None, session', gc')
    /\ UNCHANGED <<now, alarm, store, drain, env, authority, granted, hostTimer>>

----------------------------------------------------------------------------
(* Maintenance: drainGarbage, from the alarm or from a caller.              *)

ExpiredSessions ==
    {u \in Upload : \/ session[u].state = "open" /\ session[u].expires <= now
                    \/ session[u].state = "verifying" /\ session[u].lease <= now}

DueKeys(queue) ==
    {u \in Upload : queue[u] # NoRow /\ queue[u].notBefore <= now /\ queue[u].next <= now}

\* ORDER BY next_attempt_at_ms, not_before_ms
Before(queue, u, v) ==
    \/ queue[u].next < queue[v].next
    \/ queue[u].next = queue[v].next /\ queue[u].notBefore <= queue[v].notBefore

\* What LIMIT lets through.
Batches(S) == {T \in SUBSET S : Cardinality(T) = Sooner(Batch, Cardinality(S))}

\* The platform clears the slot before it runs alarm().
FireAlarm(d) ==
    /\ drain[d].pc = "idle"
    /\ \A e \in Drain : ~drain[e].byAlarm
    /\ alarm # None /\ alarm <= now
    /\ alarm' = None
    /\ hostTimer' = IF hostTimer = None \/ hostTimer <= now THEN None ELSE hostTimer
    /\ drain' = [drain EXCEPT ![d] = [IdleDrain EXCEPT !.pc = "fired", !.byAlarm = TRUE]]
    /\ UNCHANGED <<now, rows, store, call, arms, env, history, unarmed>>

\* Mutant: the alarm is not armed for what a drain leaves behind.
RearmNothing(d, record, queue) == drain' = [drain EXCEPT ![d] = IdleDrain] /\ KeepAlarm

\* After its last transaction a drain waits for its alarm to be armed.
Rearm(d, record, queue) ==
    /\ drain' = [drain EXCEPT ![d] = IF DueTimes(session', queue) = {} THEN IdleDrain
                                     ELSE [record EXCEPT !.pc = "arming", !.keys = {}]]
    /\ ScheduleAlarm(d, session', queue)

\* drainGarbage up to its first await (selectGarbageBatch): called by the alarm
\* handler or directly. With nothing due the call only arms the alarm again.
DrainGarbage(d) ==
    \E expired \in Batches(ExpiredSessions) :
        LET queue == [u \in Upload |->
                IF u \in expired
                THEN QueueGarbage(gc, u, Later(now, session[u].expires + Grace))[u] ELSE gc[u]]
        IN
        /\ drain[d].pc \in {"idle", "fired"}
        /\ gc' = queue
        /\ session' = [u \in Upload |->
                IF u \in expired
                THEN [session[u] EXCEPT !.state = "garbage", !.verifier = None, !.lease = 0]
                ELSE IF session[u].state = "committed" /\ session[u].expires <= now
                THEN DeletedSession("forgotten")
                ELSE session[u]]
        /\ \E keys \in Batches(DueKeys(queue)) :
            /\ \A u \in keys, v \in DueKeys(queue) \ keys : Before(queue, u, v)
            /\ IF keys = {} THEN Rearm(d, drain[d], queue)
               ELSE /\ drain' = [drain EXCEPT ![d] = [@ EXCEPT !.pc = "deleting", !.keys = keys,
                                                              !.start = now]]
                    /\ KeepAlarm
        /\ UNCHANGED <<now, entry, version, object, alarm, store, call, env, history, hostTimer>>

DeleteBodies(d) ==
    /\ drain[d].pc = "deleting"
    /\ r2' = r2 \ drain[d].keys
    /\ drain' = [drain EXCEPT ![d].pc = "deleted"]
    /\ UNCHANGED <<now, rows, alarm, inflight, sent, reserved, call, arms, env, history, unarmed, hostTimer>>

\* A multi-delete that fails may have removed part of the batch.
DeleteBodiesFails(d) ==
    /\ drain[d].pc = "deleting"
    /\ faults < MaxFaults /\ drain[d].start + BackoffCap <= MaxTime
    /\ faults' = faults + 1
    /\ \E some \in SUBSET drain[d].keys : r2' = r2 \ some
    /\ drain' = [drain EXCEPT ![d].pc = "failed"]
    /\ UNCHANGED <<now, rows, alarm, inflight, sent, reserved, call, arms, crashes, history, unarmed, hostTimer>>

SettleDrain(d) ==
    /\ drain[d].pc = "deleted"
    /\ session' = [u \in Upload |-> IF u \in drain[d].keys /\ session[u].state = "garbage"
                                    THEN DeletedSession("collected") ELSE session[u]]
    /\ gc' = [u \in Upload |-> IF u \in drain[d].keys THEN NoRow ELSE gc[u]]
    /\ Rearm(d, drain[d], gc')
    /\ UNCHANGED <<now, entry, version, object, alarm, store, call, env, history, hostTimer>>

\* The backoff counts from the time the drain started.
Backoff(d, row) ==
    [row EXCEPT !.attempts = row.attempts + 1,
                !.next = drain[d].start + Sooner(2 ^ Sooner(row.attempts + 1, 12), BackoffCap)]

BackOffDrain(d) ==
    /\ drain[d].pc = "failed"
    /\ gc' = [u \in Upload |-> IF u \in drain[d].keys /\ gc[u] # NoRow
                               THEN Backoff(d, gc[u]) ELSE gc[u]]
    /\ session' = session
    /\ Rearm(d, drain[d], gc')
    /\ UNCHANGED <<now, entry, version, object, alarm, store, call, env, history, hostTimer>>

----------------------------------------------------------------------------
(* The bucket, the clock, the host and the platform.                        *)

Settled(u) == now >= authority[u] + Grace

\* A client or gateway starts a PUT while the reservation gives it the right to.
StartPut(u) ==
    /\ u \in reserved
    /\ now < authority[u]
    /\ sent[u] < MaxPuts
    /\ sent' = [sent EXCEPT ![u] = @ + 1]
    /\ inflight' = [inflight EXCEPT ![u] = @ + 1]
    /\ UNCHANGED <<now, rows, alarm, r2, reserved, calls, arms, env, history, unarmed, hostTimer>>

\* putIfAbsent: created unless the key has a body. The settlement grace is the
\* assumption that no PUT lands later than this.
LandPut(u) ==
    /\ inflight[u] > 0
    /\ ~Settled(u)
    /\ inflight' = [inflight EXCEPT ![u] = @ - 1]
    /\ r2' = r2 \cup {u}
    /\ UNCHANGED <<now, rows, alarm, sent, reserved, calls, arms, env, history, unarmed, hostTimer>>

Tick ==
    /\ now < MaxTime
    /\ now' = now + 1
    /\ UNCHANGED <<rows, alarm, store, calls, arms, env, history, unarmed, hostTimer>>

\* The host shares the alarm slot and sets its own time. No event of the host is
\* delivered while a storage call such as getAlarm() is awaited.
HostSetAlarm(time) ==
    /\ arms = <<>>
    /\ hostTimer = None
    /\ now < time
    /\ alarm' = time
    /\ hostTimer' = time
    /\ UNCHANGED <<now, rows, store, calls, arms, env, history, unarmed>>

\* Eviction: memory is lost, the database, the bucket and the alarm stay. An
\* alarm handler that did not finish is run again by the platform.
Crash ==
    /\ crashes < MaxCrashes
    /\ crashes' = crashes + 1
    /\ call' = [c \in Caller |-> IdleCall]
    /\ drain' = [d \in Drain |-> IdleDrain]
    /\ arms' = <<>>
    /\ unarmed' = (unarmed \/ arms # <<>>)
    /\ alarm' = IF \E d \in Drain : drain[d].byAlarm THEN now ELSE alarm
    /\ UNCHANGED <<now, rows, store, faults, history, hostTimer>>

----------------------------------------------------------------------------
Namespace ==
    \/ \E p \in Path : WriteFile(p) \/ Remove(p) \/ ResolveOpaqueRead(p)
    \/ \E p, q \in Path : Move(p, q) \/ Copy(p, q)
    \/ \E tree \in Subtrees : RemoveSubtree(tree)

Uploads ==
    \/ \E u \in Upload, p \in Path : BeginOpaqueUpload(u, p)
    \/ \E u \in Upload : AbortOpaqueUpload(u) \/ CommitExpired(u) \/ CommitReceiptExpired(u)
    \/ \E c \in Caller, u \in Upload : ClaimVerification(c, u)

Commits ==
    \E c \in Caller :
        \/ HeadObject(c) \/ CommitFails(c) \/ RejectMetadata(c) \/ RejectLeaseLost(c)
        \/ CommitStale(c) \/ CommitPublishes(c)

Drains ==
    \E d \in Drain :
        \/ FireAlarm(d) \/ DrainGarbage(d) \/ DeleteBodies(d) \/ DeleteBodiesFails(d)
        \/ SettleDrain(d) \/ BackOffDrain(d)

Environment ==
    \/ Tick \/ Crash
    \/ \E u \in Upload : StartPut(u) \/ LandPut(u)
    \/ \E time \in HostTimes : HostSetAlarm(time)

Next == Namespace \/ Uploads \/ Commits \/ Drains \/ ArmAlarm \/ Environment

Spec == Init /\ [][Next]_vars

\* Awaited calls are answered, timers fire, the clock moves on.
Fairness ==
    /\ WF_vars(Tick)
    /\ WF_vars(ArmAlarm)
    /\ \A c \in Caller :
        /\ WF_vars(HeadObject(c))
        /\ WF_vars(CommitFails(c) \/ RejectMetadata(c) \/ RejectLeaseLost(c)
                   \/ CommitStale(c) \/ CommitPublishes(c))
    /\ \A d \in Drain :
        /\ WF_vars(FireAlarm(d))
        /\ WF_vars(drain[d].pc = "fired" /\ DrainGarbage(d))
        /\ WF_vars(DeleteBodies(d) \/ DeleteBodiesFails(d))
        /\ WF_vars(SettleDrain(d) \/ BackOffDrain(d))

FairSpec == Spec /\ Fairness

----------------------------------------------------------------------------
(* Properties.                                                              *)

TypeOK ==
    /\ now \in Nat
    /\ entry \in [Path -> Body]
    /\ version \in [Path -> Nat]
    /\ session \in [Upload -> Session]
    /\ object \in [Upload -> Nat \cup {NoRow}]
    /\ gc \in [Upload -> GcRow \cup {NoRow}]
    /\ alarm \in Nat \cup {None}
    /\ r2 \subseteq Upload
    /\ inflight \in [Upload -> Nat] /\ sent \in [Upload -> Nat] /\ reserved \subseteq Upload
    /\ call \in [Caller -> Call]
    /\ drain \in [Drain -> DrainCall]
    /\ arms \in Seq(Arm)
    /\ faults \in Nat /\ crashes \in Nat
    /\ authority \in [Upload -> Nat] /\ granted \in [Upload -> Nat]
    /\ touched \subseteq Upload
    /\ unarmed \in BOOLEAN
    /\ hostTimer \in Nat \cup {None}

\* A name that reaches an opaque body reaches an object row, and the body is in
\* the bucket: no commit publishes a missing body, no drain deletes a live one,
\* whatever copies, moves, replacements and evictions come between.
NoDanglingReference ==
    \A p \in Path : entry[p] \in Upload => object[entry[p]] # NoRow /\ entry[p] \in r2

\* A reader that got a lease finds the body until the lease ends, even when the
\* last name goes in the meantime and the collector runs.
LeasedBodyRetained == \A u \in Upload : granted[u] > now => u \in r2

\* Every body in the bucket has a durable row that leads to its deletion or
\* keeps it alive. A second PUT for a published reservation is the exception:
\* garbage that comes from unlinking does not wait for upload authority.
NoOrphanBody ==
    \A u \in r2 :
        \/ session[u].state \in {"open", "verifying", "garbage"}
        \/ object[u] # NoRow \/ gc[u] # NoRow
        \/ sent[u] > 1 /\ session[u].state \in {"committed", "forgotten"}

\* When no arming call is pending and no alarm handler runs, the alarm is set no
\* later than the earliest deadline, or is due already; unless an eviction cut
\* an arming call off.
AlarmCovers ==
    arms = <<>> /\ ~unarmed /\ (\A d \in Drain : ~drain[d].byAlarm) =>
        \A t \in DueTimes(session, gc) : alarm # None /\ (alarm <= t \/ alarm <= now)

\* A commit never publishes over a path that changed after its reservation,
\* not even by changes that leave the path as it was (absent-path ABA).
NoStalePublish ==
    [][\A u \in Upload : session[u].state # "committed" /\ session'[u].state = "committed"
                            => u \notin touched]_vars

\* Once published a session only ever loses its receipt: no late verifier,
\* abort or drain reopens it or turns its body into garbage.
PublishedIsFinal ==
    [][\A u \in Upload : session[u].state = "committed"
                            => session'[u].state \in {"committed", "forgotten"}]_vars

\* Every reservation ends: published, or collected together with its key.
ReservationsEnd ==
    \A u \in Upload : session[u].state \in {"open", "verifying", "garbage"}
                        ~> session[u].state \in {"committed", "forgotten", "collected"}

\* From some time on the bucket holds nothing but bodies that an entry names.
GarbageIsCollected == <>[](\A u \in r2 : object[u] # NoRow)

----------------------------------------------------------------------------
(* Why the safety properties hold: the inductive invariant of the proofs.   *)

\* Every name of an opaque body keeps its object row.
NamesHaveRows == \A p \in Path : entry[p] \in Upload => object[entry[p]] # NoRow

\* A body with an object row is published, stored, not yet garbage, and is
\* retained for as long as any lease that was handed out on it.
RowsAreLive ==
    \A u \in Upload : object[u] # NoRow =>
        /\ gc[u] = NoRow /\ u \in r2
        /\ session[u].state \in {"committed", "forgotten"}
        /\ granted[u] <= object[u]

\* A key waits in the queue at least until its leases end, and no session that
\* can still publish it is left.
QueueIsDead ==
    \A u \in Upload : gc[u] # NoRow =>
        /\ session[u].state \in {"garbage", "committed", "forgotten"}
        /\ granted[u] <= gc[u].notBefore

\* What a drain took from the queue stays deletable until the drain is over.
DrainsTakeDead ==
    \A d \in Drain : \A u \in drain[d].keys :
        /\ object[u] = NoRow
        /\ session[u].state \in {"garbage", "collected", "committed", "forgotten"}
        /\ granted[u] <= now

\* Only published bodies are leased.
LeasesArePublished ==
    \A u \in Upload : granted[u] # 0 => session[u].state \in {"committed", "forgotten"}

\* A commit that still holds its verification lease saw a body that is there.
VerifiedIsStored ==
    \A c \in Caller :
        call[c].pc = "reply" /\ call[c].head = "ok" /\ Holds(c, call[c].upload)
            => call[c].upload \in r2

\* A pending reservation knows its path, at a version the path has had; once
\* the path changed the version has left the reservation behind.
TokensLagBehind ==
    \A u \in Upload :
        /\ session[u].state \in {"open", "verifying"} =>
               /\ session[u].path \in Path
               /\ session[u].token <= version[session[u].path]
               /\ u \in touched => session[u].token < version[session[u].path]
        /\ u \in touched => session[u].state # "none"

IInv ==
    /\ TypeOK /\ NamesHaveRows /\ RowsAreLive /\ QueueIsDead /\ DrainsTakeDead
    /\ LeasesArePublished /\ LeasedBodyRetained /\ VerifiedIsStored /\ TokensLagBehind

\* What it takes for NoOrphanBody: the end of a reservation is known from its row
\* as long as it matters, and nothing is sent for a session before it began.
EndIsKnown ==
    \A u \in Upload :
        /\ session[u].state = "none" => authority[u] = 0 /\ sent[u] = 0
        /\ session[u].state \in {"open", "verifying", "garbage"} => session[u].expires = authority[u]

\* The key of a reservation that failed is deleted, and its row after it, when
\* no PUT can land any more.
GarbageSettles ==
    \A u \in Upload :
        /\ session[u].state = "garbage" /\ gc[u] # NoRow => authority[u] + Grace <= gc[u].notBefore
        /\ session[u].state = "garbage" /\ (\E d \in Drain : u \in drain[d].keys) => Settled(u)
        /\ session[u].state = "collected" => Settled(u) /\ u \notin r2

\* A body, or a session that had one, accounts for a PUT that landed.
PutsAreCounted ==
    \A u \in Upload :
        /\ inflight[u] <= sent[u]
        /\ u \in r2 \/ session[u].state \in {"committed", "forgotten"} => inflight[u] < sent[u]

\* What a drain has deleted is gone, but for a second PUT of a published session.
DeletedIsGone ==
    \A d \in Drain : drain[d].pc = "deleted" =>
        \A u \in drain[d].keys \cap r2 :
            sent[u] > 1 /\ session[u].state \in {"committed", "forgotten"}

KeyInv ==
    /\ IInv /\ EndIsKnown /\ GarbageSettles /\ PutsAreCounted /\ DeletedIsGone /\ NoOrphanBody

\* What it takes for AlarmCovers while arming calls do not overlap. An alarm
\* handler that has been woken arms the alarm when it is done.
Woken == \E d \in Drain : drain[d].byAlarm /\ drain[d].pc # "arming"

Covered == \A t \in DueTimes(session, gc) : alarm # None /\ (alarm <= t \/ alarm <= now)

\* The arming call under way brings a time that covers all work, and knows the
\* alarm as it is.
ArmIsFresh ==
    arms # <<>> =>
        /\ \A t \in DueTimes(session, gc) : Head(arms).due <= t \/ Head(arms).due <= now
        /\ Head(arms).seen = alarm \/ Woken

AlarmInv ==
    /\ Len(arms) <= 1
    /\ ArmIsFresh
    /\ arms = <<>> /\ ~unarmed /\ ~Woken => Covered

----------------------------------------------------------------------------
(* The lifecycle implements the contract of opaque files.                   *)

OpaqueName == [p \in Path |-> IF entry[p] \in Upload THEN entry[p] ELSE None]
Published == {u \in Upload : session[u].state \in {"committed", "forgotten"}}

Contract == INSTANCE OpaqueContract
    WITH name <- OpaqueName, body <- r2, lease <- granted, published <- Published

\* Whatever interleaving of commits, namespace changes, reads, drains and
\* evictions happens, names, bodies and leases change as the contract allows.
ImplementsContract == Contract!Spec

=============================================================================
