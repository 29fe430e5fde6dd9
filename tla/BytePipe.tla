------------------------------ MODULE BytePipe ------------------------------
(***************************************************************************)
(* The byte pipes of the shell: shell/pipe.ts, with the reference-counted  *)
(* writing end that several descriptors share.                             *)
(*                                                                         *)
(* A pipe lives in one JavaScript thread: every action is code that runs   *)
(* without an await, and the continuations of the awaits in a write are    *)
(* actions of their own.  A chunk counts for one unit of Capacity, of      *)
(* Maximum and of the execution's I/O budget; chunks of no bytes, which    *)
(* the pipe drops, are left out.                                           *)
(***************************************************************************)
EXTENDS Naturals, Sequences, FiniteSets

CONSTANTS
    Edge,           \* the pipes of an execution
    Chunk,          \* what is written, each at most once
    Descriptor,     \* handles on the writing end of a pipe
    Capacity,       \* queued chunks at which a writer waits
    Maximum,        \* chunks a pipe accepts in its life, for each pipe
    MaxIo,          \* chunks the budget of the execution pays for
    MaxReads,       \* BOUND: reads a reader leaves waiting
    Root,           \* pipes whose consumer cancels the execution with itself
    None            \* no error, no reason

ASSUME PipeAssumption ==
    /\ Capacity \in Nat \ {0}
    /\ MaxIo \in Nat
    /\ MaxReads \in Nat
    /\ Maximum \in [Edge -> Nat]
    /\ Root \subseteq Edge

\* The errors a write, a read or a close can end with.
Failure == {"ECANCELED", "ETIMEDOUT", "E2BIG", "EPIPE", "DOWNSTREAM", "BUG"}
Reason == Failure \cup {None}

VARIABLES
    pipe,       \* the state of each pipe
    signal,     \* why the execution was aborted, or None
    spent,      \* chunks charged to the budget
    unbilled,   \* the budget no longer charges I/O
    cancelling  \* the consumer of a root pipe cancelled, the abort is to come

pipeVars == <<pipe, signal, spent, unbilled, cancelling>>

\* A write under way: its chunk, the descriptor that awaits it, how far it is
\* and the error it failed with.
Phase == {"queued", "waiting", "woken", "accepted", "failed"}

\* A pipe no-one has touched, with one descriptor on its writing end.
Fresh(d) ==
    [queue |-> <<>>, reads |-> 0, closeRequested |-> FALSE, finished |-> "open",
     error |-> None, cancelled |-> None, written |-> 0, listening |-> TRUE,
     held |-> {d}, terminal |-> FALSE, writes |-> <<>>, failure |-> None,
     closing |-> FALSE,
     accepted |-> <<>>, received |-> <<>>, resolved |-> {}, dropped |-> FALSE]
-----------------------------------------------------------------------------
(* The state of one pipe, from one synchronous step to the next.           *)

\* Only the write at the head has started: the others wait for it.
Waiting(s) == s.writes # <<>> /\ Head(s.writes).phase = "waiting"

HeadAt(s, phase, error) ==
    [s EXCEPT !.writes = <<[Head(s.writes) EXCEPT !.phase = phase, !.error = error]>>
                         \o Tail(s.writes)]

WakeWriters(s) ==
    IF /\ Waiting(s)
       /\ s.cancelled # None \/ s.finished = "errored" \/ Len(s.queue) < Capacity
    THEN HeadAt(s, "woken", None)
    ELSE s

FinishClosed(s) == [s EXCEPT !.finished = "closed", !.reads = 0]

ErrorStream(s, error) ==
    IF s.finished # "open" THEN s
    ELSE [s EXCEPT !.finished = "errored", !.error = error, !.queue = <<>>, !.reads = 0]

Fail(s, error) ==
    WakeWriters(IF s.cancelled = None
                THEN [ErrorStream(s, error) EXCEPT !.cancelled = error]
                ELSE s)

\* Mutant: a chunk is handed over whether a read waits or not.
EnqueueToAnyRead(s, chunk) ==
    [s EXCEPT !.reads = @ - 1, !.accepted = Append(@, chunk), !.received = Append(@, chunk)]
\* A chunk goes to the read that waits longest, or into the queue.
Enqueue(s, chunk) ==
    IF s.finished # "open" \/ s.closeRequested THEN s
    ELSE IF s.reads > 0
         THEN [s EXCEPT !.reads = @ - 1, !.accepted = Append(@, chunk),
                        !.received = Append(@, chunk)]
         ELSE [s EXCEPT !.queue = Append(@, chunk), !.accepted = Append(@, chunk)]

\* Why accept() refuses the next chunk of e, or None.
Refusal(e, s) ==
    IF signal # None THEN signal
    ELSE IF s.cancelled # None THEN s.cancelled
    ELSE IF (~unbilled /\ spent >= MaxIo) \/ s.written >= Maximum[e] THEN "E2BIG"
    ELSE None

\* The synchronous part of the write at the head.
Accept(e, s) ==
    LET refusal == Refusal(e, s)
        counted == [s EXCEPT !.written = @ + 1]
        taken == Enqueue(counted, Head(s.writes).chunk)
    IN  IF refusal # None THEN HeadAt(Fail(s, refusal), "failed", refusal)
        ELSE HeadAt(taken, IF Len(taken.queue) < Capacity THEN "accepted" ELSE "waiting", None)

\* The budget is charged before it refuses.
Charge(e, s) ==
    IF unbilled \/ signal # None \/ s.cancelled # None THEN spent ELSE spent + 1

Dequeued(s) ==
    LET rest == [s EXCEPT !.queue = Tail(@), !.received = Append(@, Head(s.queue))]
    IN  IF s.closeRequested /\ rest.queue = <<>> THEN FinishClosed(rest)
        ELSE WakeWriters(rest)

\* Mutant: the writers of a pipe that lost its reader are left to wait.
ConsumerCancelUnheard(s, reason) ==
    IF s.finished # "open" THEN s
    ELSE [FinishClosed([s EXCEPT !.queue = <<>>]) EXCEPT !.cancelled = reason, !.dropped = TRUE]
\* The consumer gives up: what is queued is dropped and the stream ends.
ConsumerCancel(s, reason) ==
    IF s.finished # "open" THEN s
    ELSE WakeWriters([FinishClosed([s EXCEPT !.queue = <<>>])
                        EXCEPT !.cancelled = reason, !.dropped = TRUE])

\* Mutant: an abort fails the readers and forgets the writers.
AbortFromSignalOfReaders(s, reason) ==
    IF ~s.listening \/ s.cancelled # None THEN s
    ELSE [ErrorStream(s, reason) EXCEPT !.cancelled = reason]
AbortFromSignal(s, reason) ==
    IF ~s.listening \/ s.cancelled # None THEN s
    ELSE WakeWriters([ErrorStream(s, reason) EXCEPT !.cancelled = reason])

\* Mutant: the stream ends with what is queued still in it.
PipeCloseAtOnce(s) ==
    IF s.cancelled # None \/ s.finished # "open" THEN [s EXCEPT !.listening = FALSE]
    ELSE [FinishClosed(s) EXCEPT !.listening = FALSE, !.closeRequested = TRUE]
PipeClose(s) ==
    LET off == [s EXCEPT !.listening = FALSE]
        asked == [off EXCEPT !.closeRequested = TRUE]
    IN  WakeWriters(
          IF s.cancelled # None \/ s.finished # "open" \/ s.closeRequested THEN off
          ELSE IF s.queue = <<>> THEN FinishClosed(asked) ELSE asked)

PipeAbort(s, reason) ==
    LET off == [s EXCEPT !.listening = FALSE]
    IN  WakeWriters(IF s.cancelled = None THEN ErrorStream(off, reason) ELSE off)

\* A descriptor lets go; the last one to do so ends the writing end.
SinkClose(s, d) ==
    LET left == [s EXCEPT !.held = @ \ {d}]
    IN  IF d \notin s.held \/ s.terminal \/ left.held # {} THEN left
        ELSE [left EXCEPT !.terminal = TRUE, !.closing = TRUE]

\* Mutant: a descriptor that fails ends the pipe as one that closes.
SinkAbortAsClose(s, d, reason) ==
    IF d \notin s.held \/ s.terminal THEN [s EXCEPT !.held = @ \ {d}]
    ELSE PipeClose([s EXCEPT !.held = @ \ {d}, !.terminal = TRUE, !.failure = reason])
SinkAbort(s, d, reason) ==
    LET left == [s EXCEPT !.held = @ \ {d}]
        ended == [left EXCEPT !.terminal = TRUE,
                              !.failure = IF @ = None THEN reason ELSE @]
    IN  IF d \notin s.held \/ s.terminal THEN left ELSE PipeAbort(ended, reason)
-----------------------------------------------------------------------------
(* The actions.                                                            *)

Set(e, s) == pipe' = [pipe EXCEPT ![e] = s]
Quiet == UNCHANGED <<signal, spent, unbilled, cancelling>>

CanWrite(e, d) == d \in pipe[e].held /\ ~pipe[e].terminal

\* write(): runs at once on an idle sink, otherwise behind the others.
Write(e, d, chunk) ==
    LET s == pipe[e]
        idle == s.writes = <<>> /\ s.failure = None
        called == [s EXCEPT !.writes =
            Append(@, [chunk |-> chunk, by |-> d, phase |-> "queued", error |-> None])]
    IN  /\ CanWrite(e, d)
        /\ Set(e, IF idle THEN Accept(e, called) ELSE called)
        /\ spent' = IF idle THEN Charge(e, s) ELSE spent
        /\ UNCHANGED <<signal, unbilled, cancelling>>

\* The write before it settled: the next one starts, unless that one failed.
StartWrite(e) ==
    LET s == pipe[e]
    IN  /\ s.writes # <<>> /\ Head(s.writes).phase = "queued"
        /\ Set(e, IF s.failure # None THEN HeadAt(s, "failed", s.failure) ELSE Accept(e, s))
        /\ spent' = IF s.failure # None THEN spent ELSE Charge(e, s)
        /\ UNCHANGED <<signal, unbilled, cancelling>>

\* A writer that waited for room goes on, and looks at what happened meanwhile.
ResumeWrite(e) ==
    LET s == pipe[e]
        error == IF signal # None THEN signal
                 ELSE IF s.cancelled # None THEN s.cancelled
                 ELSE IF s.finished = "errored" THEN s.error
                 ELSE None
    IN  /\ s.writes # <<>> /\ Head(s.writes).phase = "woken"
        /\ Set(e, IF error = None THEN HeadAt(s, "accepted", None)
                  ELSE HeadAt(Fail(s, error), "failed", error))
        /\ Quiet

\* The promise of the write settles.
SettleWrite(e) ==
    LET s == pipe[e]
        done == Head(s.writes)
        rest == [s EXCEPT !.writes = Tail(@)]
    IN  /\ s.writes # <<>> /\ done.phase \in {"accepted", "failed"}
        /\ Set(e, IF done.phase = "accepted"
                  THEN [rest EXCEPT !.resolved = @ \cup {done.chunk}]
                  ELSE [rest EXCEPT !.failure = IF @ = None THEN done.error ELSE @])
        /\ Quiet

Clone(e, d, new) ==
    /\ CanWrite(e, d)
    /\ new \notin pipe[e].held
    /\ Set(e, [pipe[e] EXCEPT !.held = @ \cup {new}])
    /\ Quiet

Close(e, d) ==
    /\ d \in pipe[e].held
    /\ Set(e, SinkClose(pipe[e], d))
    /\ Quiet

Abort(e, d, reason) ==
    /\ d \in pipe[e].held
    /\ Set(e, SinkAbort(pipe[e], d, reason))
    /\ Quiet

\* Mutant: the pipe ends before the writes that were called.
FinishCloseEarly(e) ==
    LET done == [pipe[e] EXCEPT !.closing = FALSE]
    IN  /\ pipe[e].closing
        /\ Set(e, IF done.failure # None THEN done ELSE PipeClose(done))
        /\ Quiet
\* The last descriptor waited for every write before it ends the pipe.
FinishClose(e) ==
    LET s == pipe[e]
        done == [s EXCEPT !.closing = FALSE]
    IN  /\ s.closing /\ s.writes = <<>>
        /\ Set(e, IF s.failure # None THEN done ELSE PipeClose(done))
        /\ Quiet

\* A read takes the next chunk, learns how the stream ended, or waits.
Read(e) ==
    LET s == pipe[e]
    IN  /\ s.queue # <<>> \/ (s.finished = "open" /\ s.reads < MaxReads)
        /\ Set(e, IF s.queue # <<>> THEN Dequeued(s) ELSE [s EXCEPT !.reads = @ + 1])
        /\ Quiet

\* The reader lets go: its waiting reads are rejected.
Release(e) ==
    /\ pipe[e].reads > 0
    /\ Set(e, [pipe[e] EXCEPT !.reads = 0])
    /\ Quiet

\* The consumer of a root pipe takes the execution with it, a microtask later.
Cancel(e) ==
    /\ pipe[e].finished = "open"
    /\ Set(e, ConsumerCancel(pipe[e], IF e \in Root THEN "ECANCELED" ELSE "DOWNSTREAM"))
    /\ cancelling' = (cancelling \/ e \in Root)
    /\ UNCHANGED <<signal, spent, unbilled>>

\* AbortController.abort(): the listeners run before it returns.
AbortAll(reason) ==
    /\ pipe' = [e \in Edge |-> AbortFromSignal(pipe[e], reason)]
    /\ signal' = reason
    /\ UNCHANGED <<spent, unbilled>>

AbortExecution(reason) ==
    /\ signal = None
    /\ AbortAll(reason)
    /\ UNCHANGED cancelling

DeliverCancel ==
    /\ cancelling
    /\ cancelling' = FALSE
    /\ IF signal = None THEN AbortAll("ECANCELED") ELSE UNCHANGED <<pipe, signal, spent, unbilled>>

\* A writer of a root pipe waited for its consumer too long.
IdleTimeout(e) ==
    /\ e \in Root
    /\ Waiting(pipe[e])
    /\ AbortExecution("ETIMEDOUT")
=============================================================================
