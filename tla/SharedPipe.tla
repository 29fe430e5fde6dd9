----------------------------- MODULE SharedPipe -----------------------------
(***************************************************************************)
(* Pipes in the hands of anyone: descriptors that write, duplicate, close  *)
(* and abort, readers that read, let go and give up, and an execution that *)
(* is cancelled, in every order.                                           *)
(***************************************************************************)
EXTENDS BytePipe

ASSUME SharedPipeAssumption ==
    /\ Edge # {} /\ Descriptor # {}
    /\ None \notin Failure

VARIABLE offered    \* chunks given to write(), each of them once

vars == <<pipeVars, offered>>

First == CHOOSE d \in Descriptor : TRUE

Init ==
    /\ pipe = [e \in Edge |-> Fresh(First)]
    /\ signal = None
    /\ spent = 0
    /\ unbilled = FALSE
    /\ cancelling = FALSE
    /\ offered = {}

Offer(e, d, chunk) ==
    /\ chunk \notin offered
    /\ Write(e, d, chunk)
    /\ offered' = offered \cup {chunk}

Microtask(e) == StartWrite(e) \/ ResumeWrite(e) \/ SettleWrite(e) \/ FinishClose(e)

Reader(e) == Read(e) \/ Release(e) \/ Cancel(e)

Handle(e, d) ==
    \/ \E new \in Descriptor : Clone(e, d, new)
    \/ Close(e, d)
    \/ Abort(e, d, "BUG")

Next ==
    \/ \E e \in Edge, d \in Descriptor, chunk \in Chunk : Offer(e, d, chunk)
    \/ /\ \/ \E e \in Edge : Microtask(e) \/ Reader(e) \/ IdleTimeout(e)
          \/ \E e \in Edge, d \in Descriptor : Handle(e, d)
          \/ DeliverCancel
          \/ AbortExecution("ECANCELED")
       /\ UNCHANGED offered

Spec == Init /\ [][Next]_vars

\* Continuations run; a reader that is not a root consumer reads on; the timer
\* of a root pipe, armed while a writer waits, fires.
FairSpec ==
    /\ Spec
    /\ \A e \in Edge :
        /\ WF_vars(Microtask(e) /\ UNCHANGED offered)
        /\ WF_vars(e \notin Root /\ Read(e) /\ UNCHANGED offered)
        /\ WF_vars(IdleTimeout(e) /\ UNCHANGED offered)
-----------------------------------------------------------------------------
(* What the pipe promises.                                                 *)

PipeType ==
    [queue : Seq(Chunk), reads : 0 .. MaxReads, closeRequested : BOOLEAN,
     finished : {"open", "closed", "errored"}, error : Reason, cancelled : Reason,
     written : Nat, listening : BOOLEAN, held : SUBSET Descriptor, terminal : BOOLEAN,
     writes : Seq([chunk : Chunk, by : Descriptor, phase : Phase, error : Reason]),
     failure : Reason, closing : BOOLEAN,
     accepted : Seq(Chunk), received : Seq(Chunk), resolved : SUBSET Chunk,
     dropped : BOOLEAN]

TypeOK ==
    /\ pipe \in [Edge -> PipeType]
    /\ signal \in Reason
    /\ spent \in Nat
    /\ unbilled \in BOOLEAN
    /\ cancelling \in BOOLEAN
    /\ offered \subseteq Chunk

Elements(s) == {s[i] : i \in 1 .. Len(s)}

\* No write waits on a pipe that has room, has failed or has lost its reader:
\* the wakeup was not lost between the check of the queue and the wait for it.
NoLostWakeup ==
    \A e \in Edge : Waiting(pipe[e]) =>
        /\ Len(pipe[e].queue) >= Capacity
        /\ pipe[e].cancelled = None
        /\ pipe[e].finished = "open"

\* A write that was acknowledged reached the reader or is in the queue, unless
\* the stream failed or the reader gave up: a chunk is never dropped in
\* silence by a close, by another descriptor or by the limit.
AcknowledgedIsKept ==
    \A e \in Edge :
        pipe[e].finished # "errored" /\ ~pipe[e].dropped =>
            pipe[e].resolved \subseteq Elements(pipe[e].received \o pipe[e].queue)

\* A descriptor that failed makes the whole writing end fail: a stream that
\* ended well has nothing undelivered and no failed write behind it.
GoodEndIsComplete ==
    \A e \in Edge :
        pipe[e].finished = "closed" /\ ~pipe[e].dropped =>
            /\ pipe[e].failure = None
            /\ pipe[e].writes = <<>>
            /\ pipe[e].received = pipe[e].accepted

StateOf(s) ==
    IF s.dropped THEN "left"
    ELSE CASE s.finished = "open" -> "open"
           [] s.finished = "closed" -> "ended"
           [] s.finished = "errored" -> "failed"

OneEdge == CHOOSE e \in Edge : TRUE

Contract == INSTANCE PipeContract WITH
    sent <- pipe[OneEdge].accepted,
    got <- pipe[OneEdge].received,
    state <- StateOf(pipe[OneEdge])

\* A pipe implements the contract of a pipe; all pipes are alike.
ImplementsPipe == Contract!Spec

\* A write settles, whoever else holds the pipe and whatever its consumer does;
\* and a stream whose last descriptor let go ends.
Pending(e, chunk) == \E i \in 1 .. Len(pipe[e].writes) : pipe[e].writes[i].chunk = chunk

NothingHangs ==
    /\ \A e \in Edge, chunk \in Chunk : Pending(e, chunk) ~> ~Pending(e, chunk)
    /\ \A e \in Edge : pipe[e].closing ~> pipe[e].finished # "open" \/ pipe[e].closeRequested
=============================================================================
