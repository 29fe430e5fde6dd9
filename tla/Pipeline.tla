------------------------------ MODULE Pipeline ------------------------------
(***************************************************************************)
(* One pipeline of a shell execution: its stages run at the same time, the *)
(* output of each is the input of the next through a byte pipe, they share *)
(* stderr, and the execution reports when they are done.                   *)
(* shell/shell-evaluate.ts, shell-runtime.ts, shell-session-execution.ts.  *)
(*                                                                         *)
(* A command is any program: it reads, writes, ends, or throws.  Edge i is *)
(* the output of stage i; edge N, the root stdout, and edge N + 1, the     *)
(* root stderr, are read by the caller, who may stop reading.              *)
(***************************************************************************)
EXTENDS BytePipe

CONSTANTS
    N,          \* stages
    MaxOut,     \* BOUND: chunks a command writes
    Pipefail    \* set -o pipefail

Stage == 1 .. N
Out == N
Err == N + 1
Shell == N + 1      \* the execution's own handle on its two outputs
Handles == 1 .. N + 1

ASSUME PipelineAssumption ==
    /\ N \in Nat \ {0}
    /\ MaxOut \in Nat
    /\ Pipefail \in BOOLEAN
    /\ Edge = 1 .. N + 1
    /\ Root = {Out, Err}
    /\ Descriptor = Handles
    /\ Chunk = Handles \X (0 .. MaxOut)
    /\ None \notin Failure \cup {"ok", "failed"}

VARIABLES
    stage,      \* what each stage is doing
    shell,      \* what the execution is doing
    thrown,     \* what the first stage to be rejected was rejected with
    exit        \* how `completed` settled, or None

pipelineVars == <<pipeVars, stage, shell, thrown, exit>>

\* Errors that no command status stands for.
Fatal == {"E2BIG", "ETIMEDOUT", "ECANCELED"}

\* How far a stage is: its phase, chunks written and read, its outcome once it
\* is done, "ok" or "failed" for a status, otherwise the error it threw.
Ready == [phase |-> "body", wrote |-> 0, seen |-> 0, outcome |-> None]

Outcome == {"ok", "failed"} \cup Failure \cup {None}

Open(e) ==
    LET s == Fresh(IF e < Out THEN e ELSE Shell)
    IN  IF e = Out THEN [s EXCEPT !.held = @ \cup {N}]
        ELSE IF e = Err THEN [s EXCEPT !.held = @ \cup Stage]
        ELSE s

PipelineInit ==
    /\ pipe = [e \in Edge |-> Open(e)]
    /\ signal = None
    /\ spent = 0
    /\ unbilled = FALSE
    /\ cancelling = FALSE
    /\ stage = [i \in Stage |-> Ready]
    /\ shell = "running"
    /\ thrown = None
    /\ exit = None
-----------------------------------------------------------------------------
(* A stage that ends.                                                      *)

\* Mutant: the last handle lets go and nobody ends the pipe.
ClosePipeSilently(s, d) == [SinkClose(s, d) EXCEPT !.closing = FALSE]
\* A handle with no write of its own under way closes; the last one ends the
\* pipe, and learns of a write that failed.
ClosePipe(s, d) ==
    LET left == SinkClose(s, d)
        ended == [left EXCEPT !.closing = FALSE]
    IN  IF ~left.closing THEN left
        ELSE IF left.failure = None THEN PipeClose(ended) ELSE ended

CloseFailure(s, d) ==
    IF SinkClose(s, d).closing THEN s.failure ELSE None

\* Mutant: a stage leaves its input to the stage that fills it.
UnreadKept(i) == [e \in {} |-> None]
\* The input of a stage beyond the first is cancelled, read to its end or not.
Unread(i) ==
    IF i = 1 THEN [e \in {} |-> None]
    ELSE [e \in {i - 1} |-> ConsumerCancel(pipe[i - 1], "DOWNSTREAM")]

Settle(i, outcome) ==
    /\ stage' = [stage EXCEPT ![i].phase = "done", ![i].outcome = outcome]
    /\ thrown' = IF thrown = None /\ outcome \in Failure THEN outcome ELSE thrown

\* The stage lets go of everything it holds, and settles.
Finish(i, outcome) ==
    /\ pipe' = [e \in Edge |->
            IF e \in DOMAIN Unread(i) THEN Unread(i)[e]
            ELSE IF e \in {i, Err} THEN ClosePipe(pipe[e], i)
            ELSE pipe[e]]
    /\ Settle(i, outcome)
    /\ Quiet

\* An invariant of the runtime failed: both outputs of the stage are aborted.
FinishBroken(i) ==
    /\ pipe' = [e \in Edge |->
            IF e \in DOMAIN Unread(i) THEN Unread(i)[e]
            ELSE IF e \in {i, Err} THEN SinkAbort(pipe[e], i, "BUG")
            ELSE pipe[e]]
    /\ Settle(i, "BUG")
    /\ Quiet

\* The diagnostic of an error that is a status goes to stderr first.
Diagnose(i) ==
    /\ CanWrite(Err, i)
    /\ Write(Err, i, <<i, 0>>)
    /\ stage' = [stage EXCEPT ![i].phase = "diagnosing"]
    /\ UNCHANGED thrown

\* Mutant: every error of a stage is taken for a downstream that closed.
StageFailsSilently(i, error) == IF error = "BUG" THEN FinishBroken(i) ELSE Finish(i, "ok")
\* handleCommandError().
StageFails(i, error) ==
    IF error = "DOWNSTREAM" THEN Finish(i, "ok")
    ELSE IF error = "BUG" THEN FinishBroken(i)
    ELSE IF error \in Fatal THEN Finish(i, error)
    ELSE Diagnose(i) \/ (~CanWrite(Err, i) /\ Finish(i, "EPIPE"))
-----------------------------------------------------------------------------
(* A stage at work.                                                        *)

At(i, phase) == stage[i].phase = phase
Keep == UNCHANGED <<shell, exit>>

\* It reads its input: a chunk, or a wait for one.
StageReads(i) ==
    /\ i > 1 /\ At(i, "body") /\ Read(i - 1)
    /\ stage' = [stage EXCEPT ![i].phase = IF pipe[i - 1].queue = <<>> THEN "reading" ELSE @,
                              ![i].seen = IF pipe[i - 1].queue = <<>> THEN @ ELSE @ + 1]
    /\ UNCHANGED thrown /\ Keep

\* The chunk it waited for arrived, or the stream ended.
ReadArrives(i) ==
    /\ At(i, "reading") /\ pipe[i - 1].reads = 0
    /\ LET s == pipe[i - 1]
           arrived == stage[i].seen < Len(s.received)
       IN  IF arrived \/ s.finished = "closed"
           THEN /\ stage' = [stage EXCEPT ![i].phase = "body",
                                          ![i].seen = IF arrived THEN @ + 1 ELSE @]
                /\ UNCHANGED <<pipeVars, thrown>>
           ELSE StageFails(i, s.error)
    /\ Keep

\* A read of a stream that failed is rejected at once.
ReadFails(i) ==
    /\ i > 1 /\ At(i, "body") /\ pipe[i - 1].finished = "errored"
    /\ StageFails(i, pipe[i - 1].error)
    /\ Keep

StageWrites(i) ==
    /\ At(i, "body") /\ stage[i].wrote < MaxOut
    /\ IF CanWrite(i, i)
       THEN /\ Write(i, i, <<i, stage[i].wrote + 1>>)
            /\ stage' = [stage EXCEPT ![i].phase = "writing", ![i].wrote = @ + 1]
            /\ UNCHANGED thrown
       ELSE StageFails(i, "EPIPE")
    /\ Keep

\* The command ends with a status; closing its descriptors may fail.
StageEnds(i) ==
    /\ At(i, "body")
    /\ LET error == IF CloseFailure(pipe[i], i) # None THEN CloseFailure(pipe[i], i)
                    ELSE CloseFailure(pipe[Err], i)
       IN  \E status \in {"ok", "failed"} : Finish(i, IF error = None THEN status ELSE error)
    /\ Keep

\* The command throws: a failure it reports, a limit, or a broken invariant.
StageThrows(i) ==
    /\ At(i, "body")
    /\ \E error \in {"EPIPE", "E2BIG", "BUG"} : StageFails(i, error)
    /\ Keep
-----------------------------------------------------------------------------
(* The execution.                                                          *)

\* closeDescriptors(), on the handles of the execution.
CloseRoot == [e \in Edge |-> IF e \in Root THEN ClosePipe(pipe[e], Shell) ELSE pipe[e]]

Select ==
    IF Pipefail /\ \E i \in Stage : stage[i].outcome = "failed" THEN "failed"
    ELSE stage[N].outcome

\* Every stage has a status: the last handles close, which may fail.
ShellEnds ==
    /\ shell = "running" /\ thrown = None
    /\ \A i \in Stage : At(i, "done")
    /\ pipe' = CloseRoot
    /\ LET error == IF CloseFailure(pipe[Out], Shell) # None THEN CloseFailure(pipe[Out], Shell)
                    ELSE CloseFailure(pipe[Err], Shell)
       IN  IF error = None
           THEN shell' = "completed" /\ exit' = Select /\ UNCHANGED thrown
           ELSE thrown' = error /\ UNCHANGED <<shell, exit>>
    /\ Quiet /\ UNCHANGED stage

\* Promise.all rejects with the first stage that does, whatever the others do:
\* handleExecutionError().  The message that says why is not charged.
ShellFails ==
    LET reports == signal = None \/ thrown = "ETIMEDOUT"
    IN  /\ shell = "running" /\ thrown # None
        /\ IF thrown = "BUG"
           THEN /\ pipe' = [e \in Edge |->
                        IF e \in Root THEN SinkAbort(pipe[e], Shell, "BUG") ELSE pipe[e]]
                /\ shell' = "completed" /\ exit' = "rejected"
                /\ UNCHANGED unbilled
           ELSE IF reports
           THEN /\ unbilled' = TRUE
                /\ shell' = "failing"
                /\ UNCHANGED <<pipe, exit>>
           ELSE /\ pipe' = CloseRoot
                /\ shell' = "completed" /\ exit' = "failed"
                /\ UNCHANGED unbilled
        /\ UNCHANGED <<signal, spent, cancelling, stage, thrown>>

ShellReports ==
    /\ shell = "failing"
    /\ IF CanWrite(Err, Shell)
       THEN /\ Write(Err, Shell, <<Shell, 0>>)
            /\ shell' = "reporting" /\ UNCHANGED exit
       ELSE /\ pipe' = CloseRoot /\ Quiet
            /\ shell' = "completed" /\ exit' = "failed"
    /\ UNCHANGED <<stage, thrown>>

\* A write settles, and what awaited it goes on.
Settles(e) ==
    LET done == Head(pipe[e].writes)
        i == done.by
        failed == done.phase = "failed"
    IN  /\ SettleWrite(e)
        /\ IF i = Shell
           THEN shell' = "reported" /\ UNCHANGED stage
           ELSE /\ stage' = [stage EXCEPT
                    ![i].phase = IF At(i, "diagnosing") THEN "diagnosed"
                                 ELSE IF failed THEN "broken" ELSE "body",
                    ![i].outcome = IF failed THEN done.error ELSE @]
                /\ UNCHANGED shell
        /\ UNCHANGED <<thrown, exit>>

\* A write of the command failed, and the command with it.
WriteFails(i) ==
    /\ At(i, "broken")
    /\ StageFails(i, stage[i].outcome)
    /\ Keep

\* The diagnostic is out, or lost; the step it is charged may be one too many.
StageDiagnosed(i) ==
    /\ At(i, "diagnosed")
    /\ IF stage[i].outcome = None
       THEN \E outcome \in {"failed", "E2BIG"} : Finish(i, outcome)
       ELSE Finish(i, stage[i].outcome)
    /\ Keep

ShellReported ==
    /\ shell = "reported"
    /\ pipe' = CloseRoot
    /\ shell' = "completed" /\ exit' = "failed"
    /\ Quiet /\ UNCHANGED <<stage, thrown>>
-----------------------------------------------------------------------------
(* The rest of the world.                                                  *)

Elsewhere == UNCHANGED <<stage, shell, thrown, exit>>

Consumer(e) == (Read(e) \/ Cancel(e)) /\ Elsewhere

\* The deadline is armed until the execution reports.
Deadline == shell # "completed" /\ AbortExecution("ETIMEDOUT") /\ Elsewhere

Canceled == AbortExecution("ECANCELED") /\ Elsewhere

Continue(e) ==
    \/ (StartWrite(e) \/ ResumeWrite(e)) /\ Elsewhere
    \/ Settles(e)

Command(i) ==
    \/ StageReads(i) \/ ReadArrives(i) \/ ReadFails(i)
    \/ StageWrites(i) \/ WriteFails(i)
    \/ StageEnds(i) \/ StageThrows(i) \/ StageDiagnosed(i)

Execution == ShellEnds \/ ShellFails \/ ShellReports \/ ShellReported

Idle(e) == IdleTimeout(e) /\ Elsewhere
Abandoned == DeliverCancel /\ Elsewhere

PipelineNext ==
    \/ \E i \in Stage : Command(i)
    \/ Execution
    \/ \E e \in Edge : Continue(e) \/ Idle(e)
    \/ \E e \in Root : Consumer(e)
    \/ Abandoned
    \/ Deadline
    \/ Canceled

PipelineSpec == PipelineInit /\ [][PipelineNext]_pipelineVars

\* Commands end: one that is not waiting reads, writes, ends or throws, and has
\* only so much to write.  Continuations run, and the idle timers fire; nothing
\* is asked of the caller, who may never read, nor of the deadline.
PipelineFairSpec ==
    /\ PipelineSpec
    /\ \A i \in Stage : WF_pipelineVars(Command(i))
    /\ \A e \in Edge : WF_pipelineVars(Continue(e)) /\ WF_pipelineVars(Idle(e))
    /\ WF_pipelineVars(Execution)
    /\ WF_pipelineVars(Abandoned)
-----------------------------------------------------------------------------
(* What a pipeline promises.                                               *)

\* An execution that reports success lost nothing on the way, unless it was
\* aborted after its commands were done with their outputs: every pipe ended
\* well, what a stage wrote to a reader that stayed was taken by it, and
\* whoever reads stdout can still get all of it.
SuccessIsComplete ==
    exit = "ok" /\ signal = None =>
        /\ \A e \in Edge \ {Err} : pipe[e].finished # "errored"
        /\ \A e \in Edge \ {Err} :
            ~pipe[e].dropped => pipe[e].received \o pipe[e].queue = pipe[e].accepted
        /\ ~pipe[Out].dropped => Len(pipe[Out].accepted) = stage[N].wrote

\* When nobody holds a pipe any more, no write is under way on it, and its
\* reader has been told: nothing waits on a pipe that nobody will end.
NobodyWaitsForTheDead ==
    \A e \in Edge : pipe[e].held = {} =>
        /\ pipe[e].writes = <<>>
        /\ pipe[e].finished # "open" \/ pipe[e].closeRequested

\* Every execution reports and every stage ends, even of a caller that never
\* reads a byte: the idle timer breaks what would wait forever.
EverythingSettles == <>(shell = "completed" /\ \A i \in Stage : stage[i].phase = "done")
=============================================================================
