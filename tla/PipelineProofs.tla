---------------------------- MODULE PipelineProofs ----------------------------
(***************************************************************************)
(* A pipeline of any number of stages: its pipes are what SharedPipe shows *)
(* of pipes in any hands, nothing waits on a pipe that nobody will end,    *)
(* and an execution that reports success lost nothing.                     *)
(***************************************************************************)
EXTENDS Pipeline, SharedPipeProofs

\* A write under way at the head of its pipe that failed.
Failed(s) == s.writes # <<>> /\ Head(s.writes).phase = "failed"

\* Whoever waits for a write holds the pipe, and waits for one; the pipe has
\* ended, or was asked to, when its last descriptor is gone; and no write fails
\* on a pipe that is open.
Tidy(s) ==
    /\ \A k \in 1 .. Len(s.writes) : s.writes[k].by \in s.held
    /\ \A j, k \in 1 .. Len(s.writes) : s.writes[j].by = s.writes[k].by => j = k
    /\ ~s.closing
    /\ s.held = {} => s.terminal
    /\ s.terminal => s.finished # "open" \/ s.closeRequested
    /\ s.failure # None \/ Failed(s) => s.finished # "open"

\* Who waits for a write on a pipe, and what for.
Awaits(e, d) ==
    \/ d \in Stage /\ e = d /\ At(d, "writing")
    \/ d \in Stage /\ e = Err /\ At(d, "diagnosing")
    \/ d = Shell /\ e = Err /\ shell = "reporting"

\* A stage whose output failed, but for a signal, is about to throw.
AboutToThrow(i) ==
    \/ At(i, "broken") /\ stage[i].outcome = "E2BIG"
    \/ At(i, "writing") /\ Failed(pipe[i]) /\ Head(pipe[i].writes).error = "E2BIG"

\* What a stage wrote is what its output accepted, while that is alive.
Counted(i) ==
    Alive(pipe[i]) =>
        /\ Len(pipe[i].accepted) = stage[i].wrote
        /\ pipe[i].writes # <<>> => Head(pipe[i].writes).phase # "queued"

StageType ==
    [phase : {"body", "reading", "writing", "diagnosing", "diagnosed", "broken", "done"},
     wrote : 0 .. MaxOut, seen : Nat, outcome : Outcome]

PInv ==
    /\ PipesGood
    /\ stage \in [Stage -> StageType]
    /\ thrown \in Reason
    /\ \A e \in Edge : Tidy(pipe[e])
    /\ \A e \in Edge : \A k \in 1 .. Len(pipe[e].writes) : Awaits(e, pipe[e].writes[k].by)
    /\ \A i \in Stage :
        signal = None /\ thrown = None /\ pipe[i].finished = "errored" => AboutToThrow(i)
    /\ \A i \in Stage : Counted(i)
    /\ exit = "ok" =>
        shell = "completed" /\ thrown = None /\ \A i \in Stage : At(i, "done")
-----------------------------------------------------------------------------
(* What the steps of a pipe do to its descriptors and writes. *)

SameHands(s, t) ==
    /\ t.held = s.held /\ t.terminal = s.terminal /\ t.closing = s.closing
    /\ t.closeRequested = s.closeRequested /\ t.failure = s.failure

SameWriters(s, t) ==
    /\ Len(t.writes) = Len(s.writes)
    /\ \A k \in 1 .. Len(s.writes) : t.writes[k].by = s.writes[k].by

\* The write at the head is as far as it was, or was woken.
HeadKept(s, t) ==
    s.writes # <<>> =>
        \/ Head(t.writes) = Head(s.writes)
        \/ Head(s.writes).phase = "waiting" /\ Head(t.writes).phase = "woken"

\* No write begins or ends; what has failed or lost its reader stays so.
Calm(s, t) ==
    /\ SameWriters(s, t) /\ HeadKept(s, t)
    /\ t.accepted = s.accepted
    /\ s.dropped => t.dropped
    /\ s.finished = "errored" => t.finished = "errored"

LEMMA StreamFields ==
    ASSUME NEW s, s \in PipeType, NEW t, t \in PipeType, SameStream(s, t)
    PROVE  /\ SameHands(s, t)
           /\ t.finished = s.finished /\ t.cancelled = s.cancelled /\ t.dropped = s.dropped
           /\ t.accepted = s.accepted /\ t.error = s.error /\ t.queue = s.queue
  BY DEF SameStream, SameHands, PipeType

LEMMA HeadIs ==
    ASSUME NEW s, s \in PipeType, s.writes # <<>>, NEW phase \in Phase, NEW error \in Reason,
           NEW t, t = HeadAt(s, phase, error)
    PROVE  /\ t \in PipeType /\ SameStream(s, t) /\ SameWriters(s, t)
           /\ t.writes # <<>> /\ Head(t.writes).phase = phase /\ Head(t.writes).error = error
<1> DEFINE h == [Head(s.writes) EXCEPT !.phase = phase, !.error = error]
<1>1. s.writes \in Seq(WriteType)
  BY DEF PipeType, WriteType
<1>2. Head(s.writes) \in WriteType /\ Head(s.writes) = s.writes[1]
  BY <1>1
<1>3. h \in WriteType /\ h.phase = phase /\ h.error = error /\ h.by = s.writes[1].by
  BY <1>2 DEF WriteType
<1>4. t.writes = <<h>> \o Tail(s.writes)
  BY DEF HeadAt, PipeType
<1>5. /\ t \in PipeType /\ SameStream(s, t) /\ t.writes # <<>>
      /\ Len(t.writes) = Len(s.writes)
      /\ \A k \in 2 .. Len(s.writes) : t.writes[k] = s.writes[k]
  BY HeadChanged DEF SameStream
<1> HIDE DEF h
<1>6. Head(t.writes) = h /\ t.writes[1] = h
  BY <1>1, <1>3, <1>4
<1>7. \A k \in 1 .. Len(s.writes) : k = 1 \/ k \in 2 .. Len(s.writes)
  BY <1>1
<1> QED  BY <1>3, <1>5, <1>6, <1>7 DEF SameWriters

\* Nothing about the writes is different if they are the same.
LEMMA SameWrites ==
    ASSUME NEW s, NEW t, t.writes = s.writes
    PROVE  SameWriters(s, t) /\ HeadKept(s, t)
  BY DEF SameWriters, HeadKept

LEMMA WakeIs ==
    ASSUME NEW s, s \in PipeType, NEW t, t = WakeWriters(s)
    PROVE  t \in PipeType /\ SameStream(s, t) /\ SameWriters(s, t) /\ HeadKept(s, t)
<1>1. CASE t = s
  <2>1. SameStream(s, t)
    BY <1>1 DEF SameStream, PipeType
  <2> QED  BY <1>1, <2>1, SameWrites
<1>2. CASE Waiting(s) /\ t = HeadAt(s, "woken", None)
  <2>1. s.writes # <<>> /\ "woken" \in Phase /\ None \in Reason
    BY <1>2 DEF Waiting, Phase, Reason
  <2>2. /\ t \in PipeType /\ SameStream(s, t) /\ SameWriters(s, t)
        /\ Head(t.writes).phase = "woken"
    BY <1>2, <2>1, HeadIs
  <2> QED  BY <1>2, <2>2 DEF HeadKept, Waiting
<1> QED  BY <1>1, <1>2 DEF WakeWriters

\* The descriptors of a stream that goes on or ends are as tidy as before.
LEMMA TidyKept ==
    ASSUME NEW s, Tidy(s), NEW t, SameHands(s, t), SameWriters(s, t),
           s.finished # "open" => t.finished # "open",
           Failed(t) => Failed(s) \/ t.finished # "open"
    PROVE  Tidy(t)
  BY DEF Tidy, SameHands, SameWriters

\* Steps of the stream that wake its writer or not.
LEMMA Settling ==
    ASSUME NEW s, Tidy(s), NEW u, SameHands(s, u), u.writes = s.writes,
           u.accepted = s.accepted, s.dropped => u.dropped,
           s.finished # "open" => u.finished = s.finished,
           u \in PipeType, NEW t, t = WakeWriters(u) \/ t = u
    PROVE  /\ Tidy(t) /\ Calm(s, t) /\ t.finished = u.finished /\ SameHands(s, t)
<1>1. /\ t \in PipeType /\ SameStream(u, t) /\ SameWriters(u, t) /\ HeadKept(u, t)
  <2>1. CASE t = u
    BY <2>1, SameWrites DEF SameStream, PipeType
  <2> QED  BY <2>1, WakeIs
<1>2. /\ SameHands(u, t) /\ t.finished = u.finished /\ t.dropped = u.dropped
      /\ t.accepted = u.accepted
  BY <1>1, StreamFields
<1>3. SameWriters(s, t) /\ HeadKept(s, t) /\ SameHands(s, t)
  BY <1>1, <1>2 DEF SameWriters, HeadKept, SameHands
<1>4. Failed(t) => Failed(s)
  <2>1. t.writes # <<>> => s.writes # <<>>
    <3>1. t.writes \in Seq(WriteType) /\ u.writes \in Seq(WriteType)
      BY <1>1 DEF PipeType, WriteType
    <3>2. Len(t.writes) = Len(u.writes)
      BY <1>1 DEF SameWriters
    <3> QED  BY <3>1, <3>2
  <2> QED  BY <1>3, <2>1 DEF Failed, HeadKept
<1>5. Tidy(t)
  BY <1>2, <1>3, <1>4, TidyKept
<1> QED  BY <1>2, <1>3, <1>5 DEF Calm

\* A step of a tidy pipe at which no write begins or ends.
Eases(s, t) == Good(t) /\ Step(s, t) /\ Tidy(t) /\ Calm(s, t)
Unbroken(s, t) == t.finished = "errored" => s.finished = "errored"

LEMMA DequeuedEases ==
    ASSUME NEW s, Good(s), Tidy(s), s.queue # <<>>, NEW t, t = Dequeued(s)
    PROVE  Eases(s, t) /\ Unbroken(s, t)
<1> DEFINE rest == [s EXCEPT !.queue = Tail(s.queue), !.received = Append(s.received, Head(s.queue))]
<1>1. s \in PipeType /\ Good(t) /\ Step(s, t)
  BY DequeuedGood DEF Good, Sound
<1>2. s.finished = "open"
  BY DEF Good, Sound
<1>3. Append(s.received, Head(s.queue)) \in Seq(Chunk) /\ Tail(s.queue) \in Seq(Chunk)
  BY <1>1, MoveHead DEF PipeType
<1>4. rest \in PipeType
  BY <1>1, <1>3 DEF PipeType
<1>5. /\ SameHands(s, rest) /\ rest.writes = s.writes /\ rest.accepted = s.accepted
      /\ rest.dropped = s.dropped /\ rest.finished = s.finished
  BY <1>1 DEF PipeType, SameHands
<1>6. t = IF s.closeRequested /\ rest.queue = <<>> THEN FinishClosed(rest) ELSE WakeWriters(rest)
  BY DEF Dequeued
<1> HIDE DEF rest
<1>7. CASE t = WakeWriters(rest)
  <2>1. Tidy(t) /\ Calm(s, t) /\ t.finished = rest.finished
    BY <1>4, <1>5, <1>7, Settling
  <2> QED  BY <1>1, <1>2, <1>5, <2>1 DEF Eases, Unbroken
<1>8. CASE t = FinishClosed(rest)
  <2>1. t \in PipeType
    BY <1>1 DEF Good, Sound
  <2>2. /\ SameHands(s, t) /\ t.writes = s.writes /\ t.accepted = s.accepted
        /\ t.dropped = s.dropped /\ t.finished = "closed"
    BY <1>4, <1>5, <1>8 DEF FinishClosed, PipeType, SameHands
  <2>3. Tidy(t) /\ Calm(s, t)
    BY <1>2, <2>1, <2>2, Settling
  <2> QED  BY <1>1, <2>2, <2>3 DEF Eases, Unbroken
<1> QED  BY <1>6, <1>7, <1>8

LEMMA ReadsEase ==
    ASSUME NEW s, Good(s), Tidy(s), NEW reads \in 0 .. MaxReads,
           s.queue = <<>>, s.finished = "open", NEW t, t = [s EXCEPT !.reads = reads]
    PROVE  Eases(s, t) /\ Unbroken(s, t)
<1>1. s \in PipeType /\ Good(t) /\ Step(s, t)
  BY ReadsGood DEF Good, Sound
<1>2. t \in PipeType
  BY <1>1 DEF Good, Sound
<1>3. /\ SameHands(s, t) /\ t.writes = s.writes /\ t.accepted = s.accepted
      /\ t.dropped = s.dropped /\ t.finished = s.finished
  BY <1>1 DEF PipeType, SameHands
<1>4. Tidy(t) /\ Calm(s, t)
  BY <1>2, <1>3, Settling
<1> QED  BY <1>1, <1>3, <1>4 DEF Eases, Unbroken

\* Nothing happens.
LEMMA StillEases ==
    ASSUME NEW s, Good(s), Tidy(s)
    PROVE  Eases(s, s) /\ Unbroken(s, s)
<1>1. Step(s, s)
  BY DEF Step
<1>2. Calm(s, s)
  BY SameWrites DEF Calm
<1> QED  BY <1>1, <1>2 DEF Eases, Unbroken

LEMMA CancelEases ==
    ASSUME NEW s, Good(s), Tidy(s), NEW reason \in Reason \ {None},
           NEW t, t = ConsumerCancel(s, reason)
    PROVE  Eases(s, t) /\ Unbroken(s, t)
<1>1. s \in PipeType /\ Good(t) /\ Step(s, t)
  BY CancelGood DEF Good, Sound
<1>2. CASE s.finished # "open"
  BY <1>2, StillEases DEF ConsumerCancel
<1>3. CASE s.finished = "open"
  <2> DEFINE u == [FinishClosed([s EXCEPT !.queue = <<>>]) EXCEPT !.cancelled = reason, !.dropped = TRUE]
  <2>1. u = [[s EXCEPT !.queue = <<>>, !.reads = 0]
                EXCEPT !.finished = "closed", !.cancelled = reason, !.dropped = TRUE]
    BY <1>1 DEF FinishClosed, PipeType
  <2>2. t = WakeWriters(u)
    BY <1>3 DEF ConsumerCancel
  <2> HIDE DEF u
  <2>3. u \in PipeType
    <3>1. [s EXCEPT !.queue = <<>>, !.reads = 0] \in PipeType
      BY <1>1, EmptyType
    <3> QED  BY <2>1, <3>1 DEF PipeType
  <2>4. /\ SameHands(s, u) /\ u.writes = s.writes /\ u.accepted = s.accepted
        /\ u.dropped /\ u.finished = "closed"
    BY <1>1, <2>1 DEF PipeType, SameHands
  <2>5. Tidy(t) /\ Calm(s, t) /\ t.finished = u.finished
    BY <1>3, <2>2, <2>3, <2>4, Settling
  <2> QED  BY <1>1, <2>4, <2>5 DEF Eases, Unbroken
<1> QED  BY <1>2, <1>3

\* A stream that fails fails once, and keeps what it accepted.
LEMMA BreakIs ==
    ASSUME NEW s, Sound(s), NEW reason \in Reason \ {None},
           NEW t, t = [ErrorStream(s, reason) EXCEPT !.cancelled = reason]
    PROVE  /\ t \in PipeType /\ SameHands(s, t) /\ t.writes = s.writes
           /\ t.accepted = s.accepted /\ t.dropped = s.dropped
           /\ t.finished = IF s.finished = "open" THEN "errored" ELSE s.finished
<1>1. s \in PipeType /\ t \in PipeType
  BY BreakSound DEF Sound
<1>2. CASE s.finished # "open"
  <2>1. t = [s EXCEPT !.cancelled = reason]
    BY <1>2 DEF ErrorStream
  <2> QED  BY <1>1, <1>2, <2>1 DEF PipeType, SameHands
<1>3. CASE s.finished = "open"
  <2>1. t = [s EXCEPT !.finished = "errored", !.error = reason, !.queue = <<>>, !.reads = 0,
                      !.cancelled = reason]
    BY <1>1, <1>3 DEF ErrorStream, PipeType
  <2> QED  BY <1>1, <1>3, <2>1 DEF PipeType, SameHands
<1> QED  BY <1>2, <1>3

LEMMA SignalEases ==
    ASSUME NEW s, Good(s), Tidy(s), NEW reason \in Reason \ {None},
           NEW t, t = AbortFromSignal(s, reason)
    PROVE  Eases(s, t)
<1>1. Sound(s) /\ Good(t) /\ Step(s, t)
  BY SignalGood DEF Good
<1>2. CASE t = s
  BY <1>2, StillEases
<1>3. CASE t = WakeWriters([ErrorStream(s, reason) EXCEPT !.cancelled = reason])
  <2> DEFINE u == [ErrorStream(s, reason) EXCEPT !.cancelled = reason]
  <2>1. /\ u \in PipeType /\ SameHands(s, u) /\ u.writes = s.writes
        /\ u.accepted = s.accepted /\ u.dropped = s.dropped
        /\ u.finished = IF s.finished = "open" THEN "errored" ELSE s.finished
    BY <1>1, BreakIs
  <2>2. t = WakeWriters(u)
    BY <1>3
  <2> HIDE DEF u
  <2>3. Tidy(t) /\ Calm(s, t)
    BY <2>1, <2>2, Settling
  <2> QED  BY <1>1, <2>3 DEF Eases
<1> QED  BY <1>2, <1>3 DEF AbortFromSignal

\* A descriptor that waits for no write.
Waitless(s, d) == \A k \in 1 .. Len(s.writes) : s.writes[k].by # d

\* A descriptor that was not the last one, or not the one to end the pipe.
LEMMA LeaveEases ==
    ASSUME NEW s, Good(s), Tidy(s), NEW d, Waitless(s, d),
           d \notin s.held \/ s.terminal \/ s.held \ {d} # {},
           NEW t, t = [s EXCEPT !.held = s.held \ {d}]
    PROVE  Eases(s, t) /\ Unbroken(s, t)
<1>1. s \in PipeType /\ ~s.closing
  BY DEF Good, Sound, Tidy
<1>2. t = [s EXCEPT !.held = s.held \ {d}, !.terminal = s.terminal, !.closing = s.closing]
  BY <1>1 DEF PipeType
<1>3. s.held \ {d} \in SUBSET Descriptor /\ s.terminal \in BOOLEAN /\ s.closing \in BOOLEAN
  BY <1>1 DEF PipeType
<1>4. Good(t) /\ Step(s, t)
  BY <1>1, <1>2, <1>3, HandlesGood
<1>5. /\ t.held = s.held \ {d} /\ t.terminal = s.terminal /\ t.closing = s.closing
      /\ t.closeRequested = s.closeRequested /\ t.failure = s.failure
      /\ t.writes = s.writes /\ t.accepted = s.accepted
      /\ t.dropped = s.dropped /\ t.finished = s.finished
  BY <1>1 DEF PipeType
<1>6. Tidy(t)
  BY <1>5 DEF Tidy, Failed, Waitless
<1>7. Calm(s, t)
  BY <1>5, SameWrites DEF Calm
<1> QED  BY <1>4, <1>5, <1>6, <1>7 DEF Eases, Unbroken

\* The last descriptor finds no write under way, and ends the pipe.
LEMMA ClosePipeEases ==
    ASSUME NEW s, Good(s), Tidy(s), NEW d, Waitless(s, d), NEW t, t = ClosePipe(s, d)
    PROVE  Eases(s, t) /\ Unbroken(s, t)
<1>1. s \in PipeType /\ Sound(s) /\ ~s.closing
  BY DEF Good, Sound, Tidy
<1>2. CASE d \notin s.held \/ s.terminal \/ s.held \ {d} # {}
  <2>1. SinkClose(s, d) = [s EXCEPT !.held = s.held \ {d}]
    BY <1>1, <1>2 DEF SinkClose, PipeType
  <2>2. ~SinkClose(s, d).closing
    BY <1>1, <2>1 DEF PipeType
  <2>3. t = [s EXCEPT !.held = s.held \ {d}]
    BY <2>1, <2>2 DEF ClosePipe
  <2> QED  BY <1>2, <2>3, LeaveEases
<1>3. CASE ~(d \notin s.held \/ s.terminal \/ s.held \ {d} # {})
  <2> DEFINE ended == [s EXCEPT !.held = {}, !.terminal = TRUE, !.closing = FALSE]
  <2>1. /\ SinkClose(s, d).closing /\ SinkClose(s, d).failure = s.failure
        /\ [SinkClose(s, d) EXCEPT !.closing = FALSE] = ended
    BY <1>1, <1>3 DEF SinkClose, PipeType
  <2>2. t = IF s.failure = None THEN PipeClose(ended) ELSE ended
    BY <2>1 DEF ClosePipe
  <2>3. s.writes = <<>>
    <3>1. s.held \subseteq {d}
      BY <1>3
    <3>2. \A k \in 1 .. Len(s.writes) : FALSE
      BY <3>1 DEF Tidy, Waitless
    <3>3. s.writes \in Seq(WriteType)
      BY <1>1 DEF PipeType, WriteType
    <3> QED  BY <3>2, <3>3
  <2>4. Good(ended) /\ Step(s, ended)
    BY <1>1, HandlesGood
  <2>5. /\ ended \in PipeType
        /\ ended.held = {} /\ ended.terminal /\ ended.closing = FALSE
        /\ ended.closeRequested = s.closeRequested /\ ended.failure = s.failure
        /\ ended.writes = <<>> /\ ended.accepted = s.accepted /\ ended.received = s.received
        /\ ended.dropped = s.dropped /\ ended.finished = s.finished
        /\ ended.cancelled = s.cancelled /\ ended.queue = s.queue
    BY <1>1, <2>3 DEF PipeType
  <2> HIDE DEF ended
  <2>6. CASE s.failure # None
    <3>1. t = ended
      BY <2>2, <2>6
    <3>2. Tidy(t)
      BY <2>3, <2>5, <2>6, <3>1 DEF Tidy
    <3>3. Calm(s, t)
      BY <2>3, <2>5, <3>1, SameWrites DEF Calm
    <3> QED  BY <2>4, <2>5, <3>1, <3>2, <3>3 DEF Eases, Unbroken
  <2>7. CASE s.failure = None
    <3> DEFINE off == [ended EXCEPT !.listening = FALSE]
               asked == [off EXCEPT !.closeRequested = TRUE]
               u == IF ended.cancelled # None \/ ended.finished # "open" \/ ended.closeRequested
                    THEN off
                    ELSE IF ended.queue = <<>> THEN FinishClosed(asked) ELSE asked
    <3>1. t = WakeWriters(u)
      BY <2>2, <2>7 DEF PipeClose
    <3>2. t = PipeClose(ended)
      BY <2>2, <2>7
    <3>3. Good(t) /\ Step(ended, t)
      BY <2>4, <2>5, <2>7, <3>2, PipeCloseGood DEF Good
    <3>4. /\ u.held = {} /\ u.terminal /\ u.closing = FALSE /\ u.failure = None
          /\ u.writes = <<>> /\ u.accepted = s.accepted /\ u.dropped = s.dropped
      BY <2>5, <2>7 DEF PipeType, FinishClosed
    <3>5. /\ s.finished # "open" => u.finished = s.finished
          /\ u.finished = "errored" => s.finished = "errored"
          /\ u.finished # "open" \/ u.closeRequested
      <4>1. s.cancelled # None => s.finished # "open"
        BY <1>1 DEF Sound
      <4> QED  BY <2>5, <4>1 DEF PipeType, FinishClosed
    <3> HIDE DEF u
    <3>6. t = u
      BY <3>1, <3>4 DEF WakeWriters, Waiting
    <3>7. Tidy(t)
      BY <3>4, <3>5, <3>6 DEF Tidy, Failed
    <3>8. Calm(s, t)
      BY <2>3, <3>4, <3>5, <3>6, SameWrites DEF Calm
    <3>9. Step(s, t)
      <4>1. StateOf(ended) = StateOf(s)
        BY <1>1, <2>5 DEF StateOf, PipeType
      <4> QED  BY <2>5, <3>3, <4>1 DEF Step
    <3> QED  BY <3>3, <3>5, <3>6, <3>7, <3>8, <3>9 DEF Eases, Unbroken
  <2> QED  BY <2>6, <2>7
<1> QED  BY <1>2, <1>3

\* A descriptor that fails ends the pipe for all.
LEMMA SinkAbortEases ==
    ASSUME NEW s, Good(s), Tidy(s), NEW d, Waitless(s, d), NEW t, t = SinkAbort(s, d, "BUG")
    PROVE  Eases(s, t)
<1>0. "BUG" \in Reason \ {None}
  BY SharedPipeAssumption DEF Reason, Failure
<1>1. s \in PipeType /\ Sound(s) /\ ~s.closing /\ Good(t) /\ Step(s, t)
  BY <1>0, SinkAbortGood DEF Good, Sound, Tidy
<1>2. CASE d \notin s.held \/ s.terminal
  <2>1. t = [s EXCEPT !.held = s.held \ {d}]
    BY <1>1, <1>2 DEF SinkAbort, PipeType
  <2> QED  BY <1>2, <2>1, LeaveEases
<1>3. CASE ~(d \notin s.held \/ s.terminal)
  <2> DEFINE why == IF s.failure = None THEN "BUG" ELSE s.failure
             off == [s EXCEPT !.held = s.held \ {d}, !.terminal = TRUE, !.failure = why,
                              !.listening = FALSE]
             u == IF s.cancelled = None THEN ErrorStream(off, "BUG") ELSE off
  <2>1. t = WakeWriters(u)
    BY <1>1, <1>3 DEF SinkAbort, PipeAbort, PipeType
  <2>2. why \in Reason /\ why # None
    BY <1>0, <1>1 DEF PipeType
  <2> HIDE DEF why
  <2>3. /\ off \in PipeType
        /\ off.held = s.held \ {d} /\ off.terminal /\ off.failure = why /\ off.closing = s.closing
        /\ off.writes = s.writes /\ off.accepted = s.accepted /\ off.dropped = s.dropped
        /\ off.finished = s.finished
    BY <1>1, <2>2 DEF PipeType
  <2> HIDE DEF off
  <2>4. /\ u.held = s.held \ {d} /\ u.terminal /\ u.failure = why /\ u.closing = s.closing
        /\ u.writes = s.writes /\ u.accepted = s.accepted /\ u.dropped = s.dropped
        /\ u.finished # "open" /\ (s.finished = "errored" => u.finished = "errored")
        /\ u \in PipeType
    <3>1. CASE s.cancelled = None /\ s.finished = "open"
      <4>1. u = [[off EXCEPT !.queue = <<>>, !.reads = 0] EXCEPT !.finished = "errored", !.error = "BUG"]
        BY <2>3, <3>1 DEF ErrorStream, PipeType
      <4>2. [off EXCEPT !.queue = <<>>, !.reads = 0] \in PipeType
        BY <2>3, EmptyType
      <4> HIDE DEF u
      <4>3. u \in PipeType
        BY <1>0, <4>1, <4>2 DEF PipeType
      <4>4. /\ u.held = off.held /\ u.terminal = off.terminal /\ u.failure = off.failure
            /\ u.closing = off.closing /\ u.writes = off.writes /\ u.accepted = off.accepted
            /\ u.dropped = off.dropped /\ u.finished = "errored"
        BY <2>3, <4>1 DEF PipeType
      <4> QED  BY <2>3, <3>1, <4>3, <4>4
    <3>2. CASE ~(s.cancelled = None /\ s.finished = "open")
      <4>1. s.finished # "open"
        BY <1>1, <3>2 DEF Sound
      <4>2. u = off
        BY <2>3, <4>1 DEF ErrorStream
      <4> QED  BY <2>3, <4>1, <4>2
    <3> QED  BY <3>1, <3>2
  <2> HIDE DEF u
  <2>5. t \in PipeType /\ SameStream(u, t) /\ SameWriters(u, t) /\ HeadKept(u, t)
    BY <2>1, <2>4, WakeIs
  <2>6. /\ SameHands(u, t) /\ t.finished = u.finished /\ t.dropped = u.dropped
        /\ t.accepted = u.accepted
    BY <2>4, <2>5, StreamFields
  <2>7. Tidy(t)
    <3>1. /\ t.held = s.held \ {d} /\ t.terminal /\ ~t.closing /\ t.finished # "open"
          /\ Len(t.writes) = Len(s.writes)
          /\ \A k \in 1 .. Len(s.writes) : t.writes[k].by = s.writes[k].by
      BY <1>1, <2>4, <2>5, <2>6 DEF SameHands, SameWriters
    <3>2. /\ \A k \in 1 .. Len(s.writes) : s.writes[k].by \in s.held /\ s.writes[k].by # d
          /\ \A j, k \in 1 .. Len(s.writes) : s.writes[j].by = s.writes[k].by => j = k
      BY DEF Tidy, Waitless
    <3>3. /\ \A k \in 1 .. Len(t.writes) : t.writes[k].by \in t.held
          /\ \A j, k \in 1 .. Len(t.writes) : t.writes[j].by = t.writes[k].by => j = k
      BY <3>1, <3>2
    <3> QED  BY <3>1, <3>3 DEF Tidy
  <2>8. Calm(s, t)
    BY <2>4, <2>5, <2>6 DEF Calm, SameWriters, HeadKept
  <2> QED  BY <1>1, <2>7, <2>8 DEF Eases
<1> QED  BY <1>2, <1>3
-----------------------------------------------------------------------------
(* Steps at which no write begins or ends. *)

LEMMA Places ==
    /\ Edge = Stage \cup {Err} /\ Err \notin Stage /\ Shell = Err /\ Descriptor = Edge
    /\ N \in Stage /\ Out = N /\ Root = {N, Err} /\ N \in Nat
    /\ \A i \in Stage : i \in Nat /\ (i # 1 => i - 1 \in Stage /\ i - 1 # i)
<1>1. N \in Nat \ {0} /\ Edge = 1 .. N + 1 /\ Descriptor = 1 .. N + 1 /\ Root = {N, N + 1}
  BY PipelineAssumption DEF Handles, Out, Err
<1> QED  BY <1>1 DEF Stage, Err, Shell, Out

LEMMA Errors ==
    /\ Failure \subseteq Outcome /\ {"ok", "failed", None} \subseteq Outcome
    /\ Failure \subseteq Reason \ {None} /\ None \in Reason
    /\ {"EPIPE", "E2BIG", "BUG", "ECANCELED", "ETIMEDOUT", "DOWNSTREAM"} = Failure
    /\ Reason \subseteq Outcome /\ None # "ok" /\ "ok" \notin Failure
  BY PipelineAssumption DEF Outcome, Reason, Failure

\* A stage that is not at a write waits for none, and the same of the shell.
LEMMA StageWaitless ==
    ASSUME PInv, NEW i \in Stage, stage[i].phase \notin {"writing", "diagnosing"}, NEW e \in Edge
    PROVE  Waitless(pipe[e], i)
<1>1. i # Shell
  BY Places
<1>2. ~Awaits(e, i)
  BY <1>1 DEF Awaits, At
<1> QED  BY <1>2 DEF PInv, Waitless

LEMMA ShellWaitless ==
    ASSUME PInv, shell # "reporting", NEW e \in Edge
    PROVE  Waitless(pipe[e], Shell)
<1>1. Shell \notin Stage
  BY Places
<1>2. ~Awaits(e, Shell)
  BY <1>1 DEF Awaits
<1> QED  BY <1>2 DEF PInv, Waitless

AllEase ==
    /\ pipe' \in [Edge -> PipeType]
    /\ \A e \in Edge : Eases(pipe[e], pipe'[e])

\* Whoever waits for a write still does.
StillAwaited ==
    /\ \A i \in Stage :
        /\ stage'[i].wrote = stage[i].wrote
        /\ At(i, "writing") => stage'[i].phase = "writing"
        /\ At(i, "diagnosing") => stage'[i].phase = "diagnosing"
    /\ shell = "reporting" => shell' = "reporting"

\* No output fails but what a signal or a throw accounts for.
Blameless ==
    \A i \in Stage :
        signal' = None /\ thrown' = None /\ pipe'[i].finished = "errored" =>
            /\ signal = None /\ thrown = None /\ pipe[i].finished = "errored"
            /\ stage'[i] = stage[i]

\* Success is for the end.
OkAtEnd ==
    exit = "ok" => shell = "completed" /\ thrown = None /\ \A i \in Stage : At(i, "done")

Budget ==
    /\ signal \in Reason /\ spent \in Nat
    /\ unbilled \in BOOLEAN /\ cancelling \in BOOLEAN

Typed == stage \in [Stage -> StageType] /\ thrown \in Reason

LEMMA CalmKeeps ==
    ASSUME PInv, AllEase, StillAwaited, Blameless, OkAtEnd', Budget', Typed'
    PROVE  PInv' /\ Moves
<1>1. \A e \in Edge : /\ Good(pipe'[e]) /\ Step(pipe[e], pipe'[e]) /\ Tidy(pipe'[e])
                      /\ Calm(pipe[e], pipe'[e])
  BY DEF AllEase, Eases
<1>2. Moves
  BY <1>1 DEF Moves, AllEase
<1>3. PipesGood'
  BY <1>1 DEF PipesGood, AllEase, Budget
<1>4. ASSUME NEW e \in Edge, NEW k \in 1 .. Len(pipe'[e].writes)
      PROVE  Awaits(e, pipe[e].writes[k].by)'
  <2> DEFINE d == pipe[e].writes[k].by
  <2>1. pipe'[e].writes[k].by = d /\ k \in 1 .. Len(pipe[e].writes)
    BY <1>1, <1>4 DEF Calm, SameWriters
  <2>2. Awaits(e, d)
    BY <2>1 DEF PInv
  <2> HIDE DEF d
  <2> QED  BY <2>1, <2>2 DEF Awaits, At, StillAwaited
<1>5. ASSUME NEW i \in Stage, signal' = None, thrown' = None, pipe'[i].finished = "errored"
      PROVE  AboutToThrow(i)'
  <2>1. /\ signal = None /\ thrown = None /\ pipe[i].finished = "errored"
        /\ stage'[i] = stage[i] /\ i \in Edge
    BY <1>5, Places DEF Blameless
  <2>2. AboutToThrow(i)
    BY <2>1 DEF PInv
  <2>3. CASE At(i, "broken") /\ stage[i].outcome = "E2BIG"
    BY <2>1, <2>3 DEF AboutToThrow, At
  <2>4. CASE At(i, "writing") /\ Failed(pipe[i]) /\ Head(pipe[i].writes).error = "E2BIG"
    <3>1. Head(pipe'[i].writes) = Head(pipe[i].writes)
      BY <1>1, <2>1, <2>4 DEF Calm, HeadKept, Failed
    <3>2. pipe'[i].writes # <<>>
      <4>1. pipe[i].writes \in Seq(WriteType) /\ pipe'[i].writes \in Seq(WriteType)
        BY <2>1 DEF PInv, PipesGood, AllEase, PipeType, WriteType
      <4>2. Len(pipe'[i].writes) = Len(pipe[i].writes)
        BY <1>1, <2>1 DEF Calm, SameWriters
      <4> QED  BY <2>4, <4>1, <4>2 DEF Failed
    <3> QED  BY <2>1, <2>4, <3>1, <3>2 DEF AboutToThrow, At, Failed
  <2> QED  BY <2>2, <2>3, <2>4 DEF AboutToThrow
<1>6. ASSUME NEW i \in Stage
      PROVE  Counted(i)'
  <2>1. Counted(i) /\ Calm(pipe[i], pipe'[i]) /\ i \in Edge
    BY <1>1, Places DEF PInv
  <2>2. Alive(pipe'[i]) => Alive(pipe[i])
    BY <2>1 DEF Alive, Calm
  <2>3. stage'[i].wrote = stage[i].wrote
    BY DEF StillAwaited
  <2>4. pipe'[i].writes # <<>> => pipe[i].writes # <<>>
    <3>1. pipe[i].writes \in Seq(WriteType) /\ pipe'[i].writes \in Seq(WriteType)
      BY <2>1 DEF PInv, PipesGood, AllEase, PipeType, WriteType
    <3>2. Len(pipe'[i].writes) = Len(pipe[i].writes)
      BY <2>1 DEF Calm, SameWriters
    <3> QED  BY <3>1, <3>2
  <2> QED  BY <2>1, <2>2, <2>3, <2>4 DEF Counted, Calm, HeadKept
<1>7. \A e \in Edge : Tidy(pipe[e])'
  BY <1>1
<1> QED  BY <1>2, <1>3, <1>4, <1>5, <1>6, <1>7 DEF PInv, OkAtEnd, Typed

\* A stage that is at no write, and not done.
Free(i) == stage[i].phase \notin {"writing", "diagnosing", "done"}

\* The output of a stage failed, and nobody has said so.
Blamed(i) == signal = None /\ thrown = None /\ pipe[i].finished = "errored"

\* What a stage is before it settles says who is not done.
LEMMA NotYet ==
    ASSUME PInv, NEW i \in Stage, stage[i].phase # "done"
    PROVE  exit # "ok"
  BY DEF PInv, At

LEMMA SettleTyped ==
    ASSUME PInv, NEW i \in Stage, NEW outcome \in Outcome, Settle(i, outcome)
    PROVE  /\ Typed'
           /\ \A j \in Stage : stage'[j].wrote = stage[j].wrote
           /\ \A j \in Stage : j # i => stage'[j] = stage[j]
           /\ thrown # None => thrown' = thrown
           /\ outcome \in Failure => thrown' # None
<1>1. /\ stage' = [stage EXCEPT ![i].phase = "done", ![i].outcome = outcome]
      /\ thrown' = IF thrown = None /\ outcome \in Failure THEN outcome ELSE thrown
  BY DEF Settle
<1>2. stage \in [Stage -> StageType] /\ thrown \in Reason
  BY DEF PInv
<1>3. stage' \in [Stage -> StageType] /\ thrown' \in Reason
  BY <1>1, <1>2, Errors DEF StageType
<1>4. \A j \in Stage : stage'[j].wrote = stage[j].wrote
  BY <1>1, <1>2 DEF StageType
<1>5. \A j \in Stage : j # i => stage'[j] = stage[j]
  BY <1>1, <1>2
<1>6. (thrown # None => thrown' = thrown) /\ (outcome \in Failure => thrown' # None)
  BY <1>1, Errors
<1> QED  BY <1>3, <1>4, <1>5, <1>6 DEF Typed

\* Its input, if it has one, loses its reader.
LEMMA UnreadIs ==
    ASSUME PInv, NEW i \in Stage
    PROVE  /\ DOMAIN Unread(i) \subseteq Edge
           /\ \A e \in DOMAIN Unread(i) :
                Eases(pipe[e], Unread(i)[e]) /\ Unbroken(pipe[e], Unread(i)[e])
<1>1. CASE i = 1
  BY <1>1 DEF Unread
<1>2. CASE i # 1
  <2>1. i - 1 \in Edge
    BY <1>2, Places
  <2>2. DOMAIN Unread(i) = {i - 1} /\ Unread(i)[i - 1] = ConsumerCancel(pipe[i - 1], "DOWNSTREAM")
    BY <1>2 DEF Unread
  <2>3. Good(pipe[i - 1]) /\ Tidy(pipe[i - 1]) /\ "DOWNSTREAM" \in Reason \ {None}
    BY <2>1, Errors DEF PInv, PipesGood
  <2> QED  BY <2>1, <2>2, <2>3, CancelEases
<1> QED  BY <1>1, <1>2

\* The stage lets go: its pipes end as they should, and a failure is thrown.
LEMMA FinishKeeps ==
    ASSUME PInv, NEW i \in Stage, NEW outcome \in Outcome, Free(i),
           Blamed(i) => outcome \in Failure, Finish(i, outcome), Keep
    PROVE  PInv' /\ Moves
<1>1. /\ Typed'
      /\ \A j \in Stage : stage'[j].wrote = stage[j].wrote
      /\ \A j \in Stage : j # i => stage'[j] = stage[j]
      /\ thrown # None => thrown' = thrown
      /\ outcome \in Failure => thrown' # None
  BY SettleTyped DEF Finish
<1>2. pipe' = [e \in Edge |->
            IF e \in DOMAIN Unread(i) THEN Unread(i)[e]
            ELSE IF e \in {i, Err} THEN ClosePipe(pipe[e], i)
            ELSE pipe[e]]
  BY DEF Finish
<1>3. ASSUME NEW e \in Edge
      PROVE  Eases(pipe[e], pipe'[e]) /\ Unbroken(pipe[e], pipe'[e])
  <2>1. Good(pipe[e]) /\ Tidy(pipe[e]) /\ Waitless(pipe[e], i)
    BY StageWaitless DEF Free, PInv, PipesGood
  <2>2. /\ Eases(pipe[e], ClosePipe(pipe[e], i)) /\ Unbroken(pipe[e], ClosePipe(pipe[e], i))
        /\ Eases(pipe[e], pipe[e]) /\ Unbroken(pipe[e], pipe[e])
    BY <2>1, ClosePipeEases, StillEases
  <2>3. e \in DOMAIN Unread(i) => Eases(pipe[e], Unread(i)[e]) /\ Unbroken(pipe[e], Unread(i)[e])
    BY UnreadIs
  <2>4. \/ e \in DOMAIN Unread(i) /\ pipe'[e] = Unread(i)[e]
        \/ pipe'[e] = ClosePipe(pipe[e], i)
        \/ pipe'[e] = pipe[e]
    BY <1>2
  <2> QED  BY <2>2, <2>3, <2>4
<1>4. AllEase
  <2>1. \A e \in Edge : pipe'[e] \in PipeType
    BY <1>3 DEF Eases, Good, Sound
  <2> QED  BY <1>2, <1>3, <2>1 DEF AllEase
<1>5. StillAwaited
  BY <1>1 DEF StillAwaited, Free, At, Keep
<1>6. Blameless
  <2> SUFFICES ASSUME NEW j \in Stage, signal' = None, thrown' = None, pipe'[j].finished = "errored"
               PROVE  Blamed(j) /\ stage'[j] = stage[j]
    BY DEF Blameless, Blamed
  <2>1. signal = None /\ thrown = None /\ pipe[j].finished = "errored"
    BY <1>1, <1>3, Places DEF Unbroken, Finish, Quiet
  <2>2. j # i
    BY <1>1, <2>1 DEF Blamed
  <2> QED  BY <1>1, <2>1, <2>2 DEF Blamed
<1>7. OkAtEnd' /\ Budget'
  <2>1. exit' # "ok"
    BY NotYet DEF Free, Keep
  <2> QED  BY <2>1 DEF OkAtEnd, Budget, Finish, Quiet, PInv, PipesGood
<1> QED  BY <1>1, <1>4, <1>5, <1>6, <1>7, CalmKeeps

LEMMA FinishBrokenKeeps ==
    ASSUME PInv, NEW i \in Stage, Free(i), FinishBroken(i), Keep
    PROVE  PInv' /\ Moves
<1>1. /\ Typed'
      /\ \A j \in Stage : stage'[j].wrote = stage[j].wrote
      /\ \A j \in Stage : j # i => stage'[j] = stage[j]
      /\ thrown' # None
  BY SettleTyped, Errors DEF FinishBroken
<1>2. pipe' = [e \in Edge |->
            IF e \in DOMAIN Unread(i) THEN Unread(i)[e]
            ELSE IF e \in {i, Err} THEN SinkAbort(pipe[e], i, "BUG")
            ELSE pipe[e]]
  BY DEF FinishBroken
<1>3. ASSUME NEW e \in Edge
      PROVE  Eases(pipe[e], pipe'[e])
  <2>1. Good(pipe[e]) /\ Tidy(pipe[e]) /\ Waitless(pipe[e], i)
    BY StageWaitless DEF Free, PInv, PipesGood
  <2>2. Eases(pipe[e], SinkAbort(pipe[e], i, "BUG")) /\ Eases(pipe[e], pipe[e])
    BY <2>1, SinkAbortEases, StillEases
  <2>3. e \in DOMAIN Unread(i) => Eases(pipe[e], Unread(i)[e])
    BY UnreadIs
  <2>4. \/ e \in DOMAIN Unread(i) /\ pipe'[e] = Unread(i)[e]
        \/ pipe'[e] = SinkAbort(pipe[e], i, "BUG")
        \/ pipe'[e] = pipe[e]
    BY <1>2
  <2> QED  BY <2>2, <2>3, <2>4
<1>4. AllEase
  <2>1. \A e \in Edge : pipe'[e] \in PipeType
    BY <1>3 DEF Eases, Good, Sound
  <2> QED  BY <1>2, <1>3, <2>1 DEF AllEase
<1>5. StillAwaited
  BY <1>1 DEF StillAwaited, Free, At, Keep
<1>6. Blameless
  BY <1>1 DEF Blameless
<1>7. OkAtEnd' /\ Budget'
  <2>1. exit' # "ok"
    BY NotYet DEF Free, Keep
  <2> QED  BY <2>1 DEF OkAtEnd, Budget, FinishBroken, Quiet, PInv, PipesGood
<1> QED  BY <1>1, <1>4, <1>5, <1>6, <1>7, CalmKeeps

AllUnbroken == \A e \in Edge : Unbroken(pipe[e], pipe'[e])

\* A step of one pipe, or of none.
LEMMA OneEases ==
    ASSUME PInv, NEW e \in Edge, NEW t, Eases(pipe[e], t), Set(e, t)
    PROVE  AllEase /\ (Unbroken(pipe[e], t) => AllUnbroken)
<1>1. pipe' = [pipe EXCEPT ![e] = t] /\ pipe \in [Edge -> PipeType]
  BY DEF Set, PInv, PipesGood
<1>2. t \in PipeType
  BY DEF Eases, Good, Sound
<1>3. ASSUME NEW f \in Edge
      PROVE  Eases(pipe[f], pipe'[f]) /\ (Unbroken(pipe[e], t) => Unbroken(pipe[f], pipe'[f]))
  <2>1. Eases(pipe[f], pipe[f]) /\ Unbroken(pipe[f], pipe[f])
    BY StillEases DEF PInv, PipesGood
  <2> QED  BY <1>1, <2>1
<1> QED  BY <1>1, <1>2, <1>3 DEF AllEase, AllUnbroken

LEMMA NoneEases ==
    ASSUME PInv, UNCHANGED pipe
    PROVE  AllEase /\ AllUnbroken
<1>1. \A e \in Edge : Eases(pipe[e], pipe[e]) /\ Unbroken(pipe[e], pipe[e])
  BY StillEases DEF PInv, PipesGood
<1> QED  BY <1>1 DEF AllEase, AllUnbroken, PInv, PipesGood

LEMMA ReadEases ==
    ASSUME PInv, NEW e \in Edge, Read(e)
    PROVE  AllEase /\ AllUnbroken
<1>1. Good(pipe[e]) /\ Tidy(pipe[e]) /\ pipe[e] \in PipeType
  BY DEF PInv, PipesGood
<1>2. CASE pipe[e].queue # <<>>
  <2>1. Set(e, Dequeued(pipe[e]))
    BY <1>2 DEF Read
  <2>2. Eases(pipe[e], Dequeued(pipe[e])) /\ Unbroken(pipe[e], Dequeued(pipe[e]))
    BY <1>1, <1>2, DequeuedEases
  <2> QED  BY <2>1, <2>2, OneEases
<1>3. CASE pipe[e].queue = <<>>
  <2> DEFINE t == [pipe[e] EXCEPT !.reads = pipe[e].reads + 1]
  <2>1. Set(e, t) /\ pipe[e].finished = "open" /\ pipe[e].reads < MaxReads
    BY <1>3 DEF Read
  <2>2. pipe[e].reads + 1 \in 0 .. MaxReads
    <3>1. pipe[e].reads \in 0 .. MaxReads
      BY <1>1 DEF PipeType
    <3> HIDE DEF t
    <3> QED  BY <2>1, <3>1, PipeAssumption
  <2>3. Eases(pipe[e], t) /\ Unbroken(pipe[e], t)
    BY <1>1, <1>3, <2>1, <2>2, ReadsEase
  <2> HIDE DEF t
  <2> QED  BY <2>1, <2>3, OneEases
<1> QED  BY <1>2, <1>3

LEMMA ConsumerCancelEases ==
    ASSUME PInv, NEW e \in Edge, Cancel(e)
    PROVE  AllEase /\ AllUnbroken
<1> DEFINE reason == IF e \in Root THEN "ECANCELED" ELSE "DOWNSTREAM"
           t == ConsumerCancel(pipe[e], reason)
<1>1. Good(pipe[e]) /\ Tidy(pipe[e]) /\ reason \in Reason \ {None} /\ Set(e, t)
  BY Errors DEF PInv, PipesGood, Cancel
<1> HIDE DEF reason
<1>2. Eases(pipe[e], t) /\ Unbroken(pipe[e], t)
  BY <1>1, CancelEases
<1> HIDE DEF t
<1> QED  BY <1>1, <1>2, OneEases

LEMMA AbortEases ==
    ASSUME PInv, NEW reason \in Reason \ {None}, AbortAll(reason)
    PROVE  AllEase
<1>1. pipe' = [e \in Edge |-> AbortFromSignal(pipe[e], reason)]
  BY DEF AbortAll
<1>2. ASSUME NEW e \in Edge
      PROVE  Eases(pipe[e], pipe'[e]) /\ pipe'[e] \in PipeType
  <2>1. Eases(pipe[e], AbortFromSignal(pipe[e], reason))
    BY SignalEases DEF PInv, PipesGood
  <2> QED  BY <1>1, <2>1 DEF Eases, Good, Sound
<1> QED  BY <1>1, <1>2 DEF AllEase

\* The execution lets go of its outputs.
LEMMA CloseRootEases ==
    ASSUME PInv, shell # "reporting", pipe' = CloseRoot
    PROVE  AllEase /\ AllUnbroken
<1>1. ASSUME NEW e \in Edge
      PROVE  Eases(pipe[e], pipe'[e]) /\ Unbroken(pipe[e], pipe'[e]) /\ pipe'[e] \in PipeType
  <2>1. Good(pipe[e]) /\ Tidy(pipe[e]) /\ Waitless(pipe[e], Shell)
    BY ShellWaitless DEF PInv, PipesGood
  <2>2. /\ Eases(pipe[e], ClosePipe(pipe[e], Shell)) /\ Unbroken(pipe[e], ClosePipe(pipe[e], Shell))
        /\ Eases(pipe[e], pipe[e]) /\ Unbroken(pipe[e], pipe[e])
    BY <2>1, ClosePipeEases, StillEases
  <2>3. pipe'[e] = IF e \in Root THEN ClosePipe(pipe[e], Shell) ELSE pipe[e]
    BY DEF CloseRoot
  <2> QED  BY <2>2, <2>3 DEF Eases, Good, Sound
<1>2. pipe' = [e \in Edge |-> pipe'[e]]
  BY DEF CloseRoot
<1> QED  BY <1>1, <1>2 DEF AllEase, AllUnbroken

LEMMA AbortRootEases ==
    ASSUME PInv, shell # "reporting",
           pipe' = [e \in Edge |-> IF e \in Root THEN SinkAbort(pipe[e], Shell, "BUG") ELSE pipe[e]]
    PROVE  AllEase
<1>1. ASSUME NEW e \in Edge
      PROVE  Eases(pipe[e], pipe'[e]) /\ pipe'[e] \in PipeType
  <2>1. Good(pipe[e]) /\ Tidy(pipe[e]) /\ Waitless(pipe[e], Shell)
    BY ShellWaitless DEF PInv, PipesGood
  <2>2. Eases(pipe[e], SinkAbort(pipe[e], Shell, "BUG")) /\ Eases(pipe[e], pipe[e])
    BY <2>1, SinkAbortEases, StillEases
  <2>3. pipe'[e] = IF e \in Root THEN SinkAbort(pipe[e], Shell, "BUG") ELSE pipe[e]
    OBVIOUS
  <2> QED  BY <2>2, <2>3 DEF Eases, Good, Sound
<1> QED  BY <1>1 DEF AllEase

\* Stages that stay as they are, with the execution or without it.
LEMMA StagesStay ==
    ASSUME PInv, AllEase, UNCHANGED stage, thrown' \in Reason, Budget', OkAtEnd',
           shell = "reporting" => shell' = "reporting",
           \/ thrown' # None
           \/ signal' # None
           \/ AllUnbroken /\ UNCHANGED <<signal, thrown>>
    PROVE  PInv' /\ Moves
<1>1. Typed' /\ StillAwaited
  BY DEF Typed, PInv, StillAwaited, At
<1>2. Blameless
  BY Places DEF Blameless, AllUnbroken, Unbroken
<1> QED  BY <1>1, <1>2, CalmKeeps

LEMMA ElsewhereKeeps ==
    ASSUME PInv, AllEase, Elsewhere, Budget',
           signal' # None \/ (AllUnbroken /\ UNCHANGED signal)
    PROVE  PInv' /\ Moves
<1>1. OkAtEnd'
  BY DEF PInv, OkAtEnd, Elsewhere, At
<1> QED  BY <1>1, StagesStay DEF Elsewhere, PInv
-----------------------------------------------------------------------------
(* Writes. *)

LEMMA FailIs ==
    ASSUME NEW s, Sound(s), NEW reason \in Reason \ {None}, NEW t, t = Fail(s, reason)
    PROVE  /\ t \in PipeType /\ SameHands(s, t) /\ SameWriters(s, t)
           /\ t.accepted = s.accepted /\ t.dropped = s.dropped
           /\ t.finished = IF s.finished = "open" THEN "errored" ELSE s.finished
<1> DEFINE u == IF s.cancelled = None
                THEN [ErrorStream(s, reason) EXCEPT !.cancelled = reason] ELSE s
<1>1. /\ u \in PipeType /\ SameHands(s, u) /\ u.writes = s.writes
      /\ u.accepted = s.accepted /\ u.dropped = s.dropped
      /\ u.finished = IF s.finished = "open" THEN "errored" ELSE s.finished
  <2>1. CASE s.cancelled = None
    <3>1. u = [ErrorStream(s, reason) EXCEPT !.cancelled = reason]
      BY <2>1
    <3> HIDE DEF u
    <3>2. /\ u \in PipeType /\ SameHands(s, u) /\ u.writes = s.writes
          /\ u.accepted = s.accepted /\ u.dropped = s.dropped
          /\ u.finished = IF s.finished = "open" THEN "errored" ELSE s.finished
      BY <3>1, BreakIs, ZenonT(30)
    <3> QED  BY <3>2
  <2>2. CASE s.cancelled # None
    BY <2>2 DEF Sound, SameHands
  <2> QED  BY <2>1, <2>2
<1>2. t = WakeWriters(u)
  BY DEF Fail
<1> HIDE DEF u
<1>3. t \in PipeType /\ SameStream(u, t) /\ SameWriters(u, t)
  BY <1>1, <1>2, WakeIs
<1>4. /\ SameHands(u, t) /\ t.finished = u.finished /\ t.dropped = u.dropped
      /\ t.accepted = u.accepted
  BY <1>1, <1>3, StreamFields
<1>5. SameHands(s, t) /\ SameWriters(s, t)
  BY <1>1, <1>3, <1>4 DEF SameHands, SameWriters
<1> QED  BY <1>1, <1>3, <1>4, <1>5

\* A write at the head of a stream: taken, or failed and the stream with it.
Taken(s, t) ==
    /\ s.finished = "open" /\ t.finished = "open"
    /\ Head(t.writes).phase \in {"accepted", "waiting"}
    /\ Len(t.accepted) = Len(s.accepted) + 1

Refused(s, t) ==
    /\ Head(t.writes).phase = "failed"
    /\ t.finished = IF s.finished = "open" THEN "errored" ELSE s.finished
    /\ s.finished = "open" /\ signal = None => Head(t.writes).error = "E2BIG"

LEMMA AcceptIs ==
    ASSUME signal \in Reason, NEW e \in Edge, NEW s, Sound(s), s.writes # <<>>,
           s.failure = None \/ ~s.terminal, NEW t, t = Accept(e, s)
    PROVE  /\ t \in PipeType /\ SameHands(s, t) /\ SameWriters(s, t) /\ t.writes # <<>>
           /\ t.dropped = s.dropped
           /\ Taken(s, t) \/ Refused(s, t)
<1> DEFINE refusal == Refusal(e, s)
<1>1. s \in PipeType /\ Head(s.writes).chunk \in Chunk
  <2>1. s.writes \in Seq(WriteType) /\ s \in PipeType
    BY DEF Sound, PipeType, WriteType
  <2>2. Head(s.writes) \in WriteType
    BY <2>1
  <2> QED  BY <2>1, <2>2 DEF WriteType
<1>2. refusal \in Reason
  BY <1>1 DEF Refusal, PipeType, Reason, Failure
<1>3. CASE refusal # None
  <2> DEFINE u == Fail(s, refusal)
  <2>1. t = HeadAt(u, "failed", refusal)
    BY <1>3 DEF Accept
  <2>2. s.finished = "open" /\ signal = None => refusal = "E2BIG"
    <3>1. s.cancelled # None => s.finished # "open"
      BY DEF Sound
    <3> QED  BY <1>3, <3>1 DEF Refusal
  <2> HIDE DEF refusal
  <2>3. /\ u \in PipeType /\ SameHands(s, u) /\ SameWriters(s, u)
        /\ u.dropped = s.dropped
        /\ u.finished = IF s.finished = "open" THEN "errored" ELSE s.finished
    BY <1>2, <1>3, FailIs
  <2>4. u.writes # <<>>
    <3>1. u.writes \in Seq(WriteType) /\ s.writes \in Seq(WriteType)
      BY <1>1, <2>3 DEF PipeType, WriteType
    <3> HIDE DEF u
    <3>2. Len(u.writes) = Len(s.writes)
      BY <2>3 DEF SameWriters
    <3> QED  BY <3>1, <3>2
  <2> HIDE DEF u
  <2>5. /\ t \in PipeType /\ SameStream(u, t) /\ SameWriters(u, t) /\ t.writes # <<>>
        /\ Head(t.writes).phase = "failed" /\ Head(t.writes).error = refusal
    BY <1>2, <2>1, <2>3, <2>4, HeadIs DEF Phase
  <2>6. SameHands(u, t) /\ t.finished = u.finished /\ t.dropped = u.dropped
    BY <2>3, <2>5, StreamFields
  <2>7. SameHands(s, t) /\ SameWriters(s, t)
    BY <2>3, <2>5, <2>6 DEF SameHands, SameWriters
  <2> QED  BY <2>2, <2>3, <2>5, <2>6, <2>7 DEF Refused
<1>4. CASE refusal = None
  <2> DEFINE u == Enqueue([s EXCEPT !.written = @ + 1], Head(s.writes).chunk)
             phase == IF Len(u.queue) < Capacity THEN "accepted" ELSE "waiting"
  <2>1. s.cancelled = None
    BY <1>4, SharedPipeAssumption DEF Refusal
  <2>2. s.finished = "open" /\ ~s.closeRequested
    BY <1>1, <2>1 DEF Sound, PipeType
  <2>3. Sound(u) /\ u.writes = s.writes /\ u.finished = s.finished
    BY <1>1, <2>2, EnqueueSound
  <2>4. SameHands(s, u) /\ u.dropped = s.dropped /\ Len(u.accepted) = Len(s.accepted) + 1
    <3>1. SameHands(s, u) /\ u.dropped = s.dropped
      BY <1>1, <2>2 DEF Enqueue, PipeType, SameHands
    <3>2. u.accepted = Append(s.accepted, Head(s.writes).chunk)
      BY <1>1, <2>2 DEF Enqueue, PipeType
    <3>3. s.accepted \in Seq(Chunk)
      BY <1>1 DEF PipeType
    <3> HIDE DEF u
    <3> QED  BY <1>1, <3>1, <3>2, <3>3
  <2>5. t = HeadAt(u, phase, None)
    BY <1>4 DEF Accept
  <2>6. phase \in {"accepted", "waiting"} /\ phase \in Phase /\ None \in Reason
    BY DEF Phase, Reason
  <2> HIDE DEF u, phase, refusal
  <2>7. u \in PipeType /\ u.writes # <<>>
    BY <2>3 DEF Sound
  <2>8. /\ t \in PipeType /\ SameStream(u, t) /\ SameWriters(u, t) /\ t.writes # <<>>
        /\ Head(t.writes).phase = phase
    BY <2>5, <2>6, <2>7, HeadIs
  <2>9. /\ SameHands(u, t) /\ t.finished = u.finished /\ t.dropped = u.dropped
        /\ t.accepted = u.accepted
    BY <2>7, <2>8, StreamFields
  <2>10. SameHands(s, t) /\ SameWriters(s, t)
    BY <2>3, <2>4, <2>8, <2>9 DEF SameHands, SameWriters
  <2> QED  BY <2>2, <2>3, <2>4, <2>6, <2>8, <2>9, <2>10 DEF Taken
<1> QED  BY <1>3, <1>4

\* A step of one pipe at which a write begins, goes on or ends.
LEMMA WorkKeeps ==
    ASSUME PInv, NEW e \in Edge, NEW t, Good(t), Step(pipe[e], t), Tidy(t), Set(e, t),
           Budget', Typed', OkAtEnd',
           (\A f \in Edge : \A k \in 1 .. Len(pipe[f].writes) : Awaits(f, pipe[f].writes[k].by))',
           (\A i \in Stage : Blamed(i) => AboutToThrow(i))',
           (\A i \in Stage : Counted(i))'
    PROVE  PInv' /\ Moves
<1>1. PipesGood
  BY DEF PInv
<1>2. Moves
  BY <1>1, OneMoves
<1>3. PipesGood'
  BY <1>2 DEF Moves, PipesGood, Budget
<1>4. \A f \in Edge : Tidy(pipe[f])'
  BY DEF Set, PInv, PipesGood
<1> QED  BY <1>2, <1>3, <1>4 DEF PInv, Typed, OkAtEnd, Blamed

\* What is on the way of a stage's output is a write of its own.
LEMMA OwnWrites ==
    ASSUME PInv, NEW i \in Stage, pipe[i].writes # <<>>
    PROVE  At(i, "writing") /\ Len(pipe[i].writes) = 1 /\ pipe[i].writes[1].by = i
<1>1. i \in Edge /\ i # Err /\ Shell = Err
  BY Places
<1>2. pipe[i].writes \in Seq(WriteType)
  BY <1>1 DEF PInv, PipesGood, PipeType, WriteType
<1>3. \A k \in 1 .. Len(pipe[i].writes) : pipe[i].writes[k].by = i /\ At(i, "writing")
  BY <1>1 DEF PInv, Awaits
<1>4. \A j, k \in 1 .. Len(pipe[i].writes) : j = k
  BY <1>1, <1>3 DEF PInv, Tidy
<1>5. Len(pipe[i].writes) \in Nat /\ Len(pipe[i].writes) > 0
  BY <1>2
<1>6. 1 \in 1 .. Len(pipe[i].writes) /\ Len(pipe[i].writes) \in 1 .. Len(pipe[i].writes)
  BY <1>5
<1> QED  BY <1>3, <1>4, <1>6

\* A stream that took a write of nobody's is open, or not alive.
LEMMA DeadOrOpen ==
    ASSUME NEW s, Good(s), Tidy(s), ~s.terminal, Alive(s)
    PROVE  s.finished = "open" /\ s.failure = None
  BY DEF Good, Sound, Tidy, Alive, PipeType

\* A write that was called runs at once on an idle pipe, and waits on others.
LEMMA WriteIs ==
    ASSUME PInv, NEW e \in Edge, NEW d \in Descriptor, NEW chunk \in Chunk,
           Waitless(pipe[e], d), Write(e, d, chunk), NEW s, s = pipe[e], NEW t, t = pipe'[e]
    PROVE  /\ Set(e, t) /\ Good(t) /\ Step(s, t) /\ Tidy(t) /\ Budget'
           /\ \A k \in 1 .. Len(t.writes) :
                t.writes[k].by = d \/ \E j \in 1 .. Len(s.writes) : t.writes[k].by = s.writes[j].by
           /\ s.writes = <<>> /\ Alive(t) =>
                Len(t.accepted) = Len(s.accepted) + 1 /\ Head(t.writes).phase # "queued"
           /\ s.writes = <<>> /\ signal = None /\ t.finished = "errored" /\ s.finished # "errored" =>
                Failed(t) /\ Head(t.writes).error = "E2BIG"
<1> DEFINE w == [chunk |-> chunk, by |-> d, phase |-> "queued", error |-> None]
           called == [s EXCEPT !.writes = Append(s.writes,
               [chunk |-> chunk, by |-> d, phase |-> "queued", error |-> None])]
           idle == s.writes = <<>> /\ s.failure = None
<1>0. PipesGood /\ Budget
  BY DEF PInv, PipesGood, Budget
<1>1. Good(s) /\ Sound(s) /\ Tidy(s) /\ s \in PipeType /\ ~s.terminal /\ d \in s.held
  BY DEF PInv, PipesGood, Good, Write, CanWrite
<1>2. pipe' = [pipe EXCEPT ![e] = IF idle THEN Accept(e, called) ELSE called]
  BY DEF Write, Set
<1>3. t = IF idle THEN Accept(e, called) ELSE called
  BY <1>0, <1>2 DEF PipesGood
<1>4. Set(e, t)
  BY <1>2, <1>3 DEF Set
<1>5. Good(t) /\ Step(s, t)
  BY <1>0, WriteMoves DEF Moves
<1>6. Budget'
  <2>1. spent' \in Nat
    BY <1>0 DEF Write, Charge, Budget
  <2> QED  BY <1>0, <2>1 DEF Write, Budget
<1>7. Good(called) /\ called.terminal = s.terminal /\ SameStream(s, called)
  <2>1. called = [s EXCEPT !.writes = Append(s.writes,
                   [chunk |-> chunk, by |-> d, phase |-> "queued", error |-> None])]
    OBVIOUS
  <2>2. Good(s) /\ ~s.terminal /\ d \in Descriptor /\ chunk \in Chunk
    BY <1>1
  <2> HIDE DEF idle, called
  <2>3. Good(called)
    BY <2>1, <2>2, CalledGood
  <2>4. SameStream(s, called)
    BY <2>1, <2>2, CalledGood
  <2>5. called.terminal = s.terminal
    BY <2>1, <2>2, CalledGood
  <2> QED  BY <2>3, <2>4, <2>5
<1>8. /\ called.writes = Append(s.writes, w) /\ called \in PipeType /\ SameHands(s, called)
      /\ called.finished = s.finished /\ called.accepted = s.accepted /\ called.dropped = s.dropped
  BY <1>1, <1>7, StreamFields DEF Good, Sound, PipeType
<1>9. /\ s.writes \in Seq(WriteType) /\ w \in WriteType /\ w.by = d /\ w.phase = "queued"
  BY <1>1 DEF PipeType, WriteType, Phase, Reason
<1> HIDE DEF w, called, idle
<1>10. /\ Len(called.writes) = Len(s.writes) + 1 /\ Len(s.writes) \in Nat
       /\ \A k \in 1 .. Len(s.writes) : called.writes[k] = s.writes[k]
       /\ called.writes[Len(s.writes) + 1] = w
       /\ Head(called.writes) = called.writes[1]
       /\ s.writes # <<>> => Len(s.writes) > 0 /\ Head(s.writes) = s.writes[1]
       /\ called.writes # <<>>
  BY <1>8, <1>9
<1>11. \A k \in 1 .. Len(called.writes) : k = Len(s.writes) + 1 \/ k \in 1 .. Len(s.writes)
  BY <1>10
<1>12. \A k \in 1 .. Len(called.writes) :
        called.writes[k].by = d \/ \E j \in 1 .. Len(s.writes) : called.writes[k].by = s.writes[j].by
  BY <1>9, <1>10, <1>11
<1>13. Tidy(called)
  <2>1. \A k \in 1 .. Len(s.writes) : called.writes[k].by = s.writes[k].by /\ s.writes[k].by # d
    BY <1>10 DEF Waitless
  <2>2. \A k \in 1 .. Len(called.writes) : called.writes[k].by \in called.held
    BY <1>1, <1>8, <1>9, <1>10, <1>11 DEF Tidy, SameHands
  <2>3. \A j, k \in 1 .. Len(called.writes) : called.writes[j].by = called.writes[k].by => j = k
    <3> SUFFICES ASSUME NEW j \in 1 .. Len(called.writes), NEW k \in 1 .. Len(called.writes),
                        called.writes[j].by = called.writes[k].by
                 PROVE  j = k
      OBVIOUS
    <3>1. \/ j \in 1 .. Len(s.writes) /\ k \in 1 .. Len(s.writes)
          \/ j = Len(s.writes) + 1 /\ k = Len(s.writes) + 1
      <4>1. ASSUME NEW m \in 1 .. Len(s.writes)
            PROVE  called.writes[m].by # called.writes[Len(s.writes) + 1].by
        BY <1>9, <1>10, <2>1
      <4> QED  BY <1>11, <4>1
    <3>2. CASE j \in 1 .. Len(s.writes) /\ k \in 1 .. Len(s.writes)
      <4>1. s.writes[j].by = s.writes[k].by
        BY <2>1, <3>2
      <4> QED  BY <1>1, <3>2, <4>1 DEF Tidy
    <3> QED  BY <3>1, <3>2
  <2>4. Failed(called) => Failed(s)
    <3>1. CASE s.writes = <<>>
      <4>1. Len(s.writes) = 0
        BY <3>1
      <4> QED  BY <1>9, <1>10, <4>1 DEF Failed
    <3>2. CASE s.writes # <<>>
      <4>1. 1 \in 1 .. Len(s.writes)
        BY <1>10, <3>2
      <4> QED  BY <1>10, <3>2, <4>1 DEF Failed
    <3> QED  BY <3>1, <3>2
  <2> QED  BY <1>1, <1>8, <2>2, <2>3, <2>4 DEF Tidy, SameHands
<1>14. CASE ~idle
  <2>1. t = called
    BY <1>3, <1>14
  <2>2. s.writes = <<>> => ~Alive(t)
    <3>1. s.writes = <<>> => s.failure # None
      BY <1>14 DEF idle
    <3>2. Alive(t) = Alive(s)
      BY <1>8, <2>1 DEF Alive
    <3> QED  BY <1>1, <3>1, <3>2, DeadOrOpen
  <2>3. t.finished = s.finished
    BY <1>8, <2>1
  <2> QED  BY <1>4, <1>5, <1>6, <1>12, <1>13, <2>1, <2>2, <2>3
<1>15. CASE idle
  <2>1. t = Accept(e, called)
    BY <1>3, <1>15
  <2>2. /\ SameHands(called, t) /\ SameWriters(called, t) /\ t.writes # <<>>
        /\ t.dropped = called.dropped
        /\ Taken(called, t) \/ Refused(called, t)
    <3>1. s.failure = None /\ called.failure = s.failure
      BY <1>8, <1>15 DEF idle, SameHands
    <3> QED  BY <1>0, <1>7, <1>10, <2>1, <3>1, AcceptIs DEF Good, Budget
  <2>3. /\ called.finished # "open" => t.finished # "open"
        /\ Failed(t) => t.finished # "open"
    BY <2>2 DEF Taken, Refused, Failed
  <2>4. Tidy(t)
    BY <1>13, <2>2, <2>3, TidyKept
  <2>5. \A k \in 1 .. Len(t.writes) :
          t.writes[k].by = d \/ \E j \in 1 .. Len(s.writes) : t.writes[k].by = s.writes[j].by
    BY <1>12, <2>2 DEF SameWriters
  <2>6. Alive(t) => Len(t.accepted) = Len(s.accepted) + 1 /\ Head(t.writes).phase # "queued"
    <3>1. Refused(called, t) => ~Alive(t)
      <4>1. Alive(called) => called.finished = "open"
        BY <1>1, <1>8, DeadOrOpen DEF Alive
      <4> QED  BY <2>2, <4>1 DEF Refused, Alive
    <3> QED  BY <1>8, <2>2, <3>1 DEF Taken
  <2>7. signal = None /\ t.finished = "errored" /\ s.finished # "errored" =>
            Failed(t) /\ Head(t.writes).error = "E2BIG"
    BY <1>8, <2>2 DEF Taken, Refused, Failed
  <2> QED  BY <1>4, <1>5, <1>6, <2>4, <2>5, <2>6, <2>7
<1> QED  BY <1>14, <1>15

\* Whoever waits for a write is still at it.
StillWaits ==
    /\ \A i \in Stage :
        /\ At(i, "writing") => stage'[i].phase = "writing"
        /\ At(i, "diagnosing") => stage'[i].phase = "diagnosing"
    /\ shell = "reporting" => shell' = "reporting"

AllAwaited == \A e \in Edge : \A k \in 1 .. Len(pipe[e].writes) : Awaits(e, pipe[e].writes[k].by)

\* The writers of t are those of s, and d.
Joined(s, t, d) ==
    \A k \in 1 .. Len(t.writes) :
        t.writes[k].by = d \/ \E j \in 1 .. Len(s.writes) : t.writes[k].by = s.writes[j].by

\* Who waits for a write after the step.
AwaitsThen(e, d) ==
    \/ d \in Stage /\ e = d /\ stage'[d].phase = "writing"
    \/ d \in Stage /\ e = Err /\ stage'[d].phase = "diagnosing"
    \/ d = Shell /\ e = Err /\ shell' = "reporting"

LEMMA WriteAwaited ==
    ASSUME PInv, NEW e \in Edge, NEW d, NEW t, Set(e, t), Joined(pipe[e], t, d), StillWaits,
           AwaitsThen(e, d)
    PROVE  AllAwaited'
<1>1. pipe' = [pipe EXCEPT ![e] = t] /\ pipe \in [Edge -> PipeType]
  BY DEF Set, PInv, PipesGood
<1>2. ASSUME NEW f \in Edge, NEW b, Awaits(f, b)
      PROVE  AwaitsThen(f, b)
  BY <1>2 DEF StillWaits, Awaits, AwaitsThen, At
<1>3. ASSUME NEW f \in Edge, NEW k \in 1 .. Len(pipe'[f].writes)
      PROVE  Awaits(f, pipe[f].writes[k].by)'
  <2> DEFINE b == pipe'[f].writes[k].by
  <2>1. \/ f = e /\ b = d
        \/ \E j \in 1 .. Len(pipe[f].writes) : b = pipe[f].writes[j].by
    <3>1. CASE f = e
      <4>1. pipe'[e] = t
        BY <1>1
      <4> QED  BY <3>1, <4>1 DEF Joined
    <3>2. CASE f # e
      <4>1. pipe'[f] = pipe[f]
        BY <1>1, <3>2
      <4> QED  BY <4>1
    <3> QED  BY <3>1, <3>2
  <2>2. \A j \in 1 .. Len(pipe[f].writes) : AwaitsThen(f, pipe[f].writes[j].by)
    BY <1>2 DEF PInv
  <2>3. AwaitsThen(f, b)
    <3> HIDE DEF b
    <3> QED  BY <2>1, <2>2
  <2> QED  BY <2>3 DEF Awaits, AwaitsThen, At
<1> QED  BY <1>3 DEF AllAwaited

\* A stage that has no part in a step is as much to blame, and as counted.
LEMMA Apart ==
    ASSUME PInv, NEW j \in Stage, pipe'[j] = pipe[j], stage'[j].wrote = stage[j].wrote,
           signal' = signal, thrown' = thrown, stage'[j] = stage[j] \/ ~Blamed(j)
    PROVE  (Blamed(j) => AboutToThrow(j))' /\ Counted(j)'
<1>1. (Blamed(j) => AboutToThrow(j)) /\ Counted(j)
  BY DEF PInv, Blamed
<1>2. Counted(j)'
  BY <1>1 DEF Counted, Alive
<1>3. (Blamed(j) => AboutToThrow(j))'
  BY <1>1 DEF Blamed, AboutToThrow, At, Failed
<1> QED  BY <1>2, <1>3

\* A status that is an error is said on stderr before the stage lets go.
LEMMA DiagnoseKeeps ==
    ASSUME PInv, NEW i \in Stage, Free(i), ~Blamed(i), Diagnose(i), Keep
    PROVE  PInv' /\ Moves
<1> DEFINE t == pipe'[Err]
<1>1. /\ Err \in Edge /\ i \in Descriptor /\ <<i, 0>> \in Chunk /\ i # Err
      /\ \A j \in Stage : j # Err /\ j \in Edge
  <2>1. 0 \in 0 .. MaxOut /\ i \in Handles
    BY PipelineAssumption DEF Stage, Handles
  <2>2. <<i, 0>> \in Chunk
    BY <2>1, PipelineAssumption
  <2> QED  BY <2>2, Places
<1>2. /\ stage' = [stage EXCEPT ![i].phase = "diagnosing"] /\ thrown' = thrown
      /\ UNCHANGED <<shell, exit, signal>> /\ Write(Err, i, <<i, 0>>)
  BY DEF Diagnose, Keep, Write
<1>3. stage \in [Stage -> StageType] /\ thrown \in Reason
  BY DEF PInv
<1>4. Waitless(pipe[Err], i)
  BY <1>1, StageWaitless DEF Free
<1>5. /\ Set(Err, t) /\ Good(t) /\ Step(pipe[Err], t) /\ Tidy(t) /\ Budget'
      /\ Joined(pipe[Err], t, i)
  BY <1>1, <1>2, <1>4, WriteIs, SMTT(20) DEF Joined
<1> HIDE DEF t
<1>6. Typed' /\ StillWaits /\ AwaitsThen(Err, i)
  <2>1. stage'[i].phase = "diagnosing"
    BY <1>2, <1>3 DEF StageType
  <2>2. \A j \in Stage : j # i => stage'[j] = stage[j]
    BY <1>2, <1>3
  <2>3. Typed'
    BY <1>2, <1>3 DEF Typed, StageType
  <2>4. StillWaits
    BY <1>2, <2>1, <2>2 DEF StillWaits, Free, At
  <2> QED  BY <2>1, <2>3, <2>4 DEF AwaitsThen
<1>7. AllAwaited'
  BY <1>1, <1>5, <1>6, WriteAwaited
<1>8. OkAtEnd'
  BY <1>2, NotYet DEF OkAtEnd, Free
<1>9. ASSUME NEW j \in Stage
      PROVE  (Blamed(j) => AboutToThrow(j))' /\ Counted(j)'
  <2>1. pipe'[j] = pipe[j]
    BY <1>1, <1>5 DEF Set, PInv, PipesGood
  <2>2. stage'[j].wrote = stage[j].wrote /\ (stage'[j] = stage[j] \/ ~Blamed(j))
    BY <1>2, <1>3 DEF StageType
  <2> QED  BY <1>2, <2>1, <2>2, Apart
<1> QED  BY <1>1, <1>5, <1>6, <1>7, <1>8, <1>9, WorkKeeps DEF AllAwaited

\* Only a failed output is thrown for, and by a stage that was at a write.
LEMMA NotBlamed ==
    ASSUME PInv, NEW i \in Stage, stage[i].phase \notin {"broken", "writing"}
    PROVE  ~Blamed(i)
  BY DEF PInv, Blamed, AboutToThrow, At

\* Whatever a stage is rejected with, it is handled.
LEMMA FailsKeeps ==
    ASSUME PInv, NEW i \in Stage, Free(i), NEW error, Blamed(i) => error = "E2BIG",
           StageFails(i, error), Keep
    PROVE  PInv' /\ Moves
<1>1. CASE error = "DOWNSTREAM"
  <2>1. Finish(i, "ok") /\ ~Blamed(i) /\ "ok" \in Outcome
    BY <1>1, Errors DEF StageFails
  <2> QED  BY <2>1, FinishKeeps
<1>2. CASE error = "BUG"
  <2>1. FinishBroken(i)
    BY <1>2 DEF StageFails
  <2> QED  BY <2>1, FinishBrokenKeeps
<1>3. CASE error \in Fatal
  <2>1. error # "BUG" /\ error # "DOWNSTREAM" /\ error \in Failure /\ error \in Outcome
    BY <1>3, Errors DEF Fatal
  <2>2. Finish(i, error)
    BY <1>3, <2>1 DEF StageFails
  <2> QED  BY <2>1, <2>2, FinishKeeps
<1>4. CASE error \notin Fatal /\ error # "BUG" /\ error # "DOWNSTREAM"
  <2>1. ~Blamed(i)
    BY <1>4 DEF Fatal
  <2>2. CASE Diagnose(i)
    BY <2>1, <2>2, DiagnoseKeeps
  <2>3. CASE Finish(i, "EPIPE")
    <3>1. "EPIPE" \in Outcome
      BY Errors
    <3> QED  BY <2>1, <2>3, <3>1, FinishKeeps
  <2> QED  BY <1>4, <2>2, <2>3 DEF StageFails
<1> QED  BY <1>1, <1>2, <1>3, <1>4
-----------------------------------------------------------------------------
(* The steps of a stage. *)

\* A stream that failed or lost its reader stays so.
LEMMA DeadStays ==
    ASSUME NEW s, s \in PipeType, NEW t, t \in PipeType, Step(s, t), Alive(t)
    PROVE  Alive(s)
<1>1. StateOf(t) \notin {"left", "failed"}
  BY DEF Alive, StateOf, PipeType
<1>2. StateOf(s) \notin {"left", "failed"}
  BY <1>1 DEF Step
<1> QED  BY <1>2 DEF Alive, StateOf, PipeType

\* A stage that waits for no write goes on, and the pipes at most read.
LEMMA StageGoes ==
    ASSUME PInv, NEW i \in Stage, Free(i), ~Blamed(i), AllEase, AllUnbroken, Budget',
           UNCHANGED <<signal, thrown>>, Keep, stage' \in [Stage -> StageType],
           \A j \in Stage : j # i => stage'[j] = stage[j],
           stage'[i].wrote = stage[i].wrote
    PROVE  PInv' /\ Moves
<1>1. Typed' /\ StillAwaited
  BY DEF Typed, PInv, StillAwaited, Free, At, Keep
<1>2. Blameless
  BY Places DEF Blameless, AllUnbroken, Unbroken, Blamed
<1>3. OkAtEnd'
  BY NotYet DEF OkAtEnd, Free, Keep
<1> QED  BY <1>1, <1>2, <1>3, CalmKeeps

LEMMA BudgetKept ==
    ASSUME PInv, UNCHANGED <<signal, spent, unbilled, cancelling>>
    PROVE  Budget'
  BY DEF PInv, PipesGood, Budget

LEMMA StageReadsKeeps ==
    ASSUME PInv, NEW i \in Stage, StageReads(i)
    PROVE  PInv' /\ Moves
<1> DEFINE wait == pipe[i - 1].queue = <<>>
<1>1. /\ At(i, "body") /\ Read(i - 1) /\ i - 1 \in Edge
      /\ stage' = [stage EXCEPT ![i].phase = IF wait THEN "reading" ELSE @,
                                ![i].seen = IF wait THEN @ ELSE @ + 1]
      /\ UNCHANGED thrown /\ Keep
  BY Places DEF StageReads
<1>2. UNCHANGED <<signal, spent, unbilled, cancelling>> \/ UNCHANGED signal
  BY <1>1 DEF Read, Quiet
<1>3. UNCHANGED <<signal, spent, unbilled, cancelling>>
  BY <1>1 DEF Read, Quiet
<1> HIDE DEF wait
<1>4. stage \in [Stage -> StageType]
  BY DEF PInv
<1>5. stage' \in [Stage -> StageType] /\ stage'[i].wrote = stage[i].wrote
  <2> DEFINE phase == IF wait THEN "reading" ELSE stage[i].phase
             seen == IF wait THEN stage[i].seen ELSE stage[i].seen + 1
  <2>1. seen \in Nat /\ phase \in {"body", "reading"}
    BY <1>1, <1>4 DEF StageType, At
  <2>2. stage' = [stage EXCEPT ![i].phase = phase, ![i].seen = seen]
    BY <1>1, <1>4
  <2> HIDE DEF phase, seen
  <2> QED  BY <1>4, <2>1, <2>2 DEF StageType
<1>6. \A j \in Stage : j # i => stage'[j] = stage[j]
  BY <1>1, <1>4
<1>7. Free(i) /\ ~Blamed(i)
  BY <1>1, NotBlamed DEF At, Free
<1>8. AllEase /\ AllUnbroken /\ Budget'
  BY <1>1, <1>3, ReadEases, BudgetKept
<1> QED  BY <1>1, <1>3, <1>5, <1>6, <1>7, <1>8, StageGoes

LEMMA ReadArrivesKeeps ==
    ASSUME PInv, NEW i \in Stage, ReadArrives(i)
    PROVE  PInv' /\ Moves
<1> DEFINE arrived == stage[i].seen < Len(pipe[i - 1].received)
<1>1. At(i, "reading") /\ Keep
  BY DEF ReadArrives
<1>2. Free(i) /\ ~Blamed(i)
  BY <1>1, NotBlamed DEF At, Free
<1>3. CASE /\ stage' = [stage EXCEPT ![i].phase = "body", ![i].seen = IF arrived THEN @ + 1 ELSE @]
           /\ UNCHANGED <<pipeVars, thrown>>
  <2> HIDE DEF arrived
  <2>1. stage \in [Stage -> StageType]
    BY DEF PInv
  <2>2. stage' \in [Stage -> StageType] /\ stage'[i].wrote = stage[i].wrote
    <3> DEFINE seen == IF arrived THEN stage[i].seen + 1 ELSE stage[i].seen
    <3>1. seen \in Nat
      BY <2>1 DEF StageType
    <3>2. stage' = [stage EXCEPT ![i].phase = "body", ![i].seen = seen]
      BY <1>3, <2>1
    <3> HIDE DEF seen
    <3> QED  BY <2>1, <3>1, <3>2 DEF StageType
  <2>3. \A j \in Stage : j # i => stage'[j] = stage[j]
    BY <1>3, <2>1
  <2>4. AllEase /\ AllUnbroken /\ Budget' /\ UNCHANGED <<signal, thrown>>
    BY <1>3, NoneEases, BudgetKept DEF pipeVars
  <2> QED  BY <1>1, <1>2, <2>2, <2>3, <2>4, StageGoes
<1>4. CASE StageFails(i, pipe[i - 1].error)
  BY <1>1, <1>2, <1>4, FailsKeeps
<1> QED  BY <1>3, <1>4 DEF ReadArrives

LEMMA ReadFailsKeeps ==
    ASSUME PInv, NEW i \in Stage, ReadFails(i)
    PROVE  PInv' /\ Moves
<1>1. At(i, "body") /\ Keep /\ StageFails(i, pipe[i - 1].error)
  BY DEF ReadFails
<1>2. Free(i) /\ ~Blamed(i)
  BY <1>1, NotBlamed DEF At, Free
<1> QED  BY <1>1, <1>2, FailsKeeps

LEMMA WriteFailsKeeps ==
    ASSUME PInv, NEW i \in Stage, WriteFails(i)
    PROVE  PInv' /\ Moves
<1>1. At(i, "broken") /\ Keep /\ StageFails(i, stage[i].outcome)
  BY DEF WriteFails
<1>2. Free(i)
  BY <1>1 DEF At, Free
<1>3. Blamed(i) => stage[i].outcome = "E2BIG"
  BY <1>1 DEF PInv, Blamed, AboutToThrow, At
<1> QED  BY <1>1, <1>2, <1>3, FailsKeeps

LEMMA StageThrowsKeeps ==
    ASSUME PInv, NEW i \in Stage, StageThrows(i)
    PROVE  PInv' /\ Moves
<1>1. At(i, "body") /\ Keep /\ \E error \in {"EPIPE", "E2BIG", "BUG"} : StageFails(i, error)
  BY DEF StageThrows
<1>2. Free(i) /\ ~Blamed(i)
  BY <1>1, NotBlamed DEF At, Free
<1>3. PICK error \in {"EPIPE", "E2BIG", "BUG"} : StageFails(i, error)
  BY <1>1
<1> QED  BY <1>1, <1>2, <1>3, FailsKeeps

LEMMA StageEndsKeeps ==
    ASSUME PInv, NEW i \in Stage, StageEnds(i)
    PROVE  PInv' /\ Moves
<1> DEFINE error == IF CloseFailure(pipe[i], i) # None THEN CloseFailure(pipe[i], i)
                    ELSE CloseFailure(pipe[Err], i)
<1>1. /\ At(i, "body") /\ Keep
      /\ \E status \in {"ok", "failed"} : Finish(i, IF error = None THEN status ELSE error)
  BY DEF StageEnds
<1>2. Free(i) /\ ~Blamed(i)
  BY <1>1, NotBlamed DEF At, Free
<1>3. error \in Outcome
  <2>1. pipe[i].failure \in Reason /\ pipe[Err].failure \in Reason
    BY Places DEF PInv, PipesGood, PipeType
  <2> QED  BY <2>1, Errors DEF CloseFailure
<1> HIDE DEF error
<1>4. PICK status \in {"ok", "failed"} : Finish(i, IF error = None THEN status ELSE error)
  BY <1>1
<1> DEFINE outcome == IF error = None THEN status ELSE error
<1>5. outcome \in Outcome /\ Finish(i, outcome)
  BY <1>3, <1>4, Errors
<1> HIDE DEF outcome
<1> QED  BY <1>1, <1>2, <1>5, FinishKeeps

LEMMA StageDiagnosedKeeps ==
    ASSUME PInv, NEW i \in Stage, StageDiagnosed(i)
    PROVE  PInv' /\ Moves
<1>1. At(i, "diagnosed") /\ Keep
  BY DEF StageDiagnosed
<1>2. Free(i) /\ ~Blamed(i)
  BY <1>1, NotBlamed DEF At, Free
<1>3. PICK outcome \in Outcome : Finish(i, outcome)
  <2>1. stage[i].outcome \in Outcome /\ {"failed", "E2BIG"} \subseteq Outcome
    BY Errors DEF PInv, StageType
  <2> QED  BY <2>1 DEF StageDiagnosed
<1> QED  BY <1>1, <1>2, <1>3, FinishKeeps

\* A chunk of its output, which then counts as written, or not for long.
LEMMA StageWritesKeeps ==
    ASSUME PInv, NEW i \in Stage, StageWrites(i)
    PROVE  PInv' /\ Moves
<1> DEFINE t == pipe'[i]
           chunk == <<i, stage[i].wrote + 1>>
<1>1. At(i, "body") /\ Keep /\ stage[i].wrote < MaxOut /\ i \in Edge /\ i \in Descriptor
  BY Places DEF StageWrites
<1>2. Free(i) /\ ~Blamed(i)
  BY <1>1, NotBlamed DEF At, Free
<1>3. CASE StageFails(i, "EPIPE")
  BY <1>1, <1>2, <1>3, FailsKeeps
<1>4. CASE /\ Write(i, i, chunk)
           /\ stage' = [stage EXCEPT ![i].phase = "writing", ![i].wrote = @ + 1]
           /\ UNCHANGED thrown
  <2>1. stage \in [Stage -> StageType]
    BY DEF PInv
  <2>2. stage[i].wrote \in 0 .. MaxOut /\ stage[i].wrote + 1 \in 0 .. MaxOut
    <3>1. stage[i].wrote \in 0 .. MaxOut /\ MaxOut \in Nat
      BY <2>1, PipelineAssumption DEF StageType
    <3> QED  BY <1>1, <3>1
  <2>3. chunk \in Chunk
    BY <1>1, <2>2, PipelineAssumption
  <2>4. Waitless(pipe[i], i) /\ pipe[i].writes = <<>>
    BY <1>1, <1>2, StageWaitless, OwnWrites DEF Free, At
  <2> HIDE DEF chunk
  <2>5. /\ Set(i, t) /\ Good(t) /\ Step(pipe[i], t) /\ Tidy(t) /\ Budget'
        /\ Joined(pipe[i], t, i)
        /\ Alive(t) =>
             Len(t.accepted) = Len(pipe[i].accepted) + 1 /\ Head(t.writes).phase # "queued"
        /\ signal = None /\ t.finished = "errored" /\ pipe[i].finished # "errored" =>
             Failed(t) /\ Head(t.writes).error = "E2BIG"
    BY <1>1, <1>4, <2>3, <2>4, WriteIs, SMTT(20) DEF Joined
  <2>6. UNCHANGED <<shell, exit, signal, thrown>>
    BY <1>1, <1>4 DEF Keep, Write
  <2> HIDE DEF t
  <2>7. /\ stage'[i].phase = "writing" /\ stage'[i].wrote = stage[i].wrote + 1
        /\ \A j \in Stage : j # i => stage'[j] = stage[j]
    BY <1>4, <2>1 DEF StageType
  <2>8. Typed' /\ StillWaits /\ AwaitsThen(i, i)
    <3>1. Typed'
      BY <1>4, <2>1, <2>2, <2>6 DEF Typed, StageType, PInv
    <3>2. StillWaits
      BY <1>1, <2>6, <2>7 DEF StillWaits, At
    <3> QED  BY <2>7, <3>1, <3>2 DEF AwaitsThen
  <2>9. AllAwaited'
    BY <1>1, <2>5, <2>8, WriteAwaited
  <2>10. OkAtEnd'
    BY <2>6, <1>2, NotYet DEF OkAtEnd, Free
  <2>11. pipe'[i] = t /\ pipe[i] \in PipeType /\ t \in PipeType
    BY <1>1, <2>5 DEF Set, PInv, PipesGood, Good, Sound
  <2>12. (Blamed(i) => AboutToThrow(i))'
    <3> SUFFICES ASSUME signal' = None, thrown' = None, pipe'[i].finished = "errored"
                 PROVE  AboutToThrow(i)'
      BY DEF Blamed
    <3>1. Failed(t) /\ Head(t.writes).error = "E2BIG"
      BY <1>2, <2>5, <2>6, <2>11 DEF Blamed
    <3> QED  BY <2>7, <2>11, <3>1 DEF AboutToThrow, At, Failed
  <2>13. Counted(i)'
    <3> SUFFICES ASSUME Alive(t)
                 PROVE  Len(t.accepted) = stage'[i].wrote /\ Head(t.writes).phase # "queued"
      BY <2>11 DEF Counted
    <3>1. Alive(pipe[i])
      BY <2>5, <2>11, DeadStays
    <3>2. Len(pipe[i].accepted) = stage[i].wrote
      BY <3>1 DEF PInv, Counted
    <3> QED  BY <2>5, <2>7, <3>2
  <2>14. ASSUME NEW j \in Stage, j # i
         PROVE  (Blamed(j) => AboutToThrow(j))' /\ Counted(j)'
    <3>1. pipe'[j] = pipe[j] /\ stage'[j] = stage[j]
      BY <2>5, <2>7, <2>14, Places DEF Set, PInv, PipesGood
    <3> QED  BY <2>6, <3>1, Apart
  <2> QED  BY <1>1, <2>5, <2>8, <2>9, <2>10, <2>12, <2>13, <2>14, WorkKeeps DEF AllAwaited
<1> QED  BY <1>3, <1>4 DEF StageWrites

LEMMA CommandKeeps ==
    ASSUME PInv, NEW i \in Stage, Command(i)
    PROVE  PInv' /\ Moves
  BY StageReadsKeeps, ReadArrivesKeeps, ReadFailsKeeps, StageWritesKeeps, WriteFailsKeeps,
     StageEndsKeeps, StageThrowsKeeps, StageDiagnosedKeeps DEF Command-----------------------------------------------------------------------------
(* The steps of the execution. *)

\* Success is told of an execution that is at its end.
LEMMA NotAtEnd ==
    ASSUME PInv, shell # "completed"
    PROVE  exit # "ok"
  BY DEF PInv

LEMMA ShellEndsKeeps ==
    ASSUME PInv, ShellEnds
    PROVE  PInv' /\ Moves
<1> DEFINE error == IF CloseFailure(pipe[Out], Shell) # None THEN CloseFailure(pipe[Out], Shell)
                    ELSE CloseFailure(pipe[Err], Shell)
<1>1. /\ shell = "running" /\ thrown = None /\ pipe' = CloseRoot
      /\ \A i \in Stage : At(i, "done")
      /\ IF error = None
         THEN shell' = "completed" /\ exit' = Select /\ UNCHANGED thrown
         ELSE thrown' = error /\ UNCHANGED <<shell, exit>>
      /\ UNCHANGED <<signal, spent, unbilled, cancelling>> /\ UNCHANGED stage
  BY DEF ShellEnds, Quiet
<1>2. error \in Reason
  <2>1. pipe[Out].failure \in Reason /\ pipe[Err].failure \in Reason
    BY Places DEF PInv, PipesGood, PipeType
  <2> QED  BY <2>1, Errors DEF CloseFailure
<1> HIDE DEF error
<1>3. AllEase /\ AllUnbroken /\ Budget'
  BY <1>1, CloseRootEases, BudgetKept
<1>4. exit # "ok" /\ shell # "reporting"
  BY <1>1, NotAtEnd
<1>5. CASE error = None
  <2>1. OkAtEnd'
    BY <1>1, <1>5 DEF OkAtEnd, At
  <2> QED  BY <1>1, <1>3, <1>4, <1>5, <2>1, Errors, StagesStay
<1>6. CASE error # None
  <2>1. OkAtEnd'
    BY <1>1, <1>4, <1>6 DEF OkAtEnd
  <2> QED  BY <1>1, <1>2, <1>3, <1>4, <1>6, <2>1, StagesStay
<1> QED  BY <1>5, <1>6

LEMMA ShellFailsKeeps ==
    ASSUME PInv, ShellFails
    PROVE  PInv' /\ Moves
<1>1. /\ shell = "running" /\ thrown # None
      /\ UNCHANGED <<signal, spent, cancelling, stage, thrown>>
      /\ exit' # "ok" /\ thrown \in Reason
  <2>1. exit # "ok" /\ thrown \in Reason
    BY NotAtEnd DEF ShellFails, PInv
  <2> QED  BY <2>1 DEF ShellFails
<1>2. AllEase /\ Budget'
  <2>1. CASE /\ pipe' = [e \in Edge |-> IF e \in Root THEN SinkAbort(pipe[e], Shell, "BUG") ELSE pipe[e]]
             /\ UNCHANGED unbilled
    BY <1>1, <2>1, AbortRootEases, BudgetKept
  <2>2. CASE unbilled' = TRUE /\ UNCHANGED pipe
    <3>1. Budget'
      BY <1>1, <2>2 DEF PInv, PipesGood, Budget
    <3> QED  BY <2>2, <3>1, NoneEases
  <2>3. CASE pipe' = CloseRoot /\ UNCHANGED unbilled
    BY <1>1, <2>3, CloseRootEases, BudgetKept
  <2> QED  BY <2>1, <2>2, <2>3 DEF ShellFails
<1>3. OkAtEnd' /\ shell # "reporting"
  BY <1>1 DEF OkAtEnd
<1> QED  BY <1>1, <1>2, <1>3, StagesStay

\* The message that says why the execution failed is a write of its own.
LEMMA ReportKeeps ==
    ASSUME PInv, shell = "failing", Write(Err, Shell, <<Shell, 0>>), shell' = "reporting",
           UNCHANGED <<stage, thrown, exit>>
    PROVE  PInv' /\ Moves
<1> DEFINE t == pipe'[Err]
<1>1. /\ Err \in Edge /\ Shell \in Descriptor /\ <<Shell, 0>> \in Chunk
      /\ \A j \in Stage : j # Err /\ j \in Edge
  <2>1. 0 \in 0 .. MaxOut /\ Shell \in Handles
    BY PipelineAssumption DEF Shell, Handles
  <2>2. <<Shell, 0>> \in Chunk
    BY <2>1, PipelineAssumption
  <2> QED  BY <2>2, Places
<1>2. UNCHANGED signal
  BY DEF Write
<1>3. Waitless(pipe[Err], Shell)
  BY <1>1, ShellWaitless
<1>4. /\ Set(Err, t) /\ Good(t) /\ Step(pipe[Err], t) /\ Tidy(t) /\ Budget'
      /\ Joined(pipe[Err], t, Shell)
  BY <1>1, <1>3, WriteIs, SMTT(20) DEF Joined
<1> HIDE DEF t
<1>5. Typed' /\ StillWaits /\ AwaitsThen(Err, Shell)
  BY DEF Typed, StillWaits, AwaitsThen, At, PInv
<1>6. AllAwaited'
  BY <1>1, <1>4, <1>5, WriteAwaited
<1>7. OkAtEnd'
  BY NotAtEnd DEF OkAtEnd
<1>8. ASSUME NEW j \in Stage
      PROVE  (Blamed(j) => AboutToThrow(j))' /\ Counted(j)'
  <2>1. pipe'[j] = pipe[j]
    BY <1>1, <1>4 DEF Set, PInv, PipesGood
  <2> QED  BY <1>2, <2>1, Apart
<1> QED  BY <1>1, <1>4, <1>5, <1>6, <1>7, <1>8, WorkKeeps DEF AllAwaited

\* The execution lets go, and does not report success.
LEMMA GivesUpKeeps ==
    ASSUME PInv, shell # "reporting", pipe' = CloseRoot, Quiet, UNCHANGED <<stage, thrown>>,
           exit' # "ok"
    PROVE  PInv' /\ Moves
<1>1. AllEase /\ AllUnbroken /\ Budget' /\ UNCHANGED signal
  BY CloseRootEases, BudgetKept DEF Quiet
<1>2. OkAtEnd' /\ thrown' \in Reason
  BY DEF OkAtEnd, PInv
<1> QED  BY <1>1, <1>2, StagesStay

LEMMA ExecutionKeeps ==
    ASSUME PInv, Execution
    PROVE  PInv' /\ Moves
<1>1. CASE ShellReports
  <2>1. shell = "failing" /\ UNCHANGED <<stage, thrown>>
    BY <1>1 DEF ShellReports
  <2>2. CASE Write(Err, Shell, <<Shell, 0>>) /\ shell' = "reporting" /\ UNCHANGED exit
    BY <2>1, <2>2, ReportKeeps
  <2>3. CASE pipe' = CloseRoot /\ Quiet /\ exit' = "failed"
    BY <2>1, <2>3, GivesUpKeeps
  <2> QED  BY <1>1, <2>2, <2>3 DEF ShellReports
<1>2. CASE ShellReported
  BY <1>2, GivesUpKeeps DEF ShellReported
<1> QED  BY <1>1, <1>2, ShellEndsKeeps, ShellFailsKeeps DEF Execution-----------------------------------------------------------------------------
(* What awaits a write goes on. *)

LEMMA SetIs ==
    ASSUME PInv, NEW e \in Edge, NEW t, Set(e, t), Moves
    PROVE  /\ pipe'[e] = t /\ Good(t) /\ Step(pipe[e], t) /\ t \in PipeType
           /\ \A f \in Edge : f # e => pipe'[f] = pipe[f]
<1>1. pipe' = [pipe EXCEPT ![e] = t] /\ pipe \in [Edge -> PipeType]
  BY DEF Set, PInv, PipesGood
<1> QED  BY <1>1 DEF Moves, Good, Sound

\* Somebody waits for the write at the head, so the execution goes on.
LEMMA HeadAwaited ==
    ASSUME PInv, NEW e \in Edge, pipe[e].writes # <<>>
    PROVE  /\ Awaits(e, Head(pipe[e].writes).by) /\ exit # "ok"
           /\ Head(pipe[e].writes) = pipe[e].writes[1] /\ Head(pipe[e].writes) \in WriteType
           /\ Len(pipe[e].writes) > 0 /\ pipe[e].writes \in Seq(WriteType)
<1>1. pipe[e].writes \in Seq(WriteType)
  BY DEF PInv, PipesGood, PipeType, WriteType
<1>2. /\ Head(pipe[e].writes) = pipe[e].writes[1] /\ Head(pipe[e].writes) \in WriteType
      /\ Len(pipe[e].writes) > 0 /\ 1 \in 1 .. Len(pipe[e].writes)
  BY <1>1
<1>3. Awaits(e, Head(pipe[e].writes).by)
  BY <1>2 DEF PInv
<1>4. exit # "ok"
  BY <1>3 DEF Awaits, PInv, At
<1> QED  BY <1>1, <1>2, <1>3, <1>4

\* The write at the head goes from one phase to the next.
LEMMA GoesOn ==
    ASSUME PInv, NEW e \in Edge, NEW t, Set(e, t), Moves, Elsewhere, UNCHANGED signal, Budget',
           pipe[e].writes # <<>>, Head(pipe[e].writes).phase # "failed",
           SameHands(pipe[e], t), SameWriters(pipe[e], t),
           pipe[e].finished # "open" => t.finished # "open",
           Failed(t) => t.finished # "open",
           e \in Stage /\ signal = None /\ t.finished = "errored" => pipe[e].finished = "errored",
           e \in Stage /\ Alive(t) =>
                Len(t.accepted) = stage[e].wrote /\ Head(t.writes).phase # "queued"
    PROVE  PInv' /\ Moves
<1> DEFINE d == Head(pipe[e].writes).by
<1>1. /\ pipe'[e] = t /\ Good(t) /\ Step(pipe[e], t) /\ t \in PipeType
      /\ \A f \in Edge : f # e => pipe'[f] = pipe[f]
  BY SetIs
<1>2. Tidy(t)
  BY TidyKept DEF PInv
<1>3. Typed' /\ StillWaits /\ OkAtEnd'
  <2>1. OkAtEnd
    BY DEF PInv, OkAtEnd
  <2> QED  BY <2>1 DEF PInv, Elsewhere, Typed, StillWaits, OkAtEnd, At
<1>4. AwaitsThen(e, d)
  <2>1. Awaits(e, d)
    BY HeadAwaited
  <2> HIDE DEF d
  <2> QED  BY <2>1 DEF Awaits, AwaitsThen, At, Elsewhere
<1>5. Joined(pipe[e], t, d)
  <2> HIDE DEF d
  <2> QED  BY DEF Joined, SameWriters
<1> HIDE DEF d
<1>6. AllAwaited'
  BY <1>3, <1>4, <1>5, WriteAwaited
<1>7. ASSUME NEW j \in Stage
      PROVE  (Blamed(j) => AboutToThrow(j))' /\ Counted(j)'
  <2>1. CASE j # e
    <3>1. pipe'[j] = pipe[j]
      BY <1>1, <2>1, Places
    <3> QED  BY <3>1, Apart DEF Elsewhere
  <2>2. CASE j = e
    <3>1. At(e, "writing")
      BY <2>2, OwnWrites
    <3>2. ~AboutToThrow(e)
      BY <3>1 DEF AboutToThrow, Failed, At
    <3>3. ~Blamed(e)
      BY <2>2, <3>2 DEF PInv, Blamed
    <3>4. ~Blamed(e)'
      BY <1>1, <2>2, <3>3 DEF Blamed, Elsewhere
    <3>5. Counted(e)'
      BY <1>1, <2>2 DEF Counted, Elsewhere
    <3> QED  BY <2>2, <3>4, <3>5
  <2> QED  BY <2>1, <2>2
<1> QED  BY <1>1, <1>2, <1>3, <1>6, <1>7, WorkKeeps DEF AllAwaited

\* A write that fails at once, with a stream that had failed or lost its reader.
LEMMA StartWriteKeeps ==
    ASSUME PInv, NEW e \in Edge, StartWrite(e), Elsewhere
    PROVE  PInv' /\ Moves
<1> DEFINE s == pipe[e]
           t == IF s.failure # None THEN HeadAt(s, "failed", s.failure) ELSE Accept(e, s)
<1>1. /\ s.writes # <<>> /\ Head(s.writes).phase = "queued" /\ Set(e, t)
      /\ UNCHANGED <<signal, unbilled, cancelling>>
  BY DEF StartWrite
<1>2. Good(s) /\ Tidy(s) /\ Sound(s) /\ s \in PipeType /\ signal \in Reason
  BY DEF PInv, PipesGood, Good, Sound
<1>3. Moves
  BY StartWriteMoves DEF PInv
<1>4. Budget'
  <2>1. spent' \in Nat
    BY DEF StartWrite, Charge, PInv, PipesGood
  <2> QED  BY <1>1, <2>1 DEF PInv, PipesGood, Budget
<1> HIDE DEF s
<1>5. /\ SameHands(s, t) /\ SameWriters(s, t) /\ t.dropped = s.dropped
      /\ s.finished # "open" => t.finished # "open"
      /\ Failed(t) => t.finished # "open"
      /\ s.finished # "open" => t.finished = s.finished
  <2>1. CASE s.failure # None
    <3>1. s.failure \in Reason /\ "failed" \in Phase
      BY <1>2 DEF PipeType, Phase
    <3>2. t = HeadAt(s, "failed", s.failure)
      BY <2>1
    <3> HIDE DEF t
    <3>3. t \in PipeType /\ SameStream(s, t) /\ SameWriters(s, t)
      BY <1>1, <1>2, <3>1, <3>2, HeadIs
    <3>4. SameHands(s, t) /\ t.finished = s.finished /\ t.dropped = s.dropped
      BY <1>2, <3>3, StreamFields
    <3>5. s.finished # "open"
      BY <1>2, <2>1 DEF Tidy
    <3> QED  BY <3>3, <3>4, <3>5
  <2>2. CASE s.failure = None
    <3>1. t = Accept(e, s)
      BY <2>2
    <3> HIDE DEF t
    <3>2. /\ SameHands(s, t) /\ SameWriters(s, t) /\ t.dropped = s.dropped
          /\ Taken(s, t) \/ Refused(s, t)
      BY <1>1, <1>2, <2>2, <3>1, AcceptIs
    <3> QED  BY <3>2 DEF Taken, Refused, Failed
  <2> QED  BY <2>1, <2>2
<1> HIDE DEF t
<1>6. e \in Stage => ~Alive(s)
  BY <1>1 DEF PInv, Counted, s
<1>7. e \in Stage => ~Alive(t)
  <2>1. Step(s, t) /\ t \in PipeType
    BY <1>1, <1>3, SetIs DEF s
  <2> QED  BY <1>2, <1>6, <2>1, DeadStays
<1>8. e \in Stage /\ t.finished = "errored" => s.finished = "errored"
  <2>1. e \in Stage => s.finished # "open"
    BY <1>2, <1>6 DEF Alive, Sound
  <2> QED  BY <1>5, <2>1
<1> QED  BY <1>1, <1>3, <1>4, <1>5, <1>7, <1>8, GoesOn DEF s

LEMMA ResumeWriteKeeps ==
    ASSUME PInv, NEW e \in Edge, ResumeWrite(e), Elsewhere
    PROVE  PInv' /\ Moves
<1> DEFINE s == pipe[e]
           error == IF signal # None THEN signal
                    ELSE IF s.cancelled # None THEN s.cancelled
                    ELSE IF s.finished = "errored" THEN s.error
                    ELSE None
           t == IF error = None THEN HeadAt(s, "accepted", None)
                ELSE HeadAt(Fail(s, error), "failed", error)
<1>1. /\ s.writes # <<>> /\ Head(s.writes).phase = "woken" /\ Set(e, t)
      /\ UNCHANGED <<signal, spent, unbilled, cancelling>>
  BY DEF ResumeWrite, Quiet
<1>2. Good(s) /\ Tidy(s) /\ Sound(s) /\ s \in PipeType /\ signal \in Reason
  BY DEF PInv, PipesGood, Good, Sound
<1>3. Moves
  BY ResumeWriteMoves DEF PInv
<1>4. Budget'
  BY <1>1, BudgetKept
<1>5. error \in Reason /\ (signal = None /\ error # None => s.finished # "open")
  <2>1. s.cancelled \in Reason /\ s.error \in Reason /\ (s.cancelled # None => s.finished # "open")
    BY <1>2 DEF PipeType, Sound
  <2> QED  BY <1>2, <2>1, Errors
<1> HIDE DEF s, error
<1>6. /\ SameHands(s, t) /\ SameWriters(s, t) /\ t.accepted = s.accepted
      /\ s.finished # "open" => t.finished = s.finished
      /\ error = None => t.finished = s.finished
      /\ error # None => t.finished # "open"
      /\ Failed(t) => error # None
      /\ Head(t.writes).phase # "queued"
  <2>1. CASE error = None
    <3>1. t = HeadAt(s, "accepted", None)
      BY <2>1
    <3> HIDE DEF t
    <3>2. "accepted" \in Phase /\ None \in Reason
      BY DEF Phase, Reason
    <3>3. /\ t \in PipeType /\ SameStream(s, t) /\ SameWriters(s, t)
          /\ Head(t.writes).phase = "accepted"
      BY <1>1, <1>2, <3>1, <3>2, HeadIs
    <3>4. SameHands(s, t) /\ t.finished = s.finished /\ t.accepted = s.accepted
      BY <1>2, <3>3, StreamFields
    <3> QED  BY <2>1, <3>3, <3>4 DEF Failed
  <2>2. CASE error # None
    <3> DEFINE u == Fail(s, error)
    <3>1. t = HeadAt(u, "failed", error)
      BY <2>2
    <3> HIDE DEF t
    <3>2. /\ u \in PipeType /\ SameHands(s, u) /\ SameWriters(s, u)
          /\ u.accepted = s.accepted
          /\ u.finished = IF s.finished = "open" THEN "errored" ELSE s.finished
      BY <1>2, <1>5, <2>2, FailIs
    <3> HIDE DEF u
    <3>3. u.writes # <<>>
      <4>1. u.writes \in Seq(WriteType) /\ s.writes \in Seq(WriteType)
        BY <1>2, <3>2 DEF PipeType, WriteType
      <4>2. Len(u.writes) = Len(s.writes)
        BY <3>2 DEF SameWriters
      <4> QED  BY <1>1, <4>1, <4>2
    <3>4. /\ t \in PipeType /\ SameStream(u, t) /\ SameWriters(u, t)
          /\ Head(t.writes).phase = "failed"
      BY <1>5, <3>1, <3>2, <3>3, HeadIs DEF Phase
    <3>5. SameHands(u, t) /\ t.finished = u.finished /\ t.accepted = u.accepted
      BY <3>2, <3>4, StreamFields
    <3>6. SameHands(s, t) /\ SameWriters(s, t)
      BY <3>2, <3>4, <3>5 DEF SameHands, SameWriters
    <3> QED  BY <2>2, <3>2, <3>4, <3>5, <3>6
  <2> QED  BY <2>1, <2>2
<1> HIDE DEF t
<1>7. e \in Stage /\ Alive(t) => Len(t.accepted) = stage[e].wrote
  <2>1. Step(s, t) /\ t \in PipeType
    BY <1>1, <1>3, SetIs DEF s
  <2>2. Alive(t) => Alive(s)
    BY <1>2, <2>1, DeadStays
  <2> QED  BY <1>6, <2>2 DEF PInv, Counted, s
<1>8. signal = None /\ t.finished = "errored" => s.finished = "errored"
  BY <1>5, <1>6
<1> QED  BY <1>1, <1>3, <1>4, <1>6, <1>7, <1>8, GoesOn DEF s
\* The pipe once its head write settled.
LEMMA SettledIs ==
    ASSUME PInv, NEW e \in Edge, SettleWrite(e), NEW s, s = pipe[e], NEW t, t = pipe'[e]
    PROVE  /\ Set(e, t) /\ Moves /\ Tidy(t) /\ Budget' /\ UNCHANGED signal
           /\ s.writes # <<>> /\ Head(s.writes).phase \in {"accepted", "failed"}
           /\ t.writes = Tail(s.writes)
           /\ t.accepted = s.accepted /\ t.dropped = s.dropped /\ t.finished = s.finished
<1> DEFINE done == Head(pipe[e].writes)
           r == IF done.phase = "accepted"
                THEN [[pipe[e] EXCEPT !.writes = Tail(pipe[e].writes)]
                        EXCEPT !.resolved = pipe[e].resolved \cup {done.chunk}]
                ELSE [[pipe[e] EXCEPT !.writes = Tail(pipe[e].writes)]
                        EXCEPT !.failure = IF pipe[e].failure = None THEN done.error
                                           ELSE pipe[e].failure]
<1>1. s \in PipeType /\ Sound(s) /\ Tidy(s) /\ PipesGood
  BY DEF PInv, PipesGood, Good, Sound
<1>2. /\ s.writes # <<>> /\ done.phase \in {"accepted", "failed"}
      /\ UNCHANGED <<signal, spent, unbilled, cancelling>>
  BY DEF SettleWrite, Quiet
<1>3. Moves
  BY <1>1, SettleWriteMoves
<1>4. Set(e, r)
  BY <1>1 DEF SettleWrite, PipeType
<1>5. t = r
  BY <1>4 DEF Set, PInv, PipesGood
<1>6. /\ t.writes = Tail(s.writes) /\ t.accepted = s.accepted /\ t.dropped = s.dropped
      /\ t.finished = s.finished /\ t.held = s.held /\ t.terminal = s.terminal
      /\ t.closing = s.closing /\ t.closeRequested = s.closeRequested
      /\ t.failure # None => s.failure # None \/ done.phase = "failed"
  BY <1>1, <1>2, <1>5 DEF PipeType
<1>7. Set(e, t)
  BY <1>4, <1>5
<1> HIDE DEF r
<1>8. done = Head(s.writes)
  OBVIOUS
<1> HIDE DEF done
<1>9. s.writes \in Seq(WriteType) /\ Len(s.writes) > 0
  <2>1. s.writes \in Seq(WriteType)
    BY <1>1 DEF PipeType, WriteType
  <2> QED  BY <1>2, <2>1
<1>10. /\ Len(t.writes) = Len(s.writes) - 1 /\ Len(s.writes) \in Nat
       /\ \A k \in 1 .. Len(t.writes) : k + 1 \in 1 .. Len(s.writes) /\ t.writes[k] = s.writes[k + 1]
  <2> HIDE DEF PInv
  <2>1. t.writes = Tail(s.writes)
    BY <1>6
  <2> QED  BY <1>9, <2>1
<1>11. ~Failed(t)
  <2> SUFFICES ASSUME t.writes # <<>>, Head(t.writes).phase = "failed"
               PROVE  FALSE
    BY DEF Failed
  <2>1. t.writes \in Seq(WriteType)
    BY <1>6, <1>9
  <2>2. Head(t.writes) = t.writes[1] /\ 1 \in 1 .. Len(t.writes)
    BY <2>1
  <2>3. t.writes[1] = s.writes[2] /\ 2 \in 2 .. Len(s.writes)
    BY <1>10, <2>2
  <2> QED  BY <1>1, <2>2, <2>3 DEF Sound
<1>12. Tidy(t)
  <2>1. \A k \in 1 .. Len(t.writes) : t.writes[k].by \in t.held
    BY <1>1, <1>6, <1>10 DEF Tidy
  <2>2. ASSUME NEW j \in 1 .. Len(t.writes), NEW k \in 1 .. Len(t.writes),
               t.writes[j].by = t.writes[k].by
        PROVE  j = k
    <3>1. s.writes[j + 1].by = s.writes[k + 1].by
      BY <1>10, <2>2
    <3>2. j + 1 \in 1 .. Len(s.writes) /\ k + 1 \in 1 .. Len(s.writes)
      BY <1>10
    <3>3. j + 1 = k + 1
      BY <1>1, <3>1, <3>2 DEF Tidy
    <3> QED  BY <3>3
  <2>3. t.failure # None => t.finished # "open"
    BY <1>1, <1>2, <1>6, <1>8 DEF Tidy, Failed
  <2> QED  BY <1>1, <1>6, <1>11, <2>1, <2>2, <2>3 DEF Tidy
<1>13. Budget'
  BY <1>2, BudgetKept
<1> QED  BY <1>2, <1>3, <1>6, <1>7, <1>8, <1>12, <1>13

\* Whoever waits for another write still does.
LEMMA OthersAwaited ==
    ASSUME PInv, NEW e \in Edge, NEW t, Set(e, t), pipe[e].writes # <<>>,
           t.writes = Tail(pipe[e].writes), NEW d, d = Head(pipe[e].writes).by,
           \A f \in Edge : \A b : b # d /\ Awaits(f, b) => AwaitsThen(f, b)
    PROVE  AllAwaited'
<1>1. pipe' = [pipe EXCEPT ![e] = t] /\ pipe \in [Edge -> PipeType]
  BY DEF Set, PInv, PipesGood
<1>2. /\ Awaits(e, d) /\ d = pipe[e].writes[1].by
      /\ Len(pipe[e].writes) > 0 /\ pipe[e].writes \in Seq(WriteType)
  BY HeadAwaited
<1>3. ASSUME NEW f \in Edge, NEW k \in 1 .. Len(pipe'[f].writes)
      PROVE  Awaits(f, pipe[f].writes[k].by)'
  <2> DEFINE b == pipe'[f].writes[k].by
  <2>1. b # d /\ Awaits(f, b)
    <3>1. CASE f = e
      <4>1. pipe'[e].writes = Tail(pipe[e].writes)
        BY <1>1
      <4> DEFINE w == pipe[e].writes
      <4>2. w \in Seq(WriteType) /\ k \in 1 .. Len(Tail(w)) /\ Len(w) > 0
        BY <1>2, <3>1, <4>1
      <4> HIDE DEF w
      <4>3. k + 1 \in 1 .. Len(w) /\ Tail(w)[k] = w[k + 1] /\ 1 \in 1 .. Len(w) /\ k + 1 # 1
        BY <4>2
      <4>4. b = w[k + 1].by
        BY <3>1, <4>1, <4>3 DEF w
      <4>5. w[k + 1].by # w[1].by
        BY <4>3 DEF PInv, Tidy, w
      <4>6. Awaits(f, w[k + 1].by)
        BY <3>1, <4>3 DEF PInv, w
      <4> HIDE DEF b
      <4> QED  BY <1>2, <4>4, <4>5, <4>6 DEF w
    <3>2. CASE f # e
      <4>1. pipe'[f] = pipe[f]
        BY <1>1, <3>2
      <4>2. b = pipe[f].writes[k].by /\ k \in 1 .. Len(pipe[f].writes)
        BY <4>1
      <4> HIDE DEF b
      <4>3. Awaits(f, b)
        BY <4>2 DEF PInv
      <4>4. b # d
        BY <1>2, <3>2, <4>3, Places DEF Awaits, At
      <4> QED  BY <4>3, <4>4
    <3> QED  BY <3>1, <3>2
  <2> HIDE DEF b
  <2>2. AwaitsThen(f, b)
    BY <2>1
  <2> QED  BY <2>2 DEF Awaits, AwaitsThen, At, b
<1> QED  BY <1>3 DEF AllAwaited

\* A write settles: the stage goes on, or is broken, and so is what it wrote to.
LEMMA SettlesKeeps ==
    ASSUME PInv, NEW e \in Edge, Settles(e)
    PROVE  PInv' /\ Moves
<1> DEFINE s == pipe[e]
           t == pipe'[e]
           done == Head(s.writes)
           i == done.by
<1>1. SettleWrite(e) /\ UNCHANGED <<thrown, exit>>
  BY DEF Settles
<1>2. /\ Set(e, t) /\ Moves /\ Tidy(t) /\ Budget' /\ UNCHANGED signal
      /\ s.writes # <<>> /\ done.phase \in {"accepted", "failed"}
      /\ t.writes = Tail(s.writes)
      /\ t.accepted = s.accepted /\ t.dropped = s.dropped /\ t.finished = s.finished
  BY <1>1, SettledIs
<1>3. /\ Awaits(e, i) /\ exit # "ok" /\ done \in WriteType
      /\ Len(s.writes) > 0 /\ s.writes \in Seq(WriteType)
  BY <1>2, HeadAwaited
<1>4. Good(t) /\ Step(s, t) /\ (\A f \in Edge : f # e => pipe'[f] = pipe[f])
  BY <1>2, SetIs
<1>5. stage \in [Stage -> StageType] /\ thrown \in Reason
  BY DEF PInv
<1>6. OkAtEnd'
  BY <1>1, <1>3 DEF OkAtEnd
<1>7. CASE i = Shell
  <2>1. shell' = "reported" /\ UNCHANGED stage
    BY <1>7 DEF Settles
  <2>2. e \notin Stage
    BY <1>3, <1>7, Places DEF Awaits
  <2>3. \A f \in Edge : \A b : b # i /\ Awaits(f, b) => AwaitsThen(f, b)
    BY <1>7, <2>1 DEF Awaits, AwaitsThen, At
  <2>4. AllAwaited'
    <3> HIDE DEF t
    <3> QED  BY <1>2, <2>3, OthersAwaited
  <2>5. Typed'
    BY <1>1, <1>5, <2>1 DEF Typed
  <2>6. ASSUME NEW j \in Stage
        PROVE  (Blamed(j) => AboutToThrow(j))' /\ Counted(j)'
    <3>1. pipe'[j] = pipe[j]
      BY <1>4, <2>2, Places
    <3> QED  BY <1>1, <1>2, <2>1, <3>1, Apart
  <2> HIDE DEF t
  <2> QED  BY <1>2, <1>4, <1>6, <2>4, <2>5, <2>6, WorkKeeps DEF AllAwaited
<1>8. CASE i # Shell
  <2> DEFINE failed == done.phase = "failed"
             phase == IF At(i, "diagnosing") THEN "diagnosed" ELSE IF failed THEN "broken" ELSE "body"
             outcome == IF failed THEN done.error ELSE stage[i].outcome
  <2>1. i \in Stage
    BY <1>3, <1>8 DEF Awaits
  <2>2. /\ stage' = [stage EXCEPT ![i].phase = phase, ![i].outcome = outcome]
        /\ UNCHANGED shell
    BY <1>5, <1>8 DEF Settles
  <2>3. phase \in {"diagnosed", "broken", "body"} /\ outcome \in Outcome
    <3>1. done.error \in Reason /\ stage[i].outcome \in Outcome
      BY <1>3, <1>5, <2>1 DEF WriteType, StageType
    <3> QED  BY <3>1, Errors
  <2>4. /\ stage' \in [Stage -> StageType] /\ stage'[i].wrote = stage[i].wrote
        /\ stage'[i].phase = phase /\ stage'[i].outcome = outcome
        /\ \A j \in Stage : j # i => stage'[j] = stage[j]
    <3> HIDE DEF phase, outcome, i
    <3> QED  BY <1>5, <2>1, <2>2, <2>3 DEF StageType
  <2>5. Typed'
    BY <1>1, <1>5, <2>4 DEF Typed
  <2>6. \A f \in Edge : \A b : b # i /\ Awaits(f, b) => AwaitsThen(f, b)
    BY <2>2, <2>4 DEF Awaits, AwaitsThen, At
  <2>7. AllAwaited'
    <3> HIDE DEF t
    <3> QED  BY <1>2, <2>6, OthersAwaited
  <2>8. ASSUME NEW j \in Stage, j # e
        PROVE  (Blamed(j) => AboutToThrow(j))' /\ Counted(j)'
    <3>1. pipe'[j] = pipe[j] /\ stage'[j].wrote = stage[j].wrote
      BY <1>4, <2>4, <2>8, Places
    <3>2. stage'[j] = stage[j] \/ ~Blamed(j)
      <4>1. CASE j = i
        <5>1. At(i, "diagnosing")
          BY <1>3, <1>8, <2>8, <4>1 DEF Awaits
        <5> QED  BY <4>1, <5>1, NotBlamed DEF At
      <4>2. CASE j # i
        BY <2>4, <4>2
      <4> QED  BY <4>1, <4>2
    <3> QED  BY <1>1, <1>2, <3>1, <3>2, Apart
  <2>9. ASSUME e \in Stage
        PROVE  (Blamed(e) => AboutToThrow(e))' /\ Counted(e)'
    <3>1. At(e, "writing") /\ Len(s.writes) = 1 /\ s.writes[1].by = e
      BY <1>2, <2>9, OwnWrites
    <3>2. i = e /\ t.writes = <<>>
      <4> DEFINE w == s.writes
      <4>1. w \in Seq(WriteType) /\ Len(w) = 1 /\ t.writes = Tail(w)
        BY <1>2, <1>3, <3>1
      <4> HIDE DEF w, t
      <4>2. Tail(w) = <<>> /\ Head(w) = w[1]
        BY <4>1
      <4> QED  BY <3>1, <4>1, <4>2 DEF w
    <3>3. Counted(e)'
      <4>1. Counted(e)
        BY <2>9 DEF PInv
      <4> QED  BY <1>2, <2>4, <3>2, <4>1 DEF Counted, Alive
    <3>4. (Blamed(e) => AboutToThrow(e))'
      <4> SUFFICES ASSUME Blamed(e)'
                   PROVE  AboutToThrow(e)'
        OBVIOUS
      <4>1. Blamed(e)
        BY <1>1, <1>2 DEF Blamed
      <4>2. AboutToThrow(e)
        BY <2>9, <4>1 DEF PInv, Blamed
      <4>3. failed /\ done.error = "E2BIG"
        BY <3>1, <4>2 DEF AboutToThrow, At, Failed
      <4>4. ~At(i, "diagnosing")
        BY <3>1, <3>2 DEF At
      <4>5. phase = "broken" /\ outcome = "E2BIG"
        BY <4>3, <4>4
      <4> HIDE DEF phase, outcome
      <4> QED  BY <2>4, <3>2, <4>5 DEF AboutToThrow, At
    <3> QED  BY <3>3, <3>4
  <2>10. \A j \in Stage : (Blamed(j) => AboutToThrow(j))' /\ Counted(j)'
    BY <2>8, <2>9
  <2> HIDE DEF t
  <2> QED  BY <1>2, <1>4, <1>6, <2>5, <2>7, <2>10, WorkKeeps DEF AllAwaited
<1> QED  BY <1>7, <1>8

LEMMA ContinueKeeps ==
    ASSUME PInv, NEW e \in Edge, Continue(e)
    PROVE  PInv' /\ Moves
  BY StartWriteKeeps, ResumeWriteKeeps, SettlesKeeps DEF Continue
-----------------------------------------------------------------------------
(* The rest of the world, and the whole. *)

LEMMA AbortKeeps ==
    ASSUME PInv, NEW reason \in Reason \ {None}, AbortAll(reason), cancelling' \in BOOLEAN, Elsewhere
    PROVE  PInv' /\ Moves
<1>1. AllEase /\ signal' # None
  BY AbortEases DEF AbortAll
<1>2. Budget'
  BY DEF AbortAll, PInv, PipesGood, Budget
<1>3. signal' # None \/ (AllUnbroken /\ UNCHANGED signal)
  BY <1>1
<1> QED  BY <1>1, <1>2, <1>3, ElsewhereKeeps

LEMMA WorldKeeps ==
    ASSUME PInv, Elsewhere,
           \/ \E e \in Edge : IdleTimeout(e)
           \/ \E e \in Root : Read(e) \/ Cancel(e)
           \/ DeliverCancel
           \/ AbortExecution("ETIMEDOUT")
           \/ AbortExecution("ECANCELED")
    PROVE  PInv' /\ Moves
<1>1. ASSUME NEW reason \in {"ETIMEDOUT", "ECANCELED"}, AbortExecution(reason)
      PROVE  PInv' /\ Moves
  <2>1. reason \in Reason \ {None} /\ AbortAll(reason) /\ cancelling' \in BOOLEAN
    BY <1>1, Errors DEF AbortExecution, PInv, PipesGood
  <2> QED  BY <2>1, AbortKeeps
<1>2. ASSUME NEW e \in Edge, IdleTimeout(e)
      PROVE  PInv' /\ Moves
  BY <1>1, <1>2 DEF IdleTimeout
<1>3. ASSUME NEW e \in Root, Read(e)
      PROVE  PInv' /\ Moves
  <2>1. e \in Edge /\ UNCHANGED <<signal, spent, unbilled, cancelling>>
    BY <1>3, PipeAssumption DEF Read, Quiet
  <2>2. AllEase /\ AllUnbroken /\ Budget'
    BY <1>3, <2>1, ReadEases, BudgetKept
  <2> QED  BY <2>1, <2>2, ElsewhereKeeps
<1>4. ASSUME NEW e \in Root, Cancel(e)
      PROVE  PInv' /\ Moves
  <2>1. e \in Edge /\ UNCHANGED <<signal, spent, unbilled>> /\ cancelling' \in BOOLEAN
    BY <1>4, PipeAssumption DEF Cancel, PInv, PipesGood
  <2>2. Budget'
    BY <2>1 DEF PInv, PipesGood, Budget
  <2>3. AllEase /\ AllUnbroken
    BY <1>4, <2>1, ConsumerCancelEases
  <2> QED  BY <2>1, <2>2, <2>3, ElsewhereKeeps
<1>5. ASSUME DeliverCancel
      PROVE  PInv' /\ Moves
  <2>1. CASE signal = None
    <3>1. AbortAll("ECANCELED") /\ cancelling' \in BOOLEAN /\ "ECANCELED" \in Reason \ {None}
      BY <1>5, <2>1, Errors DEF DeliverCancel
    <3> QED  BY <3>1, AbortKeeps
  <2>2. CASE signal # None
    <3>1. UNCHANGED <<pipe, signal, spent, unbilled>> /\ cancelling' = FALSE
      BY <1>5, <2>2 DEF DeliverCancel
    <3>2. Budget'
      BY <3>1 DEF PInv, PipesGood, Budget
    <3> QED  BY <3>1, <3>2, NoneEases, ElsewhereKeeps
  <2> QED  BY <2>1, <2>2
<1> QED  BY <1>1, <1>2, <1>3, <1>4, <1>5

LEMMA NextKeeps ==
    ASSUME PInv, [PipelineNext]_pipelineVars
    PROVE  PInv' /\ Moves
<1>1. CASE UNCHANGED pipelineVars
  <2>1. AllEase /\ AllUnbroken /\ Elsewhere /\ Budget' /\ UNCHANGED signal
    BY <1>1, NoneEases, BudgetKept DEF pipelineVars, pipeVars, Elsewhere
  <2> QED  BY <2>1, ElsewhereKeeps
<1>2. CASE \E i \in Stage : Command(i)
  BY <1>2, CommandKeeps
<1>3. CASE Execution
  BY <1>3, ExecutionKeeps
<1>4. CASE \E e \in Edge : Continue(e)
  BY <1>4, ContinueKeeps
<1>5. CASE \/ \E e \in Edge : Idle(e)
           \/ \E e \in Root : Consumer(e)
           \/ Abandoned
           \/ Deadline
           \/ Canceled
  BY <1>5, WorldKeeps DEF Idle, Consumer, Abandoned, Deadline, Canceled
<1> QED  BY <1>1, <1>2, <1>3, <1>4, <1>5 DEF PipelineNext
LEMMA OpenIs ==
    ASSUME NEW e \in Edge, NEW s, s = Open(e)
    PROVE  /\ Good(s) /\ Tidy(s) /\ s.writes = <<>> /\ s.accepted = <<>>
           /\ s.received = <<>> /\ s.finished = "open" /\ ~s.dropped
<1> DEFINE d == IF e < Out THEN e ELSE Shell
           more == IF e = Out THEN {d, N} ELSE IF e = Err THEN {d} \cup Stage ELSE {d}
           f == Fresh(d)
<1>1. d \in Descriptor /\ more \in SUBSET Descriptor /\ more # {}
  BY Places
<1>2. f \in PipeType /\ f.held = {d}
  <2> HIDE DEF d
  <2> QED  BY <1>1, Nothing DEF Fresh, PipeType, Reason
<1>3. s = [f EXCEPT !.held = more]
  <2>1. \/ e = Out /\ s = [f EXCEPT !.held = f.held \cup {N}]
        \/ e # Out /\ e = Err /\ s = [f EXCEPT !.held = f.held \cup Stage]
        \/ e # Out /\ e # Err /\ s = f
    BY DEF Open
  <2> HIDE DEF d, f
  <2>2. more = IF e = Out THEN {d, N} ELSE IF e = Err THEN {d} \cup Stage ELSE {d}
    BY DEF more
  <2>3. CASE e # Out /\ e # Err /\ s = f
    <3>1. more = f.held
      BY <1>2, <2>2, <2>3
    <3> QED  BY <1>2, <2>3, <3>1 DEF PipeType
  <2>4. {d} \cup {N} = {d, N}
    OBVIOUS
  <2> QED  BY <1>2, <2>1, <2>2, <2>3, <2>4
<1> HIDE DEF d, more
<1>4. s \in PipeType /\ s.held # {}
  <2> HIDE DEF f
  <2> QED  BY <1>1, <1>2, <1>3 DEF PipeType
<1>5. /\ s.queue = <<>> /\ s.reads = 0 /\ ~s.closing /\ s.finished = "open"
      /\ ~s.terminal /\ s.failure = None /\ ~s.closeRequested /\ s.cancelled = None
      /\ ~s.dropped /\ s.received = <<>> /\ s.accepted = <<>> /\ s.resolved = {}
      /\ s.writes = <<>>
  BY <1>3 DEF Fresh
<1>6. \A i \in 1 .. Len(s.writes) : FALSE
  BY <1>5
<1> HIDE DEF f
<1>7. Sound(s) /\ ~Waiting(s)
  <2>1. \A i \in 2 .. Len(s.writes) : FALSE
    BY <1>5
  <2> QED  BY <1>4, <1>5, <2>1 DEF Sound, Alive, Started, Waiting, Intact
<1>8. Tidy(s)
  BY <1>4, <1>5, <1>6 DEF Tidy, Failed
<1> QED  BY <1>5, <1>7, <1>8 DEF Good, Awake

LEMMA InitPInv ==
    ASSUME PipelineInit
    PROVE  PInv
<1>1. ASSUME NEW e \in Edge
      PROVE  /\ Good(pipe[e]) /\ Tidy(pipe[e]) /\ pipe[e].writes = <<>>
             /\ pipe[e].accepted = <<>> /\ pipe[e].finished = "open"
  <2>1. pipe[e] = Open(e)
    BY DEF PipelineInit
  <2> QED  BY <2>1, OpenIs
<1>2. PipesGood
  <2>1. \A e \in Edge : pipe[e] \in PipeType
    BY <1>1 DEF Good, Sound
  <2>2. pipe \in [Edge -> PipeType]
    BY <2>1 DEF PipelineInit
  <2> QED  BY <1>1, <2>2 DEF PipelineInit, PipesGood, Reason
<1>3. stage \in [Stage -> StageType] /\ thrown \in Reason
  <2>1. Ready \in StageType
    BY PipelineAssumption DEF Ready, StageType, Outcome
  <2> QED  BY <2>1 DEF PipelineInit, Reason
<1>4. \A e \in Edge : \A k \in 1 .. Len(pipe[e].writes) : Awaits(e, pipe[e].writes[k].by)
  <2>1. \A e \in Edge : \A k \in 1 .. Len(pipe[e].writes) : FALSE
    BY <1>1
  <2> QED  BY <2>1
<1>5. ASSUME NEW i \in Stage
      PROVE  pipe[i].finished # "errored" /\ Counted(i)
  <2>1. pipe[i].writes = <<>> /\ pipe[i].accepted = <<>> /\ pipe[i].finished = "open"
    BY <1>1, Places
  <2>2. stage[i].wrote = 0
    BY DEF PipelineInit, Ready
  <2> QED  BY <2>1, <2>2 DEF Counted
<1>6. exit # "ok"
  BY Errors DEF PipelineInit
<1> QED  BY <1>1, <1>2, <1>3, <1>4, <1>5, <1>6 DEF PInv

\* PInv holds of every reachable state of a pipeline of any length: its pipes are
\* sound, whoever waits for a write holds the pipe, an output that failed is about
\* to be thrown for, and what a stage wrote is what its output accepted.
THEOREM PipelineInvariance == PipelineSpec => []PInv
<1>1. PipelineInit => PInv
  BY InitPInv
<1>2. PInv /\ [PipelineNext]_pipelineVars => PInv'
  BY NextKeeps
<1> QED  BY <1>1, <1>2, PTL DEF PipelineSpec

\* shell-runtime.ts closeDescriptors(): when the last descriptor of a pipe is gone
\* its writes have settled and the pipe has ended, or is asked to once it is read.
THEOREM NobodyWaits == PipelineSpec => []NobodyWaitsForTheDead
<1>1. PInv => NobodyWaitsForTheDead
  <2> SUFFICES ASSUME PInv, NEW e \in Edge, pipe[e].held = {}
               PROVE  /\ pipe[e].writes = <<>>
                      /\ pipe[e].finished # "open" \/ pipe[e].closeRequested
    BY DEF NobodyWaitsForTheDead
  <2>1. Tidy(pipe[e]) /\ pipe[e].writes \in Seq(WriteType)
    BY DEF PInv, PipesGood, PipeType, WriteType
  <2>2. \A k \in 1 .. Len(pipe[e].writes) : FALSE
    BY <2>1 DEF Tidy
  <2>3. pipe[e].writes = <<>>
    BY <2>1, <2>2
  <2> QED  BY <2>1, <2>3 DEF Tidy
<1> QED  BY <1>1, PipelineInvariance, PTL

\* shell-session-execution.ts: an exit status of success, without an abort, means
\* that no pipe of the pipeline failed, that every reader that stayed has all that
\* was written to it, and stdout all that the last stage wrote.
THEOREM SuccessLosesNothing == PipelineSpec => []SuccessIsComplete
<1>1. PInv => SuccessIsComplete
  <2> SUFFICES ASSUME PInv, exit = "ok", signal = None
               PROVE  /\ \A e \in Edge \ {Err} : pipe[e].finished # "errored"
                      /\ \A e \in Edge \ {Err} : ~pipe[e].dropped =>
                            pipe[e].received \o pipe[e].queue = pipe[e].accepted
                      /\ ~pipe[Out].dropped => Len(pipe[Out].accepted) = stage[N].wrote
    BY DEF SuccessIsComplete
  <2>1. thrown = None /\ \A i \in Stage : At(i, "done")
    BY DEF PInv
  <2>2. ASSUME NEW i \in Stage
        PROVE  pipe[i].finished # "errored"
    <3>1. ~AboutToThrow(i)
      BY <2>1 DEF AboutToThrow, At
    <3> QED  BY <2>1, <3>1 DEF PInv
  <2>3. ASSUME NEW i \in Stage, ~pipe[i].dropped
        PROVE  /\ pipe[i].received \o pipe[i].queue = pipe[i].accepted
               /\ Len(pipe[i].accepted) = stage[i].wrote
    <3>1. Alive(pipe[i]) /\ i \in Edge
      BY <2>2, <2>3, Places DEF Alive
    <3>2. Counted(i) /\ Sound(pipe[i])
      BY <3>1 DEF PInv, PipesGood, Good
    <3> QED  BY <3>1, <3>2 DEF Counted, Sound, Intact
  <2> QED  BY <2>2, <2>3, Places
<1> QED  BY <1>1, PipelineInvariance, PTL

\* What SharedPipe shows of pipes in any hands holds of the pipes of a pipeline,
\* whose commands and execution hold them: no wakeup is lost, what was acknowledged
\* is kept, and a stream that ended well is complete.
THEOREM PipesKeepTheirWord ==
    PipelineSpec => [](NoLostWakeup /\ AcknowledgedIsKept /\ GoodEndIsComplete)
<1>1. PInv => NoLostWakeup /\ AcknowledgedIsKept /\ GoodEndIsComplete
  BY GoodPipes DEF PInv
<1> QED  BY <1>1, PipelineInvariance, PTL

\* And the pipe of a pipeline does no more than the contract of a pipe.
THEOREM PipelineImplementsPipe == PipelineSpec => ImplementsPipe
<1>1. PipelineInit => Contract!Init
  <2> SUFFICES ASSUME PipelineInit
               PROVE  Contract!Init
    OBVIOUS
  <2>1. OneEdge \in Edge
    BY SharedPipeAssumption DEF OneEdge
  <2>2. pipe[OneEdge] = Open(OneEdge)
    BY <2>1 DEF PipelineInit
  <2>3. /\ pipe[OneEdge].accepted = <<>> /\ pipe[OneEdge].received = <<>>
        /\ pipe[OneEdge].finished = "open" /\ ~pipe[OneEdge].dropped
    BY <2>1, <2>2, OpenIs
  <2> QED  BY <2>3 DEF Contract!Init, StateOf
<1>2. PInv /\ [PipelineNext]_pipelineVars => [Contract!Next]_(Contract!vars)
  BY NextKeeps, MovesImplement DEF PInv
<1>3. QED
  BY <1>1, <1>2, PipelineInvariance, PTL DEF PipelineSpec, ImplementsPipe, Contract!Spec
=============================================================================
