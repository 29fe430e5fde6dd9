--------------------------- MODULE SharedPipeProofs ---------------------------
(* Proofs about SharedPipe: for any number of pipes, chunks and descriptors, *)
(* and any capacity, limits and budget.                                      *)
EXTENDS SharedPipe, SequenceTheorems, TLAPS

\* The stream still has all it took, or ended having delivered it.
Alive(s) == s.finished # "errored" /\ ~s.dropped

Started(s) ==
    s.writes # <<>> /\ Head(s.writes).phase \in {"waiting", "woken", "accepted"}

\* Nothing was lost: what is read, then what is queued, is what was accepted.
Intact(s) ==
    /\ s.received \o s.queue = s.accepted
    /\ s.resolved \subseteq Elements(s.accepted)
    /\ Started(s) => Head(s.writes).chunk \in Elements(s.accepted)

\* What holds of a pipe between any two steps of its code.
Sound(s) ==
    /\ s \in PipeType
    /\ \A i \in 2 .. Len(s.writes) : s.writes[i].phase = "queued"
    /\ s.finished # "open" => s.queue = <<>> /\ s.reads = 0
    /\ s.reads > 0 => s.queue = <<>>
    /\ s.closing => s.terminal
    /\ s.closeRequested => s.terminal /\ s.writes = <<>> /\ s.failure = None
    /\ s.cancelled # None => s.finished # "open"
    /\ s.dropped => s.finished = "closed" /\ s.cancelled # None
    /\ s.finished = "closed" => s.dropped \/ s.closeRequested
    /\ s.finished = "errored" /\ s.cancelled = None => s.terminal /\ s.failure # None
    /\ Alive(s) => Intact(s)

Awake(s) ==
    Waiting(s) => Len(s.queue) >= Capacity /\ s.cancelled = None /\ s.finished = "open"

\* And between two of its actions.
Good(s) == Sound(s) /\ Awake(s)

\* What holds of the pipes of an execution, whoever holds their ends.
PipesGood ==
    /\ pipe \in [Edge -> PipeType]
    /\ \A e \in Edge : Good(pipe[e])
    /\ signal \in Reason /\ spent \in Nat
    /\ unbilled \in BOOLEAN /\ cancelling \in BOOLEAN

IInv == PipesGood /\ offered \subseteq Chunk
-----------------------------------------------------------------------------
(* Sequences. *)

\* A chunk that is dequeued stays in its place among all chunks.
LEMMA MoveHead ==
    ASSUME NEW r \in Seq(Chunk), NEW q \in Seq(Chunk), q # <<>>
    PROVE  /\ Append(r, Head(q)) \in Seq(Chunk) /\ Tail(q) \in Seq(Chunk)
           /\ Append(r, Head(q)) \o Tail(q) = r \o q
<1>1. Head(q) \in Chunk /\ Tail(q) \in Seq(Chunk) /\ Append(r, Head(q)) \in Seq(Chunk)
  OBVIOUS
<1>2. Append(r, Head(q)) \o Tail(q) = r \o q
  BY <1>1
<1> QED  BY <1>1, <1>2

\* What is left after the last chunk, and where the next one comes from.
LEMMA Concat ==
    ASSUME NEW r \in Seq(Chunk), NEW q \in Seq(Chunk), NEW c \in Chunk
    PROVE  /\ r \o <<>> = r
           /\ r \o Append(q, c) = Append(r \o q, c)
           /\ q # <<>> => Len(r) < Len(r \o q) /\ Head(q) = (r \o q)[Len(r) + 1]
<1>1. r \o <<>> = r
  BY ConcatEmptySeq
<1>2. r \o Append(q, c) = Append(r \o q, c)
  OBVIOUS
<1>3. q # <<>> => Len(q) > 0 /\ Head(q) = q[1]
  OBVIOUS
<1>4. q # <<>> => Len(r) < Len(r \o q) /\ Head(q) = (r \o q)[Len(r) + 1]
  BY <1>3
<1> QED  BY <1>1, <1>2, <1>4

\* An empty queue and no reads are in range.
LEMMA Nothing == <<>> \in Seq(Chunk) /\ 0 \in 0 .. MaxReads
  BY PipeAssumption

\* A pipe with nothing in it, for a reader or for a chunk that waits.
LEMMA EmptyType ==
    ASSUME NEW s \in PipeType
    PROVE  [s EXCEPT !.queue = <<>>, !.reads = 0] \in PipeType
BY Nothing DEF PipeType

\* A pipe that fails, and one that settles a write.
LEMMA OutcomeType ==
    ASSUME NEW s \in PipeType, NEW reason \in Reason
    PROVE  /\ [s EXCEPT !.finished = "errored", !.error = reason, !.cancelled = reason]
                   \in PipeType
           /\ \A resolved \in SUBSET Chunk :
                   [s EXCEPT !.resolved = resolved, !.failure = reason] \in PipeType
BY DEF PipeType

\* A pipe that hands a chunk to a read that waits.
LEMMA PassedType ==
    ASSUME NEW s \in PipeType, NEW chunks \in Seq(Chunk)
    PROVE  [s EXCEPT !.accepted = chunks, !.received = chunks] \in PipeType
BY DEF PipeType

\* Elements of a sequence that grows.
LEMMA ElementsAppend ==
    ASSUME NEW a \in Seq(Chunk), NEW c \in Chunk
    PROVE  /\ Elements(a) \subseteq Elements(Append(a, c))
           /\ c \in Elements(Append(a, c))
  BY DEF Elements

\* A sequence with another head.
LEMMA ReplaceHead ==
    ASSUME NEW S, NEW w \in Seq(S), w # <<>>, NEW h \in S
    PROVE  /\ <<h>> \o Tail(w) \in Seq(S) /\ <<h>> \o Tail(w) # <<>>
           /\ Len(<<h>> \o Tail(w)) = Len(w) /\ Head(<<h>> \o Tail(w)) = h
           /\ \A i \in 2 .. Len(w) : (<<h>> \o Tail(w))[i] = w[i]
  OBVIOUS

WriteType == [chunk : Chunk, by : Descriptor, phase : Phase, error : Reason]

\* A write that is changed at the head.
LEMMA HeadChanged ==
    ASSUME NEW s, s \in PipeType, s.writes # <<>>, NEW phase \in Phase, NEW error \in Reason,
           NEW t, t = HeadAt(s, phase, error)
    PROVE  /\ t = [s EXCEPT !.writes = t.writes]
           /\ t.writes \in Seq(WriteType) /\ t \in PipeType
           /\ Len(t.writes) = Len(s.writes) /\ t.writes # <<>>
           /\ \A i \in 2 .. Len(s.writes) : t.writes[i] = s.writes[i]
           /\ Head(t.writes).phase = phase /\ Head(t.writes).chunk = Head(s.writes).chunk
<1> DEFINE h == [Head(s.writes) EXCEPT !.phase = phase, !.error = error]
<1>1. s.writes \in Seq(WriteType)
  BY DEF PipeType, WriteType
<1>2. Head(s.writes) \in WriteType
  BY <1>1
<1>3. h \in WriteType /\ h.phase = phase /\ h.chunk = Head(s.writes).chunk
  BY <1>2 DEF WriteType
<1>4. t.writes = <<h>> \o Tail(s.writes) /\ t = [s EXCEPT !.writes = t.writes]
  BY DEF HeadAt, PipeType
<1> HIDE DEF h
<1>5. /\ t.writes \in Seq(WriteType) /\ t.writes # <<>>
      /\ Len(t.writes) = Len(s.writes) /\ Head(t.writes) = h
      /\ \A i \in 2 .. Len(s.writes) : t.writes[i] = s.writes[i]
  BY <1>1, <1>3, <1>4, ReplaceHead
<1>6. t \in PipeType
  BY <1>4, <1>5 DEF PipeType, WriteType
<1> QED  BY <1>3, <1>4, <1>5, <1>6

\* What the pipe is apart from its writes.
SameStream(s, t) == t = [s EXCEPT !.writes = t.writes]

\* A sound pipe whose head goes to another phase.
LEMMA HeadSound ==
    ASSUME NEW s, Sound(s), s.writes # <<>>, NEW phase \in Phase, NEW error \in Reason,
           Alive(s) /\ phase \in {"waiting", "woken", "accepted"}
               => Head(s.writes).chunk \in Elements(s.accepted),
           NEW t, t = HeadAt(s, phase, error)
    PROVE  /\ Sound(t) /\ SameStream(s, t) /\ t.writes # <<>>
           /\ Head(t.writes).phase = phase
<1>1. s \in PipeType
  BY DEF Sound
<1>2. /\ t = [s EXCEPT !.writes = t.writes]
      /\ t \in PipeType
      /\ Len(t.writes) = Len(s.writes) /\ t.writes # <<>>
      /\ \A i \in 2 .. Len(s.writes) : t.writes[i] = s.writes[i]
      /\ Head(t.writes).phase = phase /\ Head(t.writes).chunk = Head(s.writes).chunk
  BY <1>1, HeadChanged
<1>3. \A i \in 2 .. Len(t.writes) : t.writes[i].phase = "queued"
  BY <1>2 DEF Sound
<1>4. /\ t.queue = s.queue /\ t.reads = s.reads /\ t.closing = s.closing
      /\ t.finished = s.finished /\ t.terminal = s.terminal /\ t.failure = s.failure
      /\ t.closeRequested = s.closeRequested /\ t.cancelled = s.cancelled
      /\ t.dropped = s.dropped /\ t.received = s.received /\ t.accepted = s.accepted
      /\ t.resolved = s.resolved
  BY <1>1, <1>2 DEF PipeType
<1>5. Alive(t) => Intact(t)
  BY <1>2, <1>4 DEF Sound, Alive, Intact, Started
<1>6. Sound(t)
  BY <1>2, <1>3, <1>4, <1>5 DEF Sound
<1> QED  BY <1>2, <1>6 DEF SameStream

\* A wakeup leaves no writer that should not wait.
LEMMA WakeGood ==
    ASSUME NEW s, Sound(s), NEW t, t = WakeWriters(s)
    PROVE  /\ Good(t) /\ SameStream(s, t)
           /\ t.writes = <<>> <=> s.writes = <<>>
<1>1. s \in PipeType
  BY DEF Sound
<1>2. CASE t = s
  <2>1. SameStream(s, t)
    BY <1>1, <1>2 DEF SameStream, PipeType
  <2>2. Awake(t)
    <3> SUFFICES ASSUME Waiting(s)
                 PROVE  Len(s.queue) >= Capacity /\ s.cancelled = None /\ s.finished = "open"
      BY <1>2 DEF Awake
    <3>1. CASE s.cancelled # None \/ s.finished = "errored" \/ Len(s.queue) < Capacity
      <4>1. t = HeadAt(s, "woken", None)
        BY <3>1 DEF WakeWriters
      <4>2. Head(t.writes).phase = "woken"
        BY <1>1, <4>1, HeadChanged DEF Waiting, Phase, Reason
      <4> QED  BY <1>2, <4>2 DEF Waiting
    <3>2. CASE ~(s.cancelled # None \/ s.finished = "errored" \/ Len(s.queue) < Capacity)
      <4>1. s.finished # "closed"
        BY <3>2 DEF Sound, Waiting
      <4>2. s.finished \in {"open", "closed", "errored"} /\ Len(s.queue) \in Nat
        BY <1>1 DEF PipeType
      <4> QED  BY <3>2, <4>1, <4>2, PipeAssumption
    <3> QED  BY <3>1, <3>2
  <2> QED  BY <1>2, <2>1, <2>2 DEF Good
<1>3. CASE Waiting(s) /\ t = HeadAt(s, "woken", None)
  <2>0. s.writes # <<>> /\ "woken" \in Phase /\ None \in Reason
        /\ (Alive(s) => Head(s.writes).chunk \in Elements(s.accepted))
    BY <1>3 DEF Waiting, Phase, Reason, Sound, Started, Intact
  <2>1. Sound(t) /\ SameStream(s, t) /\ t.writes # <<>> /\ Head(t.writes).phase = "woken"
    BY <1>3, <2>0, HeadSound
  <2>2. Awake(t)
    BY <2>1 DEF Awake, Waiting
  <2> QED  BY <1>3, <2>1, <2>2 DEF Good, Waiting
<1> QED  BY <1>2, <1>3 DEF WakeWriters
-----------------------------------------------------------------------------
(* The steps of one pipe. *)

\* What a step means to the contract of a pipe.
Step(s, t) ==
    \/ t.accepted = s.accepted /\ t.received = s.received /\ StateOf(t) = StateOf(s)
    \/ /\ StateOf(s) = "open"
       /\ \/ /\ StateOf(t) = "open"
             /\ \E chunk \in Chunk : t.accepted = Append(s.accepted, chunk)
             /\ \/ t.received = s.received
                \/ s.received = s.accepted /\ t.received = t.accepted
          \/ /\ t.accepted = s.accepted /\ Len(s.received) < Len(s.accepted)
             /\ t.received = Append(s.received, s.accepted[Len(s.received) + 1])
             /\ \/ StateOf(t) = "open"
                \/ StateOf(t) = "ended" /\ t.received = t.accepted
          \/ /\ t.accepted = s.accepted /\ t.received = s.received
             /\ \/ StateOf(t) = "ended" /\ s.received = s.accepted
                \/ StateOf(t) \in {"failed", "left"}

\* Changes of the writes are no steps of the contract, before or after others.
LEMMA SameStep ==
    ASSUME NEW s, NEW t, NEW u, s \in PipeType, t \in PipeType, SameStream(s, t)
    PROVE  Step(s, t) /\ (Step(u, s) => Step(u, t)) /\ (Step(t, u) => Step(s, u))
<1>1. /\ t.accepted = s.accepted /\ t.received = s.received
      /\ t.dropped = s.dropped /\ t.finished = s.finished
  BY DEF SameStream, PipeType
<1>2. StateOf(t) = StateOf(s)
  BY <1>1 DEF StateOf
<1> QED  BY <1>1, <1>2 DEF Step

\* A stream that fails, and whoever writes to it knows.
LEMMA BreakSound ==
    ASSUME NEW s, Sound(s), NEW reason \in Reason \ {None},
           NEW t, t = [ErrorStream(s, reason) EXCEPT !.cancelled = reason]
    PROVE  Sound(t) /\ Step(s, t) /\ t.writes = s.writes
<1>1. s \in PipeType
  BY DEF Sound
<1>2. CASE s.finished # "open"
  <2>1. t = [s EXCEPT !.cancelled = reason]
    BY <1>2 DEF ErrorStream
  <2>2. t \in PipeType
    BY <1>1, <2>1 DEF PipeType
  <2>3. /\ t.queue = s.queue /\ t.reads = s.reads /\ t.closing = s.closing
        /\ t.finished = s.finished /\ t.terminal = s.terminal /\ t.failure = s.failure
        /\ t.closeRequested = s.closeRequested /\ t.cancelled = reason
        /\ t.dropped = s.dropped /\ t.received = s.received /\ t.accepted = s.accepted
        /\ t.resolved = s.resolved /\ t.writes = s.writes
    BY <1>1, <2>1 DEF PipeType
  <2>4. Sound(t)
    <3>0. Alive(t) => Intact(t)
      BY <1>2, <2>2, <2>3 DEF Sound, Alive, Started, Intact
    <3> QED  BY <1>2, <2>2, <2>3, <3>0 DEF Sound
  <2>5. Step(s, t)
    <3>1. t.dropped = s.dropped /\ t.finished = s.finished
      BY <2>3
    <3>2. StateOf(t) = StateOf(s)
      BY <1>1, <3>1 DEF StateOf, PipeType
    <3> QED  BY <2>3, <3>2 DEF Step
  <2> QED  BY <2>3, <2>4, <2>5
<1>3. CASE s.finished = "open"
  <2>1. t = [s EXCEPT !.finished = "errored", !.error = reason, !.queue = <<>>, !.reads = 0,
                      !.cancelled = reason]
    BY <1>1, <1>3 DEF ErrorStream, PipeType
  <2>2. t \in PipeType
    <3> DEFINE empty == [s EXCEPT !.queue = <<>>, !.reads = 0]
    <3>1. empty \in PipeType
      BY <1>1, EmptyType
    <3>2. t = [empty EXCEPT !.finished = "errored", !.error = reason, !.cancelled = reason]
      BY <1>1, <2>1 DEF PipeType
    <3> HIDE DEF empty
    <3> QED  BY <3>1, <3>2, OutcomeType
  <2>3. /\ t.queue = <<>> /\ t.reads = 0 /\ t.closing = s.closing
        /\ t.finished = "errored" /\ t.terminal = s.terminal /\ t.failure = s.failure
        /\ t.closeRequested = s.closeRequested /\ t.cancelled = reason
        /\ t.dropped = s.dropped /\ t.received = s.received /\ t.accepted = s.accepted
        /\ t.resolved = s.resolved /\ t.writes = s.writes
    BY <1>1, <2>1 DEF PipeType
  <2>4. Sound(t)
    <3>0. Alive(t) => Intact(t)
      BY <1>3, <2>2, <2>3 DEF Sound, Alive, Started, Intact
    <3> QED  BY <1>3, <2>2, <2>3, <3>0 DEF Sound
  <2>5. Step(s, t)
    BY <1>3, <2>3 DEF Step, StateOf, Sound
  <2> QED  BY <2>3, <2>4, <2>5
<1> QED  BY <1>2, <1>3

\* fail() and abortFromSignal() tell the waiting writer.
LEMMA FailGood ==
    ASSUME NEW s, Sound(s), NEW reason \in Reason \ {None}, NEW t, t = Fail(s, reason)
    PROVE  Good(t) /\ Step(s, t) /\ (t.writes = <<>> <=> s.writes = <<>>)
<1> DEFINE u == IF s.cancelled = None
                THEN [ErrorStream(s, reason) EXCEPT !.cancelled = reason] ELSE s
<1>1. Sound(u) /\ Step(s, u) /\ u.writes = s.writes
  <2>1. CASE s.cancelled = None
    <3>1. u = [ErrorStream(s, reason) EXCEPT !.cancelled = reason]
      BY <2>1
    <3> QED  BY <3>1, BreakSound
  <2>2. CASE s.cancelled # None
    BY <2>2 DEF Step
  <2> QED  BY <2>1, <2>2
<1>2. t = WakeWriters(u)
  BY DEF Fail
<1> HIDE DEF u
<1>3. Good(t) /\ SameStream(u, t) /\ (t.writes = <<>> <=> u.writes = <<>>)
  BY <1>1, <1>2, WakeGood
<1>4. u \in PipeType /\ t \in PipeType
  BY <1>1, <1>3 DEF Good, Sound
<1> QED  BY <1>1, <1>3, <1>4, SameStep

LEMMA SignalGood ==
    ASSUME NEW s, Good(s), NEW reason \in Reason \ {None}, NEW t, t = AbortFromSignal(s, reason)
    PROVE  Good(t) /\ Step(s, t)
<1>1. CASE t = s
  BY <1>1 DEF Step
<1>2. CASE t = WakeWriters([ErrorStream(s, reason) EXCEPT !.cancelled = reason])
  <2> DEFINE u == [ErrorStream(s, reason) EXCEPT !.cancelled = reason]
  <2>1. Sound(u) /\ Step(s, u)
    BY BreakSound DEF Good
  <2> HIDE DEF u
  <2>2. Good(t) /\ SameStream(u, t)
    BY <1>2, <2>1, WakeGood DEF u
  <2>3. u \in PipeType /\ t \in PipeType
    BY <2>1, <2>2 DEF Good, Sound
  <2> QED  BY <2>1, <2>2, <2>3, SameStep
<1> QED  BY <1>1, <1>2 DEF AbortFromSignal

\* The consumer leaves.
LEMMA CancelGood ==
    ASSUME NEW s, Good(s), NEW reason \in Reason \ {None}, NEW t, t = ConsumerCancel(s, reason)
    PROVE  Good(t) /\ Step(s, t)
<1>1. CASE s.finished # "open"
  BY <1>1 DEF Step, ConsumerCancel
<1>2. CASE s.finished = "open"
  <2> DEFINE u == [FinishClosed([s EXCEPT !.queue = <<>>]) EXCEPT !.cancelled = reason, !.dropped = TRUE]
  <2>1. s \in PipeType /\ Sound(s)
    BY DEF Good, Sound
  <2>2. u = [s EXCEPT !.queue = <<>>, !.finished = "closed", !.reads = 0,
                      !.cancelled = reason, !.dropped = TRUE]
    BY <2>1 DEF FinishClosed, PipeType
  <2>3. u \in PipeType
    <3> DEFINE empty == [s EXCEPT !.queue = <<>>, !.reads = 0]
    <3>1. empty \in PipeType
      BY <2>1, EmptyType
    <3>2. u = [empty EXCEPT !.finished = "closed", !.cancelled = reason, !.dropped = TRUE]
      BY <2>1, <2>2 DEF PipeType
    <3> HIDE DEF empty, u
    <3> QED  BY <3>1, <3>2 DEF PipeType
  <2>4. /\ u.queue = <<>> /\ u.reads = 0 /\ u.closing = s.closing
        /\ u.finished = "closed" /\ u.terminal = s.terminal /\ u.failure = s.failure
        /\ u.closeRequested = s.closeRequested /\ u.cancelled = reason
        /\ u.dropped /\ u.received = s.received /\ u.accepted = s.accepted
        /\ u.writes = s.writes
    <3> HIDE DEF u
    <3> QED  BY <2>1, <2>2 DEF PipeType
  <2>5. Sound(u)
    <3>0. Alive(u) => Intact(u)
      BY <2>1, <2>3, <2>4 DEF Sound, Alive, Started, Intact
    <3> QED  BY <2>1, <2>3, <2>4, <3>0 DEF Sound
  <2>6. Step(s, u)
    BY <1>2, <2>1, <2>4 DEF Step, StateOf, Sound
  <2>7. t = WakeWriters(u)
    BY <1>2 DEF ConsumerCancel
  <2> HIDE DEF u
  <2>8. Good(t) /\ SameStream(u, t)
    BY <2>5, <2>7, WakeGood
  <2>9. t \in PipeType
    BY <2>8 DEF Good, Sound
  <2> QED  BY <2>3, <2>6, <2>8, <2>9, SameStep
<1> QED  BY <1>1, <1>2

\* A chunk goes to the reader or into the queue.
LEMMA EnqueueSound ==
    ASSUME NEW s, Sound(s), s.finished = "open", ~s.closeRequested, NEW chunk \in Chunk,
           NEW t, t = Enqueue([s EXCEPT !.written = @ + 1], chunk)
    PROVE  /\ Sound(t) /\ Step(s, t)
           /\ t.writes = s.writes /\ t.cancelled = s.cancelled /\ t.finished = s.finished
           /\ chunk \in Elements(t.accepted) /\ Len(t.queue) \in Nat
<1> DEFINE new == Append(s.accepted, chunk)
<1>1. s \in PipeType /\ s.written + 1 \in Nat /\ Alive(s) /\ StateOf(s) = "open"
  BY DEF Sound, PipeType, Alive, StateOf
<1>2. new \in Seq(Chunk) /\ Elements(s.accepted) \subseteq Elements(new) /\ chunk \in Elements(new)
  BY <1>1, ElementsAppend DEF PipeType
<1>3. s.received \o s.queue = s.accepted
  BY <1>1 DEF Sound, Intact
<1>4. CASE s.reads > 0
  <2>1. s.queue = <<>> /\ s.reads - 1 \in 0 .. MaxReads
    BY <1>1, <1>4, PipeAssumption DEF Sound, PipeType
  <2>2. s.received = s.accepted
    BY <1>1, <1>3, <2>1 DEF PipeType
  <2>3. t = [s EXCEPT !.written = s.written + 1, !.reads = s.reads - 1, !.accepted = new,
                      !.received = new]
    BY <1>1, <1>4, <2>2 DEF Enqueue, PipeType
  <2> HIDE DEF new
  <2>4. t \in PipeType
    <3> DEFINE taken == [s EXCEPT !.written = s.written + 1, !.reads = s.reads - 1]
    <3>1. taken \in PipeType
      BY <1>1, <2>1 DEF PipeType
    <3>2. t = [taken EXCEPT !.accepted = new, !.received = new]
      BY <1>1, <2>3 DEF PipeType
    <3> HIDE DEF taken
    <3>3. [taken EXCEPT !.accepted = new, !.received = new] \in PipeType
      BY <1>2, <3>1, PassedType
    <3> QED  BY <3>2, <3>3
  <2>5. /\ t.queue = s.queue /\ t.reads = s.reads - 1 /\ t.closing = s.closing
        /\ t.finished = s.finished /\ t.terminal = s.terminal /\ t.failure = s.failure
        /\ t.closeRequested = s.closeRequested /\ t.cancelled = s.cancelled
        /\ t.dropped = s.dropped /\ t.received = new /\ t.accepted = new
        /\ t.resolved = s.resolved /\ t.writes = s.writes
    BY <1>1, <2>3 DEF PipeType
  <2>6. t.received \o t.queue = t.accepted
    <3>1. new \o <<>> = new
      BY <1>2, ConcatEmptySeq
    <3> QED  BY <2>1, <2>5, <3>1
  <2>7. Sound(t)
    <3>0. Alive(t) => Intact(t)
      BY <1>1, <1>2, <2>1, <2>4, <2>5, <2>6 DEF Sound, Alive, Started, Intact
    <3> QED  BY <1>1, <1>2, <2>1, <2>4, <2>5, <2>6, <3>0 DEF Sound
  <2>8. StateOf(t) = "open"
    BY <1>1, <2>5 DEF StateOf
  <2>9. Step(s, t)
    BY <1>1, <2>2, <2>5, <2>8 DEF Step, new
  <2> QED  BY <1>2, <2>1, <2>5, <2>7, <2>9
<1>5. CASE ~(s.reads > 0)
  <2>1. t = [s EXCEPT !.written = s.written + 1, !.queue = Append(s.queue, chunk), !.accepted = new]
    BY <1>1, <1>5 DEF Enqueue, PipeType
  <2>2. Append(s.queue, chunk) \in Seq(Chunk)
    BY <1>1 DEF PipeType
  <2>3. s.received \o Append(s.queue, chunk) = new
    <3>1. s.received \in Seq(Chunk) /\ s.queue \in Seq(Chunk)
      BY <1>1 DEF PipeType
    <3>2. s.received \o Append(s.queue, chunk) = Append(s.received \o s.queue, chunk)
      BY <3>1, Concat
    <3> QED  BY <1>3, <3>2
  <2> HIDE DEF new
  <2>4. t \in PipeType
    BY <1>1, <1>2, <2>1, <2>2 DEF PipeType
  <2>5. /\ t.queue = Append(s.queue, chunk) /\ t.reads = s.reads /\ t.closing = s.closing
        /\ t.finished = s.finished /\ t.terminal = s.terminal /\ t.failure = s.failure
        /\ t.closeRequested = s.closeRequested /\ t.cancelled = s.cancelled
        /\ t.dropped = s.dropped /\ t.received = s.received /\ t.accepted = new
        /\ t.resolved = s.resolved /\ t.writes = s.writes
    BY <1>1, <2>1 DEF PipeType
  <2>6. Sound(t)
    <3>0. Alive(t) => Intact(t)
      BY <1>1, <1>2, <1>5, <2>3, <2>4, <2>5 DEF Sound, Alive, Started, Intact
    <3> QED  BY <1>1, <1>2, <1>5, <2>3, <2>4, <2>5, <3>0 DEF Sound
  <2>7. StateOf(t) = "open"
    BY <1>1, <2>5 DEF StateOf
  <2>8. Step(s, t)
    BY <1>1, <2>5, <2>7 DEF Step, new
  <2> QED  BY <1>2, <2>2, <2>5, <2>6, <2>8
<1> QED  BY <1>4, <1>5

\* accept() on the write at the head, while the writing end has not failed.
LEMMA AcceptGood ==
    ASSUME signal \in Reason, NEW e \in Edge, NEW s, Sound(s), s.writes # <<>>,
           s.failure = None \/ ~s.terminal, NEW t, t = Accept(e, s)
    PROVE  Good(t) /\ Step(s, t)
<1> DEFINE refusal == Refusal(e, s)
           taken == Enqueue([s EXCEPT !.written = @ + 1], Head(s.writes).chunk)
           phase == IF Len(taken.queue) < Capacity THEN "accepted" ELSE "waiting"
<1>1. s \in PipeType /\ Head(s.writes).chunk \in Chunk
  <2>1. s \in PipeType
    BY DEF Sound
  <2>2. s.writes \in Seq(WriteType)
    BY <2>1 DEF PipeType, WriteType
  <2>3. Head(s.writes) \in WriteType
    BY <2>2
  <2> QED  BY <2>1, <2>3 DEF WriteType
<1>2. refusal \in Reason
  BY <1>1 DEF Refusal, PipeType, Reason, Failure
<1>3. CASE refusal # None
  <2> DEFINE u == Fail(s, refusal)
  <2>1. t = HeadAt(u, "failed", refusal)
    BY <1>3 DEF Accept
  <2>2. Good(u) /\ Step(s, u) /\ u.writes # <<>>
    BY <1>2, <1>3, FailGood
  <2> HIDE DEF u, refusal
  <2>3. Sound(t) /\ SameStream(u, t) /\ t.writes # <<>> /\ Head(t.writes).phase = "failed"
    BY <1>2, <2>1, <2>2, HeadSound DEF Good, Phase
  <2>4. Good(t)
    BY <2>3 DEF Good, Awake, Waiting
  <2>5. u \in PipeType /\ t \in PipeType
    BY <2>2, <2>3 DEF Good, Sound
  <2> QED  BY <2>2, <2>3, <2>4, <2>5, SameStep
<1>4. CASE refusal = None
  <2>1. s.cancelled = None
    BY <1>4, SharedPipeAssumption DEF Refusal
  <2>2. s.finished = "open" /\ ~s.closeRequested
    BY <1>1, <2>1 DEF Sound, PipeType
  <2>3. /\ Sound(taken) /\ Step(s, taken)
        /\ taken.writes = s.writes /\ taken.cancelled = s.cancelled /\ taken.finished = "open"
        /\ Head(s.writes).chunk \in Elements(taken.accepted) /\ Len(taken.queue) \in Nat
    BY <1>1, <2>2, EnqueueSound
  <2>4. t = HeadAt(taken, phase, None)
    BY <1>4 DEF Accept
  <2>5. phase \in {"accepted", "waiting"} /\ (phase = "waiting" => Len(taken.queue) >= Capacity)
    BY <2>3, PipeAssumption
  <2> HIDE DEF taken, phase, refusal
  <2>6. phase \in Phase /\ None \in Reason
    BY <2>5 DEF Phase, Reason
  <2>7. Sound(t) /\ SameStream(taken, t) /\ t.writes # <<>> /\ Head(t.writes).phase = phase
    BY <2>3, <2>4, <2>6, HeadSound
  <2>8. taken \in PipeType /\ t \in PipeType
    BY <2>3, <2>7 DEF Sound
  <2>9. t.queue = taken.queue /\ t.cancelled = None /\ t.finished = "open"
    BY <2>1, <2>3, <2>7, <2>8 DEF SameStream, PipeType
  <2>10. Awake(t)
    BY <2>5, <2>7, <2>9 DEF Awake, Waiting
  <2> QED  BY <2>3, <2>7, <2>8, <2>10, SameStep DEF Good
<1> QED  BY <1>3, <1>4

\* The reader takes the next chunk.
LEMMA DequeuedGood ==
    ASSUME NEW s, Good(s), s.queue # <<>>, NEW t, t = Dequeued(s)
    PROVE  Good(t) /\ Step(s, t)
<1> DEFINE u == [s EXCEPT !.queue = Tail(s.queue), !.received = Append(s.received, Head(s.queue))]
<1>1. /\ s \in PipeType /\ Sound(s) /\ s.finished = "open" /\ Alive(s) /\ StateOf(s) = "open"
      /\ s.reads = 0 /\ s.received \o s.queue = s.accepted
  BY DEF Good, Sound, Alive, StateOf, PipeType, Intact
<1>2. /\ s.received \in Seq(Chunk) /\ s.queue \in Seq(Chunk) /\ s.accepted \in Seq(Chunk)
  BY <1>1 DEF PipeType
<1>3. /\ Append(s.received, Head(s.queue)) \in Seq(Chunk) /\ Tail(s.queue) \in Seq(Chunk)
      /\ Append(s.received, Head(s.queue)) \o Tail(s.queue) = s.accepted
  BY <1>1, <1>2, MoveHead
<1>4. /\ Len(s.received) < Len(s.accepted)
      /\ Append(s.received, Head(s.queue)) = Append(s.received, s.accepted[Len(s.received) + 1])
  <2>1. Head(s.queue) \in Chunk
    BY <1>2
  <2> HIDE DEF u
  <2>2. /\ Len(s.received) < Len(s.received \o s.queue)
        /\ Head(s.queue) = (s.received \o s.queue)[Len(s.received) + 1]
    BY <1>2, <2>1, Concat
  <2> QED  BY <1>1, <2>2
<1>5. u \in PipeType
  BY <1>1, <1>3 DEF PipeType
<1>6. /\ u.queue = Tail(s.queue) /\ u.reads = 0 /\ u.closing = s.closing
      /\ u.finished = "open" /\ u.terminal = s.terminal /\ u.failure = s.failure
      /\ u.closeRequested = s.closeRequested /\ u.cancelled = s.cancelled
      /\ u.dropped = s.dropped /\ u.received = Append(s.received, Head(s.queue))
      /\ u.accepted = s.accepted /\ u.resolved = s.resolved /\ u.writes = s.writes
  BY <1>1 DEF PipeType
<1>7. Sound(u)
  <2>0. Alive(u) => Intact(u)
    BY <1>1, <1>3, <1>5, <1>6 DEF Sound, Alive, Started, Intact
  <2> QED  BY <1>1, <1>3, <1>5, <1>6, <2>0 DEF Sound
<1>8. t = IF s.closeRequested /\ u.queue = <<>> THEN FinishClosed(u) ELSE WakeWriters(u)
  BY DEF Dequeued
<1> HIDE DEF u
<1>9. CASE s.closeRequested /\ u.queue = <<>>
  <2>1. t = [u EXCEPT !.finished = "closed", !.reads = 0]
    BY <1>8, <1>9 DEF FinishClosed
  <2>2. t \in PipeType
    BY <1>5, <2>1, Nothing DEF PipeType
  <2>3. /\ t.queue = <<>> /\ t.reads = 0 /\ t.closing = u.closing
        /\ t.finished = "closed" /\ t.terminal = u.terminal /\ t.failure = u.failure
        /\ t.closeRequested = u.closeRequested /\ t.cancelled = u.cancelled
        /\ t.dropped = u.dropped /\ t.received = u.received
        /\ t.accepted = u.accepted /\ t.resolved = u.resolved /\ t.writes = u.writes
    BY <1>5, <1>9, <2>1 DEF PipeType
  <2>4. Sound(t) /\ ~Waiting(t)
    <3>1. u.writes = <<>> /\ u.closeRequested
      BY <1>6, <1>7, <1>9 DEF Sound
    <3>2. ~Waiting(t)
      BY <2>3, <3>1 DEF Waiting
    <3>3. Alive(t) => Intact(t)
      <4>1. ~Started(t)
        BY <2>3, <3>1 DEF Started
      <4>2. Alive(t) => Intact(u)
        BY <1>6, <1>7, <2>3 DEF Sound, Alive
      <4> QED  BY <1>9, <2>3, <4>1, <4>2 DEF Intact
    <3>4. t.writes = <<>> /\ Len(t.writes) = 0
      BY <2>3, <3>1
    <3> QED  BY <1>7, <2>2, <2>3, <3>1, <3>2, <3>3, <3>4 DEF Sound
  <2>5. t.received = t.accepted
    <3>1. u.received \in Seq(Chunk) /\ u.received \o <<>> = u.accepted
      BY <1>3, <1>6, <1>9
    <3> QED  BY <2>3, <3>1, ConcatEmptySeq
  <2>6. StateOf(t) = "ended"
    BY <1>1, <1>6, <2>3 DEF StateOf, Alive
  <2> QED  BY <1>1, <1>4, <1>6, <2>3, <2>4, <2>5, <2>6 DEF Step, Good, Awake
<1>10. CASE ~(s.closeRequested /\ u.queue = <<>>)
  <2>1. Good(t) /\ SameStream(u, t)
    BY <1>7, <1>8, <1>10, WakeGood
  <2>2. StateOf(u) = "open"
    BY <1>1, <1>6 DEF StateOf, Alive
  <2>3. Step(s, u)
    BY <1>1, <1>4, <1>6, <2>2 DEF Step
  <2>4. t \in PipeType
    BY <2>1 DEF Good, Sound
  <2> QED  BY <1>5, <2>1, <2>3, <2>4, SameStep
<1> QED  BY <1>9, <1>10

\* The writing end is done: the stream ends now or with the last chunk read.
LEMMA PipeCloseGood ==
    ASSUME NEW s, Sound(s), s.terminal, s.writes = <<>>, s.failure = None,
           NEW t, t = PipeClose(s)
    PROVE  Good(t) /\ Step(s, t)
<1> DEFINE off == [s EXCEPT !.listening = FALSE]
           asked == [off EXCEPT !.closeRequested = TRUE]
           u == IF s.cancelled # None \/ s.finished # "open" \/ s.closeRequested THEN off
                ELSE IF s.queue = <<>> THEN FinishClosed(asked) ELSE asked
<1>1. s \in PipeType
  BY DEF Sound
<1>2. t = WakeWriters(u)
  BY DEF PipeClose
<1>3. Sound(u) /\ Step(s, u)
  <2>1. CASE s.cancelled # None \/ s.finished # "open" \/ s.closeRequested
    <3>1. u = [s EXCEPT !.listening = FALSE]
      BY <2>1
    <3> HIDE DEF u
    <3>2. u \in PipeType
      BY <1>1, <3>1 DEF PipeType
    <3>3. /\ u.queue = s.queue /\ u.reads = s.reads /\ u.closing = s.closing
          /\ u.finished = s.finished /\ u.terminal = s.terminal /\ u.failure = s.failure
          /\ u.closeRequested = s.closeRequested /\ u.cancelled = s.cancelled
          /\ u.dropped = s.dropped /\ u.received = s.received /\ u.accepted = s.accepted
          /\ u.resolved = s.resolved /\ u.writes = s.writes
      BY <1>1, <3>1 DEF PipeType
    <3>4. Sound(u)
      <4>0. Alive(u) => Intact(u)
        BY <3>2, <3>3 DEF Sound, Alive, Started, Intact
      <4> QED  BY <3>2, <3>3, <4>0 DEF Sound
    <3>5. StateOf(u) = StateOf(s)
      BY <1>1, <3>3 DEF StateOf, PipeType
    <3> QED  BY <3>3, <3>4, <3>5 DEF Step
  <2>2. CASE ~(s.cancelled # None \/ s.finished # "open" \/ s.closeRequested) /\ s.queue = <<>>
    <3>1. u = [s EXCEPT !.listening = FALSE, !.closeRequested = TRUE, !.finished = "closed", !.reads = 0]
      BY <1>1, <2>2 DEF FinishClosed, PipeType
    <3> HIDE DEF u
    <3>2. u \in PipeType
      BY <1>1, <3>1, Nothing DEF PipeType
    <3>3. /\ u.queue = s.queue /\ u.reads = 0 /\ u.closing = s.closing
          /\ u.finished = "closed" /\ u.terminal = s.terminal /\ u.failure = s.failure
          /\ u.closeRequested /\ u.cancelled = s.cancelled
          /\ u.dropped = s.dropped /\ u.received = s.received /\ u.accepted = s.accepted
          /\ u.resolved = s.resolved /\ u.writes = s.writes
      BY <1>1, <3>1 DEF PipeType
    <3>4. s.received = s.accepted /\ ~s.dropped
      <4>1. s.received \o s.queue = s.accepted /\ s.received \in Seq(Chunk) /\ ~s.dropped
        BY <1>1, <2>2 DEF Sound, Alive, PipeType, Intact
      <4> QED  BY <2>2, <4>1, ConcatEmptySeq
    <3>5. Sound(u)
      <4>0. Alive(u) => Intact(u)
        BY <2>2, <3>2, <3>3, <3>4 DEF Sound, Alive, Started, Intact
      <4> QED  BY <2>2, <3>2, <3>3, <3>4, <4>0 DEF Sound
    <3>6. StateOf(s) = "open" /\ StateOf(u) = "ended"
      BY <2>2, <3>3, <3>4 DEF StateOf
    <3> QED  BY <3>3, <3>4, <3>5, <3>6 DEF Step
  <2>3. CASE ~(s.cancelled # None \/ s.finished # "open" \/ s.closeRequested) /\ s.queue # <<>>
    <3>1. u = [s EXCEPT !.listening = FALSE, !.closeRequested = TRUE]
      BY <1>1, <2>3 DEF PipeType
    <3> HIDE DEF u
    <3>2. u \in PipeType
      BY <1>1, <3>1 DEF PipeType
    <3>3. /\ u.queue = s.queue /\ u.reads = s.reads /\ u.closing = s.closing
          /\ u.finished = s.finished /\ u.terminal = s.terminal /\ u.failure = s.failure
          /\ u.closeRequested /\ u.cancelled = s.cancelled
          /\ u.dropped = s.dropped /\ u.received = s.received /\ u.accepted = s.accepted
          /\ u.resolved = s.resolved /\ u.writes = s.writes
      BY <1>1, <3>1 DEF PipeType
    <3>4. Sound(u)
      <4>0. Alive(u) => Intact(u)
        BY <3>2, <3>3 DEF Sound, Alive, Started, Intact
      <4> QED  BY <3>2, <3>3, <4>0 DEF Sound
    <3>5. StateOf(u) = StateOf(s)
      BY <1>1, <3>3 DEF StateOf, PipeType
    <3> QED  BY <3>3, <3>4, <3>5 DEF Step
  <2> QED  BY <2>1, <2>2, <2>3
<1> HIDE DEF u
<1>4. Good(t) /\ SameStream(u, t)
  BY <1>2, <1>3, WakeGood
<1>5. u \in PipeType /\ t \in PipeType
  BY <1>3, <1>4 DEF Good, Sound
<1> QED  BY <1>3, <1>4, <1>5, SameStep

\* A change of the descriptors, of the terminal flag or of who has to end it.
LEMMA HandlesGood ==
    ASSUME NEW s, Good(s), NEW held \in SUBSET Descriptor, NEW closing \in BOOLEAN,
           NEW terminal \in BOOLEAN, s.terminal => terminal, closing => terminal,
           NEW t, t = [s EXCEPT !.held = held, !.terminal = terminal, !.closing = closing]
    PROVE  Good(t) /\ Step(s, t)
<1>1. s \in PipeType /\ Sound(s) /\ Awake(s)
  BY DEF Good, Sound
<1>2. t \in PipeType
  BY <1>1 DEF PipeType
<1>3. /\ t.queue = s.queue /\ t.reads = s.reads /\ t.closing = closing
      /\ t.finished = s.finished /\ t.terminal = terminal /\ t.failure = s.failure
      /\ t.closeRequested = s.closeRequested /\ t.cancelled = s.cancelled
      /\ t.dropped = s.dropped /\ t.received = s.received /\ t.accepted = s.accepted
      /\ t.resolved = s.resolved /\ t.writes = s.writes
  BY <1>1 DEF PipeType
<1>4. Sound(t)
  <2>0. Alive(t) => Intact(t)
    BY <1>1, <1>2, <1>3 DEF Sound, Alive, Started, Intact
  <2> QED  BY <1>1, <1>2, <1>3, <2>0 DEF Sound
<1>5. Awake(t)
  BY <1>1, <1>3 DEF Awake, Waiting
<1>6. StateOf(t) = StateOf(s)
  BY <1>1, <1>3 DEF StateOf, PipeType
<1> QED  BY <1>3, <1>4, <1>5, <1>6 DEF Good, Step

LEMMA SinkCloseGood ==
    ASSUME NEW s, Good(s), NEW d, NEW t, t = SinkClose(s, d)
    PROVE  Good(t) /\ Step(s, t)
<1>1. s \in PipeType /\ Sound(s)
  BY DEF Good, Sound
<1>2. /\ s.held \ {d} \in SUBSET Descriptor /\ s.closing \in BOOLEAN /\ s.terminal \in BOOLEAN
      /\ (s.closing => s.terminal)
  BY <1>1 DEF PipeType, Sound
<1>3. CASE t = [s EXCEPT !.held = s.held \ {d}]
  <2>1. t = [s EXCEPT !.held = s.held \ {d}, !.terminal = s.terminal, !.closing = s.closing]
    BY <1>1, <1>3 DEF PipeType
  <2> QED  BY <1>2, <2>1, HandlesGood
<1>4. CASE t = [s EXCEPT !.held = s.held \ {d}, !.terminal = TRUE, !.closing = TRUE]
  BY <1>2, <1>4, HandlesGood
<1> QED  BY <1>1, <1>3, <1>4 DEF SinkClose, PipeType

\* A descriptor fails, and the stream with it.
LEMMA SinkAbortGood ==
    ASSUME NEW s, Good(s), NEW d, NEW reason \in Reason \ {None}, NEW t, t = SinkAbort(s, d, reason)
    PROVE  Good(t) /\ Step(s, t)
<1>1. s \in PipeType /\ Sound(s) /\ s.held \ {d} \in SUBSET Descriptor
  BY DEF Good, Sound, PipeType
<1>2. CASE d \notin s.held \/ s.terminal
  <2>1. t = [s EXCEPT !.held = s.held \ {d}, !.terminal = s.terminal, !.closing = s.closing]
    BY <1>1, <1>2 DEF SinkAbort, PipeType
  <2>2. s.closing \in BOOLEAN /\ s.terminal \in BOOLEAN /\ (s.closing => s.terminal)
    BY <1>1 DEF PipeType, Sound
  <2> QED  BY <1>1, <2>1, <2>2, HandlesGood
<1>3. CASE ~(d \notin s.held \/ s.terminal)
  <2> DEFINE why == IF s.failure = None THEN reason ELSE s.failure
             off == [s EXCEPT !.held = s.held \ {d}, !.terminal = TRUE, !.failure = why,
                              !.listening = FALSE]
             u == IF s.cancelled = None THEN ErrorStream(off, reason) ELSE off
  <2>1. t = WakeWriters(u)
    BY <1>1, <1>3 DEF SinkAbort, PipeAbort, PipeType
  <2>2. why \in Reason /\ why # None
    BY <1>1 DEF PipeType
  <2> HIDE DEF why
  <2>3. /\ off \in PipeType
        /\ off.queue = s.queue /\ off.reads = s.reads /\ off.closing = s.closing
        /\ off.finished = s.finished /\ off.terminal /\ off.failure = why
        /\ off.closeRequested = s.closeRequested /\ off.cancelled = s.cancelled
        /\ off.dropped = s.dropped /\ off.received = s.received /\ off.accepted = s.accepted
        /\ off.resolved = s.resolved /\ off.writes = s.writes
    BY <1>1, <2>2 DEF PipeType
  <2>4. ~s.closeRequested
    BY <1>1, <1>3 DEF Sound
  <2>5. Sound(off)
    BY <1>1, <2>2, <2>3, <2>4 DEF Sound, Alive, Started, Intact
  <2>6. StateOf(off) = StateOf(s)
    BY <1>1, <2>3 DEF StateOf, PipeType
  <2>7. Step(s, off)
    BY <2>3, <2>6 DEF Step
  <2> HIDE DEF off
  <2>8. Sound(u) /\ Step(s, u)
    <3>1. CASE u = off
      BY <2>5, <2>7, <3>1
    <3>2. CASE s.cancelled = None /\ off.finished = "open"
      <4>1. u = [off EXCEPT !.finished = "errored", !.error = reason, !.queue = <<>>, !.reads = 0]
        BY <3>2 DEF ErrorStream
      <4> HIDE DEF u
      <4>2. u \in PipeType
        BY <2>3, <4>1, Nothing DEF PipeType
      <4>3. /\ u.queue = <<>> /\ u.reads = 0 /\ u.closing = off.closing
            /\ u.finished = "errored" /\ u.terminal /\ u.failure = why
            /\ u.closeRequested = off.closeRequested /\ u.cancelled = off.cancelled
            /\ u.dropped = off.dropped /\ u.received = off.received /\ u.accepted = off.accepted
            /\ u.resolved = off.resolved /\ u.writes = off.writes
        BY <2>3, <4>1 DEF PipeType
      <4>4. Sound(u)
        <5>0. Alive(u) => Intact(u)
          BY <2>2, <2>3, <2>4, <2>5, <3>2, <4>2, <4>3 DEF Sound, Alive, Started, Intact
        <5> QED  BY <2>2, <2>3, <2>4, <2>5, <3>2, <4>2, <4>3, <5>0 DEF Sound
      <4>5. StateOf(s) = "open" /\ StateOf(u) = "failed"
        BY <2>3, <2>5, <3>2, <4>3 DEF StateOf, Sound
      <4> QED  BY <2>3, <4>3, <4>4, <4>5 DEF Step
    <3> QED  BY <3>1, <3>2 DEF ErrorStream
  <2> HIDE DEF u
  <2>9. Good(t) /\ SameStream(u, t)
    BY <2>1, <2>8, WakeGood
  <2>10. u \in PipeType /\ t \in PipeType
    BY <2>8, <2>9 DEF Good, Sound
  <2> QED  BY <2>8, <2>9, <2>10, SameStep
<1> QED  BY <1>2, <1>3
\* What a step may not touch but in its queue of writes, or its reads.
LEMMA WritesChanged ==
    ASSUME NEW s, s \in PipeType, NEW writes \in Seq(WriteType), NEW t,
           t = [s EXCEPT !.writes = writes]
    PROVE  /\ t \in PipeType /\ SameStream(s, t) /\ t.writes = writes
           /\ t.queue = s.queue /\ t.reads = s.reads /\ t.closing = s.closing
           /\ t.finished = s.finished /\ t.terminal = s.terminal /\ t.failure = s.failure
           /\ t.closeRequested = s.closeRequested /\ t.cancelled = s.cancelled
           /\ t.dropped = s.dropped /\ t.received = s.received /\ t.accepted = s.accepted
           /\ t.resolved = s.resolved
  BY DEF PipeType, WriteType, SameStream

\* A write that is called comes last.
LEMMA CalledGood ==
    ASSUME NEW s, Good(s), ~s.terminal, NEW chunk \in Chunk, NEW d \in Descriptor,
           NEW t, t = [s EXCEPT !.writes = Append(s.writes,
               [chunk |-> chunk, by |-> d, phase |-> "queued", error |-> None])]
    PROVE  Good(t) /\ SameStream(s, t) /\ t.writes # <<>> /\ t.terminal = s.terminal
<1> DEFINE w == [chunk |-> chunk, by |-> d, phase |-> "queued", error |-> None]
           writes == Append(s.writes, w)
<1>1. s \in PipeType /\ Sound(s) /\ Awake(s) /\ s.writes \in Seq(WriteType)
  BY DEF Good, Sound, PipeType, WriteType
<1>2. w \in WriteType /\ w.phase = "queued"
  BY DEF WriteType, Phase, Reason
<1> HIDE DEF w
<1>3. /\ writes \in Seq(WriteType) /\ writes # <<>> /\ Len(writes) = Len(s.writes) + 1
      /\ \A i \in 1 .. Len(s.writes) : writes[i] = s.writes[i]
      /\ writes[Len(s.writes) + 1] = w
  BY <1>1, <1>2
<1>4. \A i \in 2 .. Len(writes) : writes[i].phase = "queued"
  BY <1>1, <1>2, <1>3 DEF Sound
<1>5. Head(writes) = IF s.writes = <<>> THEN w ELSE Head(s.writes)
  BY <1>1, <1>3
<1>6. t = [s EXCEPT !.writes = writes]
  BY DEF w
<1> HIDE DEF writes
<1>7. /\ t \in PipeType /\ SameStream(s, t) /\ t.writes = writes
      /\ t.queue = s.queue /\ t.reads = s.reads /\ t.closing = s.closing
      /\ t.finished = s.finished /\ t.terminal = s.terminal /\ t.failure = s.failure
      /\ t.closeRequested = s.closeRequested /\ t.cancelled = s.cancelled
      /\ t.dropped = s.dropped /\ t.received = s.received /\ t.accepted = s.accepted
      /\ t.resolved = s.resolved
  BY <1>1, <1>3, <1>6, WritesChanged
<1>8. Started(t) => Started(s) /\ Head(t.writes) = Head(s.writes)
  BY <1>2, <1>5, <1>7 DEF Started
<1>9. Alive(t) => Alive(s)
  BY <1>7 DEF Alive
<1>10. ~s.closeRequested
  BY <1>1 DEF Sound
<1>11. Sound(t)
  BY <1>1, <1>4, <1>7, <1>8, <1>9, <1>10 DEF Sound, Intact
<1>12. Awake(t)
  BY <1>1, <1>2, <1>5, <1>7 DEF Awake, Waiting
<1> QED  BY <1>3, <1>7, <1>11, <1>12 DEF Good

\* The promise of a write settles and the next one has not started.
LEMMA SettledGood ==
    ASSUME NEW s, Good(s), s.writes # <<>>, Head(s.writes).phase \in {"accepted", "failed"},
           NEW resolved \in SUBSET Chunk, NEW failure \in Reason,
           resolved = s.resolved \/ (Head(s.writes).phase = "accepted"
                                     /\ resolved = s.resolved \cup {Head(s.writes).chunk}),
           s.failure # None => failure = s.failure,
           NEW t, t = [s EXCEPT !.writes = Tail(s.writes), !.resolved = resolved, !.failure = failure]
    PROVE  Good(t) /\ Step(s, t)
<1> DEFINE writes == Tail(s.writes)
<1>1. s \in PipeType /\ Sound(s) /\ s.writes \in Seq(WriteType)
  BY DEF Good, Sound, PipeType, WriteType
<1>2. /\ writes \in Seq(WriteType) /\ Len(writes) = Len(s.writes) - 1
      /\ \A i \in 1 .. Len(writes) : writes[i] = s.writes[i + 1]
  BY <1>1
<1>3. \A i \in 1 .. Len(writes) : writes[i].phase = "queued"
  <2> SUFFICES ASSUME NEW i \in 1 .. Len(writes)
               PROVE  writes[i].phase = "queued"
    OBVIOUS
  <2>1. Len(s.writes) \in Nat
    BY <1>1
  <2> HIDE DEF writes
  <2>2. i + 1 \in 2 .. Len(s.writes)
    BY <1>2, <2>1
  <2> QED  BY <1>1, <1>2, <2>2 DEF Sound
<1>4. writes # <<>> => Head(writes).phase = "queued"
  <2> HIDE DEF writes
  <2>1. writes # <<>> => Head(writes) = writes[1] /\ 1 \in 1 .. Len(writes)
    BY <1>2
  <2> QED  BY <1>3, <2>1
<1>5. t = [s EXCEPT !.writes = writes, !.resolved = resolved, !.failure = failure]
  OBVIOUS
<1> HIDE DEF writes
<1>6. t \in PipeType
  <2> DEFINE shorter == [s EXCEPT !.writes = writes]
  <2>1. shorter \in PipeType
    BY <1>1, <1>2 DEF PipeType, WriteType
  <2>2. t = [shorter EXCEPT !.resolved = resolved, !.failure = failure]
    BY <1>1, <1>5 DEF PipeType
  <2> HIDE DEF shorter
  <2>3. [shorter EXCEPT !.resolved = resolved, !.failure = failure] \in PipeType
    BY <2>1, OutcomeType
  <2> QED  BY <2>2, <2>3
<1>7. /\ t.queue = s.queue /\ t.reads = s.reads /\ t.closing = s.closing
      /\ t.finished = s.finished /\ t.terminal = s.terminal /\ t.failure = failure
      /\ t.closeRequested = s.closeRequested /\ t.cancelled = s.cancelled
      /\ t.dropped = s.dropped /\ t.received = s.received /\ t.accepted = s.accepted
      /\ t.resolved = resolved /\ t.writes = writes
  BY <1>1, <1>5 DEF PipeType
<1>8. ~Started(t) /\ ~Waiting(t)
  BY <1>4, <1>7 DEF Started, Waiting
<1>9. \A i \in 2 .. Len(t.writes) : t.writes[i].phase = "queued"
  <2>1. Len(writes) \in Nat
    BY <1>2
  <2> QED  BY <1>3, <1>7, <2>1
<1>10. Alive(t) => t.resolved \subseteq Elements(t.accepted)
  BY <1>1, <1>7 DEF Sound, Alive, Started, Intact
<1>11. ~s.closeRequested
  BY <1>1 DEF Sound
<1>12. Alive(t) => Alive(s)
  BY <1>7 DEF Alive
<1>13. Sound(t)
  <2>1. Alive(t) => Intact(t)
    BY <1>1, <1>7, <1>8, <1>10, <1>12 DEF Sound, Intact
  <2> QED  BY <1>1, <1>6, <1>7, <1>9, <1>11, <2>1 DEF Sound
<1>14. StateOf(t) = StateOf(s)
  BY <1>1, <1>7 DEF StateOf, PipeType
<1> QED  BY <1>7, <1>8, <1>13, <1>14 DEF Good, Awake, Step

\* A read that waits, or lets go.
LEMMA ReadsGood ==
    ASSUME NEW s, Good(s), NEW reads \in 0 .. MaxReads,
           reads > 0 => s.queue = <<>> /\ s.finished = "open",
           NEW t, t = [s EXCEPT !.reads = reads]
    PROVE  Good(t) /\ Step(s, t)
<1>1. s \in PipeType /\ Sound(s) /\ Awake(s)
  BY DEF Good, Sound
<1>2. t \in PipeType
  BY <1>1 DEF PipeType
<1>3. /\ t.queue = s.queue /\ t.reads = reads /\ t.closing = s.closing
      /\ t.finished = s.finished /\ t.terminal = s.terminal /\ t.failure = s.failure
      /\ t.closeRequested = s.closeRequested /\ t.cancelled = s.cancelled
      /\ t.dropped = s.dropped /\ t.received = s.received /\ t.accepted = s.accepted
      /\ t.resolved = s.resolved /\ t.writes = s.writes
  BY <1>1 DEF PipeType
<1>4. Sound(t)
  <2>1. t.finished # "open" => reads = 0
    BY <1>3
  <2>2. Alive(t) => Intact(t)
    BY <1>1, <1>3 DEF Sound, Alive, Intact, Started
  <2> QED  BY <1>1, <1>2, <1>3, <2>1, <2>2 DEF Sound
<1>5. Awake(t)
  BY <1>1, <1>3 DEF Awake, Waiting
<1>6. StateOf(t) = StateOf(s)
  BY <1>1, <1>3 DEF StateOf, PipeType
<1> QED  BY <1>3, <1>4, <1>5, <1>6 DEF Good, Step
-----------------------------------------------------------------------------
(* The actions. *)

\* Every pipe stays good, and takes a step of the contract or none.
Moves ==
    /\ pipe' \in [Edge -> PipeType]
    /\ \A e \in Edge : Good(pipe'[e]) /\ Step(pipe[e], pipe'[e])

\* An action on one pipe leaves the others alone.
LEMMA OneMoves ==
    ASSUME PipesGood, NEW e \in Edge, NEW t, Good(t), Step(pipe[e], t), Set(e, t)
    PROVE  Moves
<1>1. t \in PipeType
  BY DEF Good, Sound
<1>2. pipe' = [pipe EXCEPT ![e] = t] /\ pipe \in [Edge -> PipeType]
  BY DEF Set, PipesGood
<1>3. pipe' \in [Edge -> PipeType]
  BY <1>1, <1>2
<1>4. ASSUME NEW f \in Edge
      PROVE  Good(pipe'[f]) /\ Step(pipe[f], pipe'[f])
  <2>1. CASE f = e
    BY <1>2, <2>1
  <2>2. CASE f # e
    <3>1. pipe'[f] = pipe[f]
      BY <1>2, <2>2
    <3>2. Step(pipe[f], pipe[f])
      BY DEF Step
    <3> QED  BY <3>1, <3>2 DEF PipesGood
  <2> QED  BY <2>1, <2>2
<1> QED  BY <1>3, <1>4 DEF Moves

LEMMA WriteMoves ==
    ASSUME PipesGood, NEW e \in Edge, NEW d \in Descriptor, NEW chunk \in Chunk, Write(e, d, chunk)
    PROVE  Moves
<1> DEFINE s == pipe[e]
           called == [s EXCEPT !.writes = Append(s.writes,
               [chunk |-> chunk, by |-> d, phase |-> "queued", error |-> None])]
           idle == s.writes = <<>> /\ s.failure = None
           t == IF idle THEN Accept(e, called) ELSE called
<1>1. Good(s) /\ s \in PipeType /\ ~s.terminal /\ signal \in Reason
  BY DEF PipesGood, Write, CanWrite
<1>2. Set(e, t)
  BY DEF Write
<1> HIDE DEF s, t, idle
<1>3. /\ Good(called) /\ SameStream(s, called) /\ called.writes # <<>>
      /\ called.terminal = s.terminal
  BY <1>1, CalledGood, ZenonT(30)
<1>4. called \in PipeType /\ Sound(called) /\ ~called.terminal
  BY <1>1, <1>3 DEF Good, Sound
<1> HIDE DEF called
<1> USE DEF t, idle
<1>5. CASE idle
  <2>1. Good(t) /\ Step(called, t)
    BY <1>1, <1>3, <1>4, <1>5, AcceptGood
  <2>2. t \in PipeType
    BY <2>1 DEF Good, Sound
  <2>3. Step(s, t)
    <3>1. called.accepted = s.accepted /\ called.received = s.received /\ StateOf(called) = StateOf(s)
      BY <1>1, <1>3, <1>4 DEF SameStream, StateOf, PipeType
    <3> QED  BY <2>1, <3>1 DEF Step
  <2> HIDE DEF t
  <2> QED  BY <1>2, <2>1, <2>3, OneMoves DEF s
<1>6. CASE ~idle
  <2>1. t = called
    BY <1>6
  <2>2. Step(s, called)
    BY <1>1, <1>3, <1>4, SameStep
  <2> HIDE DEF t
  <2> QED  BY <1>2, <1>3, <2>1, <2>2, OneMoves DEF s
<1> QED  BY <1>5, <1>6

LEMMA StartWriteMoves ==
    ASSUME PipesGood, NEW e \in Edge, StartWrite(e)
    PROVE  Moves
<1> DEFINE s == pipe[e]
           t == IF s.failure # None THEN HeadAt(s, "failed", s.failure) ELSE Accept(e, s)
<1>1. Good(s) /\ Sound(s) /\ s \in PipeType /\ s.writes # <<>> /\ signal \in Reason
  BY DEF PipesGood, StartWrite, Good
<1>2. Set(e, t)
  BY DEF StartWrite
<1> HIDE DEF s
<1>3. Good(t) /\ Step(s, t)
  <2>1. CASE s.failure # None
    <3>1. t = HeadAt(s, "failed", s.failure) /\ s.failure \in Reason /\ "failed" \in Phase
      BY <1>1, <2>1 DEF PipeType, Phase
    <3> HIDE DEF t
    <3>2. Sound(t) /\ SameStream(s, t) /\ t.writes # <<>> /\ Head(t.writes).phase = "failed"
      BY <1>1, <3>1, HeadSound
    <3>3. Awake(t) /\ t \in PipeType
      BY <3>2 DEF Awake, Waiting, Sound
    <3> QED  BY <1>1, <3>2, <3>3, SameStep DEF Good
  <2>2. CASE s.failure = None
    BY <1>1, <2>2, AcceptGood
  <2> QED  BY <2>1, <2>2
<1> HIDE DEF t
<1> QED  BY <1>2, <1>3, OneMoves DEF s

LEMMA ResumeWriteMoves ==
    ASSUME PipesGood, NEW e \in Edge, ResumeWrite(e)
    PROVE  Moves
<1> DEFINE s == pipe[e]
           error == IF signal # None THEN signal
                    ELSE IF s.cancelled # None THEN s.cancelled
                    ELSE IF s.finished = "errored" THEN s.error
                    ELSE None
           u == Fail(s, error)
           t == IF error = None THEN HeadAt(s, "accepted", None) ELSE HeadAt(u, "failed", error)
<1>1. /\ Good(s) /\ Sound(s) /\ s \in PipeType /\ s.writes # <<>> /\ signal \in Reason
      /\ Head(s.writes).phase = "woken"
  BY DEF PipesGood, ResumeWrite, Good
<1>2. Set(e, t)
  BY DEF ResumeWrite
<1> HIDE DEF s
<1>3. error \in Reason
  BY <1>1 DEF PipeType
<1> HIDE DEF error
<1>4. Good(t) /\ Step(s, t)
  <2>1. CASE error = None
    <3>1. t = HeadAt(s, "accepted", None) /\ None \in Reason /\ "accepted" \in Phase
      BY <2>1 DEF Reason, Phase
    <3>2. Alive(s) => Head(s.writes).chunk \in Elements(s.accepted)
      BY <1>1 DEF Sound, Started, Intact
    <3> HIDE DEF t
    <3>3. Sound(t) /\ SameStream(s, t) /\ t.writes # <<>> /\ Head(t.writes).phase = "accepted"
      BY <1>1, <3>1, <3>2, HeadSound
    <3>4. Awake(t) /\ t \in PipeType
      BY <3>3 DEF Awake, Waiting, Sound
    <3> QED  BY <1>1, <3>3, <3>4, SameStep DEF Good
  <2>2. CASE error # None
    <3>1. t = HeadAt(u, "failed", error) /\ "failed" \in Phase
      BY <2>2 DEF Phase
    <3>2. Good(u) /\ Step(s, u) /\ u.writes # <<>>
      BY <1>1, <1>3, <2>2, FailGood
    <3> HIDE DEF t, u
    <3>3. Sound(t) /\ SameStream(u, t) /\ t.writes # <<>> /\ Head(t.writes).phase = "failed"
      BY <1>3, <3>1, <3>2, HeadSound DEF Good
    <3>4. Awake(t) /\ t \in PipeType /\ u \in PipeType
      BY <3>2, <3>3 DEF Awake, Waiting, Sound, Good
    <3> QED  BY <3>2, <3>3, <3>4, SameStep DEF Good
  <2> QED  BY <2>1, <2>2
<1> HIDE DEF t
<1> QED  BY <1>2, <1>4, OneMoves DEF s

LEMMA SettleWriteMoves ==
    ASSUME PipesGood, NEW e \in Edge, SettleWrite(e)
    PROVE  Moves
<1> DEFINE s == pipe[e]
           done == Head(s.writes)
           ok == done.phase = "accepted"
           resolved == IF ok THEN s.resolved \cup {done.chunk} ELSE s.resolved
           failure == IF ~ok /\ s.failure = None THEN done.error ELSE s.failure
           t == [s EXCEPT !.writes = Tail(s.writes), !.resolved = resolved, !.failure = failure]
<1>1. /\ Good(s) /\ s \in PipeType /\ s.writes # <<>> /\ done.phase \in {"accepted", "failed"}
  BY DEF PipesGood, SettleWrite
<1>2. Set(e, t)
  BY <1>1 DEF SettleWrite, PipeType
<1> HIDE DEF s
<1>3. resolved \in SUBSET Chunk /\ failure \in Reason
  <2>1. s.writes \in Seq(WriteType)
    BY <1>1 DEF PipeType, WriteType
  <2>2. done \in WriteType
    BY <1>1, <2>1
  <2> QED  BY <1>1, <2>2 DEF PipeType, WriteType
<1>4. Good(t) /\ Step(s, t)
  BY <1>1, <1>3, SettledGood
<1> HIDE DEF t
<1> QED  BY <1>2, <1>4, OneMoves DEF s
LEMMA CloneMoves ==
    ASSUME PipesGood, NEW e \in Edge, NEW d \in Descriptor, NEW new \in Descriptor, Clone(e, d, new)
    PROVE  Moves
<1> DEFINE s == pipe[e]
           t == [s EXCEPT !.held = s.held \cup {new}]
<1>1. Good(s) /\ s \in PipeType /\ (s.closing => s.terminal)
  BY DEF PipesGood, Good, Sound
<1>2. Set(e, t)
  BY DEF Clone
<1> HIDE DEF s
<1>3. t = [s EXCEPT !.held = s.held \cup {new}, !.terminal = s.terminal, !.closing = s.closing]
  BY <1>1 DEF PipeType
<1>4. s.held \cup {new} \in SUBSET Descriptor /\ s.terminal \in BOOLEAN /\ s.closing \in BOOLEAN
  BY <1>1 DEF PipeType
<1> HIDE DEF t
<1>5. Good(t) /\ Step(s, t)
  BY <1>1, <1>3, <1>4, HandlesGood
<1> QED  BY <1>2, <1>5, OneMoves DEF s

LEMMA FinishCloseMoves ==
    ASSUME PipesGood, NEW e \in Edge, FinishClose(e)
    PROVE  Moves
<1> DEFINE s == pipe[e]
           done == [s EXCEPT !.closing = FALSE]
           t == IF s.failure # None THEN done ELSE PipeClose(done)
<1>1. Good(s) /\ s \in PipeType /\ s.closing /\ s.terminal /\ s.writes = <<>>
  BY DEF PipesGood, Good, Sound, FinishClose
<1>2. Set(e, t)
  BY DEF FinishClose
<1> HIDE DEF s
<1>3. done = [s EXCEPT !.held = s.held, !.terminal = s.terminal, !.closing = FALSE]
  BY <1>1 DEF PipeType
<1>4. s.held \in SUBSET Descriptor /\ s.terminal \in BOOLEAN
  BY <1>1 DEF PipeType
<1>5. /\ done.terminal /\ done.writes = <<>> /\ done.failure = s.failure
      /\ done.accepted = s.accepted /\ done.received = s.received
      /\ done.finished = s.finished /\ done.dropped = s.dropped
  BY <1>1 DEF PipeType
<1> HIDE DEF done
<1>6. Good(done) /\ Step(s, done) /\ StateOf(done) = StateOf(s)
  <2>1. Good(done) /\ Step(s, done)
    BY <1>1, <1>3, <1>4, HandlesGood
  <2>2. StateOf(done) = StateOf(s)
    BY <1>1, <1>5 DEF StateOf, PipeType
  <2> QED  BY <2>1, <2>2
<1>7. Good(t) /\ Step(s, t)
  <2>1. CASE s.failure # None
    BY <1>6, <2>1
  <2>2. CASE s.failure = None
    <3>1. t = PipeClose(done)
      BY <2>2
    <3> HIDE DEF t
    <3>2. Good(t) /\ Step(done, t)
      BY <1>5, <1>6, <2>2, <3>1, PipeCloseGood DEF Good
    <3> QED  BY <1>5, <1>6, <3>2 DEF Step
  <2> QED  BY <2>1, <2>2
<1> HIDE DEF t
<1> QED  BY <1>2, <1>7, OneMoves DEF s

LEMMA HandleMoves ==
    ASSUME PipesGood, NEW e \in Edge, NEW d \in Descriptor, Handle(e, d)
    PROVE  Moves
<1>1. ASSUME NEW new \in Descriptor, Clone(e, d, new)
      PROVE  Moves
  BY <1>1, CloneMoves
<1>2. CASE Close(e, d)
  <2>1. Good(SinkClose(pipe[e], d)) /\ Step(pipe[e], SinkClose(pipe[e], d))
    BY SinkCloseGood DEF PipesGood
  <2> QED  BY <1>2, <2>1, OneMoves DEF Close
<1>3. CASE Abort(e, d, "BUG")
  <2>1. "BUG" \in Reason \ {None}
    BY SharedPipeAssumption DEF Reason, Failure
  <2>2. Good(SinkAbort(pipe[e], d, "BUG")) /\ Step(pipe[e], SinkAbort(pipe[e], d, "BUG"))
    BY <2>1, SinkAbortGood DEF PipesGood
  <2> QED  BY <1>3, <2>2, OneMoves DEF Abort
<1> QED  BY <1>1, <1>2, <1>3 DEF Handle

LEMMA ReaderMoves ==
    ASSUME PipesGood, NEW e \in Edge, Reader(e)
    PROVE  Moves
<1>1. Good(pipe[e]) /\ pipe[e] \in PipeType
  BY DEF PipesGood
<1>2. CASE Read(e)
  <2>1. CASE pipe[e].queue # <<>>
    <3>1. Good(Dequeued(pipe[e])) /\ Step(pipe[e], Dequeued(pipe[e]))
      BY <1>1, <2>1, DequeuedGood
    <3> QED  BY <1>2, <2>1, <3>1, OneMoves DEF Read
  <2>2. CASE pipe[e].queue = <<>>
    <3> DEFINE t == [pipe[e] EXCEPT !.reads = pipe[e].reads + 1]
    <3>1. Set(e, t) /\ pipe[e].finished = "open" /\ pipe[e].reads < MaxReads
      BY <1>2, <2>2 DEF Read
    <3>2. pipe[e].reads + 1 \in 0 .. MaxReads
      <4>1. pipe[e].reads \in 0 .. MaxReads
        BY <1>1 DEF PipeType
      <4> HIDE DEF t
      <4> QED  BY <3>1, <4>1, PipeAssumption
    <3>3. Good(t) /\ Step(pipe[e], t)
      BY <1>1, <2>2, <3>1, <3>2, ReadsGood
    <3> HIDE DEF t
    <3> QED  BY <3>1, <3>3, OneMoves
  <2> QED  BY <2>1, <2>2
<1>3. CASE Release(e)
  <2> DEFINE t == [pipe[e] EXCEPT !.reads = 0]
  <2>1. Good(t) /\ Step(pipe[e], t)
    BY <1>1, Nothing, ReadsGood
  <2>2. Set(e, t)
    BY <1>3 DEF Release
  <2> HIDE DEF t
  <2> QED  BY <2>1, <2>2, OneMoves
<1>4. CASE Cancel(e)
  <2> DEFINE reason == IF e \in Root THEN "ECANCELED" ELSE "DOWNSTREAM"
             t == ConsumerCancel(pipe[e], reason)
  <2>1. reason \in Reason \ {None} /\ Set(e, t)
    BY <1>4, SharedPipeAssumption DEF Reason, Failure, Cancel
  <2> HIDE DEF reason
  <2>2. Good(t) /\ Step(pipe[e], t)
    BY <1>1, <2>1, CancelGood
  <2> HIDE DEF t
  <2> QED  BY <2>1, <2>2, OneMoves
<1> QED  BY <1>2, <1>3, <1>4 DEF Reader

\* An abort reaches every pipe before it returns.
LEMMA AbortMoves ==
    ASSUME PipesGood, NEW reason \in Reason \ {None}, AbortAll(reason)
    PROVE  Moves
<1>1. pipe' = [e \in Edge |-> AbortFromSignal(pipe[e], reason)]
  BY DEF AbortAll
<1>2. ASSUME NEW e \in Edge
      PROVE  Good(pipe'[e]) /\ Step(pipe[e], pipe'[e]) /\ pipe'[e] \in PipeType
  <2>1. Good(pipe'[e]) /\ Step(pipe[e], pipe'[e])
    BY <1>1, SignalGood DEF PipesGood
  <2> QED  BY <2>1 DEF Good, Sound
<1>3. pipe' \in [Edge -> PipeType]
  BY <1>1, <1>2
<1> QED  BY <1>2, <1>3 DEF Moves

\* The signal, the budget and the ghost of what was offered keep their types.
Others ==
    /\ signal \in Reason /\ spent \in Nat
    /\ unbilled \in BOOLEAN /\ cancelling \in BOOLEAN
    /\ offered \subseteq Chunk

LEMMA OthersKept ==
    ASSUME IInv, [Next]_vars
    PROVE  Others'
<1>1. /\ signal \in Reason /\ spent \in Nat
      /\ unbilled \in BOOLEAN /\ cancelling \in BOOLEAN /\ offered \subseteq Chunk
  BY DEF IInv, PipesGood
<1>2. ASSUME NEW e \in Edge, NEW s
      PROVE  Charge(e, s) \in Nat
  BY <1>1 DEF Charge
<1>3. ASSUME NEW e \in Edge, NEW d \in Descriptor, NEW chunk \in Chunk, Offer(e, d, chunk)
      PROVE  Others'
  BY <1>1, <1>2, <1>3 DEF Offer, Write, Others
<1>4. ASSUME NEW e \in Edge, Microtask(e), UNCHANGED offered
      PROVE  Others'
  <2>1. CASE StartWrite(e)
    BY <1>1, <1>2, <1>4, <2>1 DEF StartWrite, Others
  <2>2. CASE ResumeWrite(e) \/ SettleWrite(e) \/ FinishClose(e)
    BY <1>1, <1>4, <2>2 DEF ResumeWrite, SettleWrite, FinishClose, Quiet, Others
  <2> QED  BY <1>4, <2>1, <2>2 DEF Microtask
<1>5. ASSUME NEW e \in Edge, Reader(e), UNCHANGED offered
      PROVE  Others'
  <2>1. CASE Read(e) \/ Release(e)
    BY <1>1, <1>5, <2>1 DEF Read, Release, Quiet, Others
  <2>2. CASE Cancel(e)
    BY <1>1, <1>5, <2>2 DEF Cancel, Others
  <2> QED  BY <1>5, <2>1, <2>2 DEF Reader
<1>6. ASSUME NEW e \in Edge, NEW d \in Descriptor, Handle(e, d), UNCHANGED offered
      PROVE  Others'
  BY <1>1, <1>6 DEF Handle, Clone, Close, Abort, Quiet, Others
<1>7. {"ECANCELED", "ETIMEDOUT"} \subseteq Reason
  BY DEF Reason, Failure
<1>8. ASSUME NEW e \in Edge, IdleTimeout(e), UNCHANGED offered
      PROVE  Others'
  BY <1>1, <1>7, <1>8 DEF IdleTimeout, AbortExecution, AbortAll, Others
<1>9. CASE DeliverCancel /\ UNCHANGED offered
  BY <1>1, <1>7, <1>9 DEF DeliverCancel, AbortAll, Others
<1>10. CASE AbortExecution("ECANCELED") /\ UNCHANGED offered
  BY <1>1, <1>7, <1>10 DEF AbortExecution, AbortAll, Others
<1>11. CASE UNCHANGED vars
  BY <1>1, <1>11 DEF vars, pipeVars, Others
<1> QED  BY <1>3, <1>4, <1>5, <1>6, <1>8, <1>9, <1>10, <1>11 DEF Next

\* Whatever happens, the pipes move as the contract says and stay good.
LEMMA NextMoves ==
    ASSUME IInv, [Next]_vars
    PROVE  Moves
<1>0. PipesGood
  BY DEF IInv
<1>1. ASSUME NEW e \in Edge, NEW d \in Descriptor, NEW chunk \in Chunk, Offer(e, d, chunk)
      PROVE  Moves
  BY <1>0, <1>1, WriteMoves DEF Offer
<1>2. ASSUME NEW e \in Edge, Microtask(e)
      PROVE  Moves
  BY <1>0, <1>2, StartWriteMoves, ResumeWriteMoves, SettleWriteMoves, FinishCloseMoves DEF Microtask
<1>3. {"ECANCELED", "ETIMEDOUT"} \subseteq Reason \ {None}
  BY SharedPipeAssumption DEF Reason, Failure
<1>4. ASSUME UNCHANGED pipe
      PROVE  Moves
  <2>1. \A e \in Edge : Step(pipe[e], pipe'[e])
    BY <1>4 DEF Step
  <2> QED  BY <1>4, <1>0, <2>1 DEF Moves, PipesGood
<1>5. ASSUME NEW e \in Edge, IdleTimeout(e)
      PROVE  Moves
  BY <1>0, <1>3, <1>5, AbortMoves DEF IdleTimeout, AbortExecution
<1>6. CASE DeliverCancel
  BY <1>0, <1>3, <1>4, <1>6, AbortMoves DEF DeliverCancel
<1>7. CASE AbortExecution("ECANCELED")
  BY <1>0, <1>3, <1>7, AbortMoves DEF AbortExecution
<1>8. CASE UNCHANGED vars
  BY <1>4, <1>8 DEF vars, pipeVars
<1> QED  BY <1>0, <1>1, <1>2, <1>5, <1>6, <1>7, <1>8, ReaderMoves, HandleMoves DEF Next

LEMMA InitIInv ==
    ASSUME Init
    PROVE  IInv
<1>1. First \in Descriptor
  BY SharedPipeAssumption DEF First
<1> DEFINE s == Fresh(First)
<1>2. s \in PipeType
  BY <1>1, Nothing DEF Fresh, PipeType, Reason
<1>3. /\ s.queue = <<>> /\ s.reads = 0 /\ ~s.closing /\ s.finished = "open"
      /\ ~s.terminal /\ s.failure = None /\ ~s.closeRequested /\ s.cancelled = None
      /\ ~s.dropped /\ s.received = <<>> /\ s.accepted = <<>> /\ s.resolved = {}
      /\ s.writes = <<>>
  BY DEF Fresh
<1>4. \A e \in Edge : pipe[e] = s
  BY DEF Init
<1>5. pipe \in [Edge -> PipeType]
  BY <1>2 DEF Init
<1>6. \A i \in 2 .. Len(s.writes) : FALSE
  BY <1>3
<1> HIDE DEF s
<1>7. Sound(s) /\ ~Waiting(s)
  BY <1>2, <1>3, <1>6 DEF Sound, Alive, Started, Waiting, Intact
<1>8. \A e \in Edge : Good(pipe[e])
  BY <1>4, <1>7 DEF Good, Awake
<1> QED  BY <1>5, <1>8 DEF Init, IInv, PipesGood, Reason

\* IInv holds of every reachable state: every pipe is sound and awake between any
\* two steps of shell/pipe.ts.
THEOREM Inductive == Spec => []IInv
<1>1. Init => IInv
  BY InitIInv
<1>2. IInv /\ [Next]_vars => IInv'
  BY NextMoves, OthersKept DEF Moves, Others, IInv, PipesGood
<1> QED  BY <1>1, <1>2, PTL DEF Spec
-----------------------------------------------------------------------------
(* What follows. *)

\* What good pipes promise.
LEMMA GoodPipes ==
    ASSUME PipesGood
    PROVE  NoLostWakeup /\ AcknowledgedIsKept /\ GoodEndIsComplete
<1>1. NoLostWakeup
  BY DEF PipesGood, NoLostWakeup, Good, Awake
<1>2. AcknowledgedIsKept
  <2> SUFFICES ASSUME NEW e \in Edge, pipe[e].finished # "errored", ~pipe[e].dropped
               PROVE  pipe[e].resolved \subseteq Elements(pipe[e].received \o pipe[e].queue)
    BY DEF AcknowledgedIsKept
  <2>1. Sound(pipe[e]) /\ Alive(pipe[e])
    BY DEF PipesGood, Good, Alive
  <2> QED  BY <2>1 DEF Sound, Intact
<1>3. GoodEndIsComplete
  <2> SUFFICES ASSUME NEW e \in Edge, pipe[e].finished = "closed", ~pipe[e].dropped
               PROVE  /\ pipe[e].failure = None
                      /\ pipe[e].writes = <<>>
                      /\ pipe[e].received = pipe[e].accepted
    BY DEF GoodEndIsComplete
  <2>1. Sound(pipe[e]) /\ Alive(pipe[e]) /\ pipe[e].received \in Seq(Chunk)
    BY DEF PipesGood, Good, Alive, PipeType
  <2>2. pipe[e].failure = None /\ pipe[e].writes = <<>>
    BY <2>1 DEF Sound
  <2>3. pipe[e].received \o <<>> = pipe[e].accepted
    BY <2>1 DEF Sound, Intact
  <2> QED  BY <2>1, <2>2, <2>3, ConcatEmptySeq
<1> QED  BY <1>1, <1>2, <1>3

\* Every step of good pipes is one of the contract, or none.
LEMMA MovesImplement ==
    ASSUME PipesGood, Moves
    PROVE  [Contract!Next]_(Contract!vars)
<1> DEFINE s == pipe[OneEdge]
<1>0. OneEdge \in Edge
  BY SharedPipeAssumption DEF OneEdge
<1>1. /\ Step(s, s') /\ s \in PipeType
      /\ s.accepted \in Seq(Chunk) /\ s.received \in Seq(Chunk)
  <2>1. Step(pipe[OneEdge], pipe'[OneEdge])
    BY <1>0 DEF Moves
  <2>2. s \in PipeType
    BY <1>0 DEF PipesGood
  <2> QED  BY <2>1, <2>2 DEF PipeType
<1>2. /\ s.accepted' = s'.accepted /\ s.received' = s'.received
      /\ StateOf(s)' = StateOf(s')
  BY DEF StateOf
<1> DEFINE a == s.accepted
           r == s.received
           x == StateOf(s)
<1>3. a' = s'.accepted /\ r' = s'.received /\ x' = StateOf(s')
  BY <1>2
<1>4. Step(s, s')
  BY <1>1
<1>5. Contract!vars = <<a, r, x>> /\ Contract!vars' = <<a', r', x'>>
  BY DEF Contract!vars
<1>6. CASE a' = a /\ r' = r /\ x' = x
  BY <1>5, <1>6
<1>7. ASSUME x = "open", x' = "open", NEW chunk \in Chunk, a' = Append(a, chunk),
             \/ r' = r
             \/ r = a /\ r' = a'
      PROVE  Contract!Next
  BY <1>7 DEF Contract!Next, Contract!Send, Contract!Pass, Contract!Open, Contract!Complete
<1>8. CASE /\ x = "open" /\ a' = a /\ Len(r) < Len(a)
           /\ r' = Append(r, a[Len(r) + 1])
           /\ \/ x' = "open"
              \/ x' = "ended" /\ r' = a'
  <2>1. r \in Seq(Chunk) /\ a \in Seq(Chunk)
    BY <1>1
  <2>2. Len(r) # Len(a) /\ (r' = a' => Len(r) + 1 = Len(a))
    BY <1>8, <2>1
  <2>3. Contract!Receive
    BY <1>8, <2>2 DEF Contract!Receive, Contract!Open, Contract!Complete
  <2> QED  BY <2>3 DEF Contract!Next
<1>9. CASE /\ x = "open" /\ a' = a /\ r' = r
           /\ \/ x' = "ended" /\ r = a
              \/ x' \in {"failed", "left"}
  BY <1>9 DEF Contract!Next, Contract!End, Contract!Break, Contract!Leave, Contract!Open,
              Contract!Complete
<1>10. \/ a' = a /\ r' = r /\ x' = x
       \/ /\ x = "open" /\ x' = "open"
          /\ \E chunk \in Chunk : a' = Append(a, chunk)
          /\ \/ r' = r
             \/ r = a /\ r' = a'
       \/ /\ x = "open" /\ a' = a /\ Len(r) < Len(a)
          /\ r' = Append(r, a[Len(r) + 1])
          /\ \/ x' = "open"
             \/ x' = "ended" /\ r' = a'
       \/ /\ x = "open" /\ a' = a /\ r' = r
          /\ \/ x' = "ended" /\ r = a
             \/ x' \in {"failed", "left"}
  <2> HIDE DEF s
  <2> QED  BY <1>3, <1>4 DEF Step
<1> HIDE DEF a, r, x
<1> QED  BY <1>6, <1>7, <1>8, <1>9, <1>10

\* The pipe, the signal, the budget and the cancellation keep their types.
THEOREM TypeCorrect == Spec => []TypeOK
<1>1. IInv => TypeOK
  BY DEF IInv, PipesGood, TypeOK
<1> QED  BY <1>1, Inductive, PTL

\* pipe.ts accept() and wakeWriters(): no writer waits on a pipe that has room,
\* failed or lost its reader, whatever the capacity and however many descriptors,
\* chunks and pipes there are.
THEOREM WakeupCorrect == Spec => []NoLostWakeup
<1>1. IInv => NoLostWakeup
  BY GoodPipes DEF IInv
<1> QED  BY <1>1, Inductive, PTL

\* A write whose promise resolved is delivered or queued, as long as the stream
\* did not fail and the consumer did not leave: no close, abort, limit or other
\* descriptor drops it.
THEOREM AcknowledgedCorrect == Spec => []AcknowledgedIsKept
<1>1. IInv => AcknowledgedIsKept
  BY GoodPipes DEF IInv
<1> QED  BY <1>1, Inductive, PTL

\* A stream that ended well was closed by its last descriptor after the last
\* write, none of which failed, and its reader has all of it.
THEOREM EndCorrect == Spec => []GoodEndIsComplete
<1>1. IInv => GoodEndIsComplete
  BY GoodPipes DEF IInv
<1> QED  BY <1>1, Inductive, PTL

\* The queue, the reference-counted descriptors, the budget, the limits and the
\* cancellations of a pipe together do no more than the contract of a pipe.
THEOREM PipeImplementsContract == Spec => ImplementsPipe
<1>1. Init => Contract!Init
  <2>1. OneEdge \in Edge
    BY SharedPipeAssumption DEF OneEdge
  <2> QED  BY <2>1 DEF Init, Fresh, Contract!Init, StateOf
<1>2. IInv /\ [Next]_vars => [Contract!Next]_(Contract!vars)
  BY NextMoves, MovesImplement DEF IInv
<1>3. QED
  BY <1>1, <1>2, Inductive, PTL DEF Spec, ImplementsPipe, Contract!Spec
=============================================================================
