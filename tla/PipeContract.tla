---------------------------- MODULE PipeContract ----------------------------
(***************************************************************************)
(* What a pipe promises the two ends of it, whatever queue, descriptors    *)
(* and microtasks it is made of: the reader gets what was sent, in order   *)
(* and once; it is told of the end only when it has everything, unless it  *)
(* gave up itself; and a stream that failed stays failed.                  *)
(***************************************************************************)
EXTENDS Naturals, Sequences

CONSTANT Chunk

VARIABLES
    sent,       \* the chunks sent, in order
    got,        \* the chunks the reader got, in order
    state       \* "open", "ended", "failed" or "left"

vars == <<sent, got, state>>

Init ==
    /\ sent = <<>>
    /\ got = <<>>
    /\ state = "open"

Open == state = "open"
Complete == Len(got) = Len(sent)

Send(chunk) ==
    /\ Open
    /\ sent' = Append(sent, chunk)
    /\ UNCHANGED <<got, state>>

\* A reader that has everything and waits gets the chunk as it is sent.
Pass(chunk) ==
    /\ Open /\ Complete
    /\ sent' = Append(sent, chunk)
    /\ got' = Append(got, chunk)
    /\ UNCHANGED state

\* The last chunk may bring the end of the stream with it.
Receive ==
    /\ Open /\ ~Complete
    /\ got' = Append(got, sent[Len(got) + 1])
    /\ state' = "open" \/ (state' = "ended" /\ Len(got) + 1 = Len(sent))
    /\ UNCHANGED sent

End ==
    /\ Open /\ Complete
    /\ state' = "ended"
    /\ UNCHANGED <<sent, got>>

Break ==
    /\ Open
    /\ state' = "failed"
    /\ UNCHANGED <<sent, got>>

Leave ==
    /\ Open
    /\ state' = "left"
    /\ UNCHANGED <<sent, got>>

Next ==
    \/ \E chunk \in Chunk : Send(chunk) \/ Pass(chunk)
    \/ Receive
    \/ End
    \/ Break
    \/ Leave

Spec == Init /\ [][Next]_vars
=============================================================================
