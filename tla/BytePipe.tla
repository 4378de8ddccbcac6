------------------------------ MODULE BytePipe ------------------------------
(* What a tunnel promises to the two applications at its ends: in each
   direction the reader takes what the writer wrote, in order and without a
   gap; it sees the end of the stream only when the writer has finished and
   everything has been taken -- unless the tunnel has failed, and then it may
   be cut short but still delivers nothing wrong.                            *)
EXTENDS Naturals, Sequences

CONSTANT Dirs            \* the two directions of the pipe

VARIABLES sent,          \* chunks written so far: the k-th chunk is the number k
          got,           \* chunks taken by the reader
          closed,        \* the writer has finished
          ended,         \* the reader has seen the end of the stream
          failed         \* something broke the pipe

vars == <<sent, got, closed, ended, failed>>

Init == /\ sent = [d \in Dirs |-> 0]
        /\ got = [d \in Dirs |-> << >>]
        /\ closed = [d \in Dirs |-> FALSE]
        /\ ended = [d \in Dirs |-> FALSE]
        /\ failed = FALSE

Write(d) == /\ ~closed[d]
            /\ sent' = [sent EXCEPT ![d] = @ + 1]
            /\ UNCHANGED <<got, closed, ended, failed>>

Close(d) == /\ ~closed[d]
            /\ closed' = [closed EXCEPT ![d] = TRUE]
            /\ UNCHANGED <<sent, got, ended, failed>>

Take(d) == /\ ~ended[d] /\ Len(got[d]) < sent[d]
           /\ got' = [got EXCEPT ![d] = Append(@, Len(@) + 1)]
           /\ UNCHANGED <<sent, closed, ended, failed>>

End(d) == /\ ~ended[d]
          /\ failed \/ (closed[d] /\ Len(got[d]) = sent[d])
          /\ ended' = [ended EXCEPT ![d] = TRUE]
          /\ UNCHANGED <<sent, got, closed, failed>>

(* A failure; an end that breaks off also closes its own direction. *)
Fail == /\ failed' = TRUE
        /\ \A d \in Dirs : closed[d] => closed'[d]
        /\ UNCHANGED <<sent, got, ended>>

Next == Fail \/ \E d \in Dirs : Write(d) \/ Close(d) \/ Take(d) \/ End(d)

SafeSpec == Init /\ [][Next]_vars

(* Unless it fails, the pipe delivers what was written and, once the writer
   has finished, the end of the stream.                                      *)
Delivered ==
  \A d \in Dirs : /\ (Len(got[d]) < sent[d]) ~> (Len(got[d]) = sent[d] \/ failed)
                 /\ closed[d] ~> (ended[d] \/ failed)
=============================================================================
