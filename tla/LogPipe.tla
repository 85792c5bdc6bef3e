------------------------------ MODULE LogPipe ------------------------------
(***************************************************************************)
(* What the asynchronous pipeline of loggerj promises, without a channel,  *)
(* a worker or a batch: an entry that was accepted waits in one queue, and *)
(* a writer takes entries from the front of it.  Nothing is taken twice,   *)
(* nothing overtakes, nothing is invented, and an accepted entry leaves    *)
(* the queue only by being handed to the writer.                           *)
(***************************************************************************)
EXTENDS Naturals, Sequences

CONSTANT Entry

VARIABLES
  pending,    \* accepted and not yet handed to the writer, oldest first
  delivered   \* handed to the writer, in that order

pipeVars == <<pending, delivered>>

PipeTypeOK == pending \in Seq(Entry) /\ delivered \in Seq(Entry)

PipeInit == pending = <<>> /\ delivered = <<>>

\* The logger accepts an entry (or drops it, which changes nothing here).
Accept == \E e \in Entry : /\ pending' = Append(pending, e)
                           /\ UNCHANGED delivered

\* The writer is handed the k oldest entries in one piece.
Deliver == \E k \in 1..Len(pending) :
             /\ delivered' = delivered \o SubSeq(pending, 1, k)
             /\ pending' = SubSeq(pending, k + 1, Len(pending))

PipeNext == Accept \/ Deliver

PipeSpec == PipeInit /\ [][PipeNext]_pipeVars
=============================================================================
