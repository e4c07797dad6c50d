-------------------------- MODULE CenterQueuesFifo --------------------------
(***************************************************************************)
(* QueuesService implements FifoLine when requests do not overlap, none    *)
(* fails and vehicles are started by startNextService only.  A line is     *)
(* the active rows of today in the order of their positions: the           *)
(* renumbering after a service must not be visible in it.                  *)
(***************************************************************************)
EXTENDS CenterQueues

(* The rows waiting today at a center for a queue type, by position.  Where *)
(* no two positions are equal there is one such order.                     *)
WaitingLine(l) ==
  CHOOSE s \in ByPosition(Line(l[1], l[2], today)) : TRUE

lines == [l \in Centers \X QueueType |-> WaitingLine(l)]

Fifo ==
  INSTANCE FifoLine WITH
    Lines <- Centers \X QueueType, Entries <- EntryIds, line <- lines

(* First come, first served: every step of the service joins the end of a  *)
(* line, takes the head out of one, starts a day, or leaves the lines as   *)
(* they are.                                                               *)
FirstComeFirstServed == Fifo!Spec
=============================================================================
