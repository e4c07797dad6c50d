------------------------------ MODULE FifoLine ------------------------------
(***************************************************************************)
(* What the queue of a center promises (TRIPS_API_INTEGRATION_FLOW.md:     *)
(* "FIFO queue for loading/unloading operations at centers"): whoever      *)
(* joins is served after those who came before, and every day starts with  *)
(* empty lines.                                                            *)
(***************************************************************************)
EXTENDS Sequences

CONSTANTS
  Lines,   \* the lines: a center and a queue type each
  Entries  \* those who may join, each once

VARIABLE line  \* who waits in each line, the head first

Waiting == UNION {{line[l][i] : i \in DOMAIN line[l]} : l \in Lines}

Init == line = [l \in Lines |-> <<>>]

Join(l) ==
  \E e \in Entries \ Waiting :
    line' = [line EXCEPT ![l] = Append(@, e)]

ServeHead(l) ==
  /\ line[l] # <<>>
  /\ line' = [line EXCEPT ![l] = Tail(@)]

NewDay == line' = [l \in Lines |-> <<>>]

Next ==
  \/ \E l \in Lines : Join(l) \/ ServeHead(l)
  \/ NewDay

Spec == Init /\ [][Next]_line
=============================================================================
