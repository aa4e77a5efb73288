------------------------------- MODULE CallOrder -------------------------------
(***************************************************************************)
(* InterThreadCall with the order in which delegates are enqueued, kept in *)
(* a history variable as long as nothing has become of them.               *)
(***************************************************************************)
EXTENDS InterThreadCall

VARIABLE earlier   \* history: <<c, d>> if c was enqueued before d, or is d, and both wait

Arrived == Queued' \ Queued
Enqueued == {p[1] : p \in earlier}

\* Those that have begun to run, were given up or are gone
TakenUp == {d \in Delegates : obj'[d].outcome # "unrun" \/ obj'[d].done \/ d \notin live'}

InitWithHistory == Init /\ earlier = {}

NextWithHistory ==
  /\ Next
  /\ earlier' = {p \in earlier \cup ((Enqueued \cup Arrived) \X Arrived) :
                    p[1] \notin TakenUp /\ p[2] \notin TakenUp}

SpecWithHistory == InitWithHistory /\ [][NextWithHistory]_<<vars, earlier>>

\* Calls are taken up in the order in which they were enqueued, but for those
\* that a suspended dispatch holds: DispatchInterThreadCalls swaps the queue
\* for an empty one and walks the batch from its front.
StartsInOrder ==
  [][\A p \in earlier : p[1] # p[2] /\ p[2] \in TakenUp /\ At("process") =>
       \E n \in 1 .. depth - 1 : p[1] \in Taken(n)]_<<vars, earlier>>
=============================================================================
