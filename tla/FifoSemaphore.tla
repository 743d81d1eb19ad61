---------------------------- MODULE FifoSemaphore ----------------------------
(***************************************************************************)
(* What a keyed concurrency limit promises, independently of how it is     *)
(* implemented: for every key a counting semaphore of Capacity permits     *)
(* with a first-come-first-served line.  A permit is taken without waiting *)
(* only while nobody waits; a permit that is given back goes to the head   *)
(* of the line in the same step; whoever waits may give up.  A signal by   *)
(* one who holds no permit is one permit more from then on.                *)
(***************************************************************************)
EXTENDS Naturals, FiniteSets, Sequences, SequencesExt

CONSTANTS
  Client,    \* those who ask for permits
  Key,       \* one independent semaphore per key
  Capacity   \* permits per key at first, a positive number

VARIABLES
  holders,   \* holders[k]: the clients that hold a permit of k
  line,      \* line[k]: the clients that wait for a permit of k, oldest first
  permits    \* permits[k]: how many there are

vars == <<holders, line, permits>>

Involved(c, k) == c \in holders[k] \/ c \in ToSet(line[k])

Init ==
  /\ holders = [k \in Key |-> {}]
  /\ line = [k \in Key |-> <<>>]
  /\ permits = [k \in Key |-> Capacity]

Enter(c, k) ==
  /\ \A other \in Key : ~Involved(c, other)
  /\ line[k] = <<>>
  /\ Cardinality(holders[k]) < permits[k]
  /\ holders' = [holders EXCEPT ![k] = @ \cup {c}]
  /\ UNCHANGED <<line, permits>>

Wait(c, k) ==
  /\ \A other \in Key : ~Involved(c, other)
  /\ Cardinality(holders[k]) = permits[k]
  /\ line' = [line EXCEPT ![k] = Append(@, c)]
  /\ UNCHANGED <<holders, permits>>

Leave(c, k) ==
  /\ c \in holders[k]
  /\ \/ /\ line[k] = <<>>
        /\ holders' = [holders EXCEPT ![k] = @ \ {c}]
        /\ UNCHANGED line
     \/ /\ line[k] # <<>>
        /\ holders' = [holders EXCEPT ![k] = (@ \ {c}) \cup {Head(line[k])}]
        /\ line' = [line EXCEPT ![k] = Tail(@)]
  /\ UNCHANGED permits

GiveUp(c, k) ==
  /\ c \in ToSet(line[k])
  /\ line' = [line EXCEPT ![k] = RemoveFirst(@, c)]
  /\ UNCHANGED <<holders, permits>>

Signal(k) ==
  /\ permits' = [permits EXCEPT ![k] = @ + 1]
  /\ \/ /\ line[k] = <<>>
        /\ UNCHANGED <<holders, line>>
     \/ /\ line[k] # <<>>
        /\ holders' = [holders EXCEPT ![k] = @ \cup {Head(line[k])}]
        /\ line' = [line EXCEPT ![k] = Tail(@)]

Next ==
  \/ \E c \in Client, k \in Key :
       Enter(c, k) \/ Wait(c, k) \/ Leave(c, k) \/ GiveUp(c, k)
  \/ \E k \in Key : Signal(k)

Spec == Init /\ [][Next]_vars
=============================================================================
