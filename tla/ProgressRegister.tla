--------------------------- MODULE ProgressRegister ---------------------------
(**************************************************************************)
(* What viewing progress promises: for every title one playback at a time   *)
(* holds the right to move the position, it moves it forward in its own     *)
(* order, and a playback that lost the right never writes again.            *)
(**************************************************************************)
EXTENDS Integers
CONSTANTS Titles, Players, Nobody
VARIABLES
  holder,    \* the playback that may move each title's position
  position,  \* the position of each title: who wrote it, and its place in that order
  past       \* the playbacks that have held the right

registerVars == <<holder, position, past>>

RegisterInit ==
  /\ holder = [t \in Titles |-> Nobody] /\ past = {}
  /\ position = [t \in Titles |-> [by |-> Nobody, n |-> 0]]

\* A playback is admitted and takes the title over.
Take(t, p) ==
  /\ p \notin past /\ past' = past \cup {p}
  /\ holder' = [holder EXCEPT ![t] = p] /\ UNCHANGED position

\* The holder reports a position: a later one, or one of a playback that does not
\* number its reports (all 0).
Write(t) ==
  /\ holder[t] # Nobody
  /\ position'[t].by = holder[t]
  /\ \/ position[t].by # holder[t]
     \/ position'[t].n > position[t].n
     \/ position'[t].n = 0 /\ position[t].n = 0
  /\ \A u \in Titles \ {t} : position'[u] = position[u]
  /\ UNCHANGED <<holder, past>>

\* The viewer marks titles, an old client writes, or an identity is repaired: the
\* titles are set and whoever played them lost the right.
Reset(T) ==
  /\ holder' = [t \in Titles |-> IF t \in T THEN Nobody ELSE holder[t]]
  /\ \A t \in Titles \ T : position'[t] = position[t]
  /\ UNCHANGED past

RegisterNext ==
  \/ \E t \in Titles, p \in Players : Take(t, p)
  \/ \E t \in Titles : Write(t)
  \/ \E T \in SUBSET Titles : Reset(T)

RegisterSpec == RegisterInit /\ [][RegisterNext]_registerVars
=============================================================================
