------------------------------ MODULE Recording ------------------------------
(***************************************************************************)
(* What the database file of tkmreader promises to whoever reads it,       *)
(* whatever tables, ids and requests it is made with: sessions are opened  *)
(* one after the other, only the last one opened takes data, and what has  *)
(* ended or was left behind takes none again, whether by the end of the    *)
(* connection, by the end of the program or by the start of the next.      *)
(* A session is its number in the order of opening: the file may hold      *)
(* several sessions of one hash over time, but never two at once.          *)
(***************************************************************************)
EXTENDS Naturals, Sequences

CONSTANT Hash  \* session hashes the monitor may grant

VARIABLES
  opened,   \* the hash of each session ever opened, in order
  present,  \* the sessions the file has
  closed,   \* those of them that have an end
  active,   \* the session that takes data, 0 when there is none
  fed       \* the sessions that data in the file was recorded in
vars == <<opened, present, closed, active, fed>>

Init == /\ opened = <<>> /\ present = {} /\ closed = {} /\ active = 0 /\ fed = {}

\* A session of hash h is opened: it takes the place of one with the same hash.
Open(h) ==
  LET kept == {i \in present : opened[i] # h}
      new == Len(opened) + 1
  IN  /\ active = 0
      /\ opened' = Append(opened, h)
      /\ present' = kept \cup {new}
      /\ closed' = closed \cap kept
      /\ active' = new
      /\ UNCHANGED fed

\* Data is recorded in the active session.
Feed == /\ active # 0
        /\ fed' = fed \cup {active}
        /\ UNCHANGED <<opened, present, closed, active>>

\* The active session ends.
Close == /\ active # 0
         /\ closed' = closed \cup {active}
         /\ active' = 0
         /\ UNCHANGED <<opened, present, fed>>

\* The program stops, or turns to the next session, without ending this one.
Abandon == /\ active # 0
           /\ active' = 0
           /\ UNCHANGED <<opened, present, closed, fed>>

\* The file is begun anew.
Erase == /\ active = 0
         /\ present' = {} /\ closed' = {} /\ fed' = {}
         /\ UNCHANGED <<opened, active>>

Next == (\E h \in Hash : Open(h)) \/ Feed \/ Close \/ Abandon \/ Erase

Spec == Init /\ [][Next]_vars
=============================================================================
