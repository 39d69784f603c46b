---------------------------- MODULE SingleWriter ----------------------------
(***************************************************************************)
(* What the relay's control lease promises the rest of the system: at any  *)
(* moment at most one client may drive the terminal, the one that drives   *)
(* it is the one whose input reaches the runner, and control passes to     *)
(* another client only through a moment in which nobody holds it.          *)
(*                                                                         *)
(* ControlLease implements this specification.                             *)
(***************************************************************************)
CONSTANTS Subs,     \* the clients that may ask for control
          Nobody    \* stands for "no client"

VARIABLES holder,   \* the client whose input is accepted, or Nobody
          writer    \* the client whose input reached the runner last

TypeOK == /\ holder \in Subs \cup {Nobody}
          /\ writer \in Subs \cup {Nobody}

Init == holder = Nobody /\ writer = Nobody

\* Control is taken only when it is free.
Take(s) == /\ holder = Nobody
           /\ holder' = s
           /\ UNCHANGED writer

\* Control is lost: given back, timed out, or its client is gone.
Lose == /\ holder # Nobody
        /\ holder' = Nobody
        /\ UNCHANGED writer

\* Input reaches the runner only from the client in control, who may lose
\* control as the write ends but not before.
Write == /\ holder # Nobody
         /\ writer' = holder
         /\ holder' \in {holder, Nobody}

Next == Lose \/ Write \/ \E s \in Subs : Take(s)

Spec == Init /\ [][Next]_<<holder, writer>>
=============================================================================
