--------------------------- MODULE SafeConversion ---------------------------
(***************************************************************************)
(* What a user is promised while a medium is encrypted or decrypted under   *)
(* the files on it: the conversion may be paused, resumed, reversed and     *)
(* interrupted by a shutdown, and loses nothing; a power loss may cost a    *)
(* bounded part of the data.  There is no cipher, header or thread here,    *)
(* only which units of the medium still give their data back.               *)
(***************************************************************************)
EXTENDS Integers, FiniteSets

CONSTANTS
  Units,      \* the units of the area that is converted
  Tolerance   \* how many of them one power loss may cost

VARIABLES
  intact,     \* the units whose data the user can read
  losses,     \* how often the power was lost
  excused     \* something failed for which nothing is promised
vars == <<intact, losses, excused>>

Init == intact = Units /\ losses = 0 /\ excused = FALSE

UserWrite ==
  /\ \E u \in Units : intact' = intact \cup {u}
  /\ UNCHANGED <<losses, excused>>

PowerLoss ==
  /\ losses' = losses + 1
  /\ intact' \in SUBSET Units
  /\ excused \/ Cardinality(intact \ intact') <= Tolerance
  /\ UNCHANGED excused

\* The medium refuses a write twice or has lost a unit, or a header is not saved.
Fail == intact' \in SUBSET Units /\ excused' = TRUE /\ UNCHANGED losses

Next == UserWrite \/ PowerLoss \/ Fail

Spec == Init /\ [][Next]_vars
=============================================================================
