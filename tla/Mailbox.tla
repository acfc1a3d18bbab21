------------------------------- MODULE Mailbox ------------------------------
(***************************************************************************)
(* What the rendezvous promises to the author of a test script, without    *)
(* the ref, its lock, the turnstile and the sleepers: the statements of    *)
(* the script take effect in order, each at most once; one that waits for  *)
(* a thread is on offer from when the script publishes it until one thread *)
(* takes it or the execution is closed; after that no thread is controlled *)
(* until the next execution.  Rendezvous implements it.                    *)
(***************************************************************************)
EXTENDS Naturals

CONSTANT Statements   \* how many statements the script has

VARIABLES
  offers,   \* the statements the threads are offered: one or none
  taken,    \* how many statements have taken effect
  phase     \* "open", "closing" when the script is over, "closed" at the end node

vars == <<offers, taken, phase>>

Init ==
  /\ offers = {}
  /\ taken = 0
  /\ phase = "open"

\* The script publishes its next statement for the threads.
Offer ==
  /\ phase = "open"
  /\ offers = {}
  /\ taken < Statements
  /\ offers' = {taken + 1}
  /\ UNCHANGED <<taken, phase>>

\* A thread consumes the statement on offer, also while the script gives up on it.
Take ==
  /\ phase # "closed"
  /\ taken + 1 \in offers
  /\ offers' = {}
  /\ taken' = taken + 1
  /\ UNCHANGED phase

\* A statement of the script alone takes effect without being offered.
Decide ==
  /\ phase = "open"
  /\ offers = {}
  /\ taken < Statements
  /\ taken' = taken + 1
  /\ UNCHANGED <<offers, phase>>

\* The script has ended, thrown or timed out; an offer still stands.
GiveUp ==
  /\ phase = "open"
  /\ phase' = "closing"
  /\ UNCHANGED <<offers, taken>>

\* All threads have ended: the offer nobody can take is withdrawn.
Withdraw ==
  /\ phase = "closing"
  /\ offers # {}
  /\ offers' = {}
  /\ UNCHANGED <<taken, phase>>

\* The end node is published, by the script or by a thread that fails.
Close ==
  /\ phase # "closed"
  /\ phase' = "closed"
  /\ offers' = {}
  /\ UNCHANGED taken

\* The search goes on with another execution.
Reopen ==
  /\ phase = "closed"
  /\ phase' = "open"
  /\ taken' = 0
  /\ UNCHANGED offers

Next == Offer \/ Take \/ Decide \/ GiveUp \/ Withdraw \/ Close \/ Reopen

Spec == Init /\ [][Next]_vars
=============================================================================
