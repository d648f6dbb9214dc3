-------------------------- MODULE ConfirmedCommands --------------------------
(***************************************************************************)
(* What every prompt program promises: a request is shown to the operator  *)
(* first, its commands are sent only after the operator's confirmation,    *)
(* each at most once, each after the first only when the one before it has *)
(* succeeded, and the request is reported as done only when all of them    *)
(* have.                                                                   *)
(***************************************************************************)
EXTENDS Integers, Sequences

CONSTANTS
  Commands,    \* what can be sent
  MaxCommands  \* the length of the longest request, a positive number

VARIABLES
  offer,      \* the commands of the request under way; none between requests
  approved,   \* whether the operator has confirmed it
  step,       \* how many of its commands have been sent
  issued,     \* every command ever sent
  succeeded,  \* those of them that succeeded
  reported    \* whether the last request was reported as done

vars == <<offer, approved, step, issued, succeeded, reported>>

Offers == UNION {[1..n -> Commands] : n \in 1..MaxCommands}

Init ==
  /\ offer = <<>>
  /\ approved = FALSE
  /\ step = 0
  /\ issued = <<>>
  /\ succeeded = {}
  /\ reported = FALSE

Ask ==
  /\ offer = <<>>
  /\ reported' = FALSE
  /\ UNCHANGED <<offer, approved, step, issued, succeeded>>

Offer(request) ==
  /\ offer = <<>>
  /\ offer' = request
  /\ reported' = FALSE
  /\ UNCHANGED <<approved, step, issued, succeeded>>

Approve ==
  /\ offer # <<>>
  /\ ~approved
  /\ approved' = TRUE
  /\ UNCHANGED <<offer, step, issued, succeeded, reported>>

LastSucceeded == step = 0 \/ Len(issued) \in succeeded

Issue ==
  /\ approved
  /\ step < Len(offer)
  /\ LastSucceeded
  /\ step' = step + 1
  /\ issued' = Append(issued, offer[step + 1])
  /\ UNCHANGED <<offer, approved, succeeded, reported>>

Succeed(i) ==
  /\ i \in DOMAIN issued \ succeeded
  /\ succeeded' = succeeded \cup {i}
  /\ UNCHANGED <<offer, approved, step, issued, reported>>

Close(done) ==
  /\ offer' = <<>>
  /\ approved' = FALSE
  /\ step' = 0
  /\ reported' = done
  /\ UNCHANGED <<issued, succeeded>>

Withdraw == offer # <<>> /\ Close(FALSE)

Report ==
  /\ offer # <<>>
  /\ step = Len(offer)
  /\ LastSucceeded
  /\ Close(TRUE)

Next ==
  \/ Ask \/ Approve \/ Issue \/ Withdraw \/ Report
  \/ \E request \in Offers : Offer(request)
  \/ \E i \in DOMAIN issued : Succeed(i)

Spec == Init /\ [][Next]_vars
=============================================================================
