------------------------- MODULE TransactionQueue -------------------------
(***************************************************************************)
(* What RelayerService promises to the services that queue transactions:   *)
(* a document queued once is executed on chain some number of times (not   *)
(* more often than Runs allows), it is reported COMPLETED only after an    *)
(* execution, and a reported result never goes back to PENDING.  After     *)
(* COMPLETED the relayer follows up on the credential the document belongs *)
(* to: it updates the credential, then announces it.  It follows up on one *)
(* document at a time and may be interrupted, and then never resumes.      *)
(*                                                                         *)
(* FAILED is the weak answer: a transaction may be executed before or      *)
(* after it is reported FAILED, because the relayer also reports FAILED    *)
(* when it merely lost sight of a broadcast.                               *)
(***************************************************************************)
CONSTANTS
  Tx,     \* the transactionIds that may ever be queued
  Runs    \* the broadcasts one transaction may give rise to

VARIABLES
  status,     \* status[t]: the status the callers of getTransactionStatus see
  executed,   \* executed[t]: the broadcasts of t that took effect on chain
  followUp    \* <<>>, or <<t, stage>>: what the relayer does for t next

qvars == <<status, executed, followUp>>

QInit ==
  /\ status = [t \in Tx |-> "ABSENT"]
  /\ executed = [t \in Tx |-> {}]
  /\ followUp = << >>

\* queueTransaction returned an id.
Submit(t) ==
  /\ status[t] = "ABSENT"
  /\ status' = [status EXCEPT ![t] = "PENDING"]
  /\ UNCHANGED <<executed, followUp>>

\* The contract call of t takes effect (once more).
Execute(t) ==
  /\ status[t] # "ABSENT"
  /\ \E r \in Runs \ executed[t] :
       executed' = [executed EXCEPT ![t] = @ \cup {r}]
  /\ UNCHANGED <<status, followUp>>

\* The relayer reports success and turns to the credential.
Complete(t) ==
  /\ followUp = << >>
  /\ status[t] = "PENDING"
  /\ executed[t] # {}
  /\ status' = [status EXCEPT ![t] = "COMPLETED"]
  /\ followUp' = <<t, "apply">>
  /\ UNCHANGED executed

\* The credential of t has been updated.
Applied(t) ==
  /\ followUp = <<t, "apply">>
  /\ followUp' = <<t, "emit">>
  /\ UNCHANGED <<status, executed>>

\* The new state of the credential of t has been announced.
Announced(t) ==
  /\ followUp = <<t, "emit">>
  /\ followUp' = << >>
  /\ UNCHANGED <<status, executed>>

\* The relayer fails or dies in between.
Abandon ==
  /\ followUp # << >>
  /\ followUp' = << >>
  /\ UNCHANGED <<status, executed>>

\* The relayer reports failure, possibly withdrawing a success.
Fail(t) ==
  /\ followUp = << >>
  /\ status[t] \in {"PENDING", "COMPLETED"}
  /\ status' = [status EXCEPT ![t] = "FAILED"]
  /\ UNCHANGED <<executed, followUp>>

QNext ==
  \/ \E t \in Tx : \/ Submit(t) \/ Execute(t) \/ Complete(t)
                   \/ Applied(t) \/ Announced(t) \/ Fail(t)
  \/ Abandon

QSpec == QInit /\ [][QNext]_qvars
===========================================================================
