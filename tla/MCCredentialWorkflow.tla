------------------------ MODULE MCCredentialWorkflow ------------------------
(* Instances of CredentialWorkflow for TLC. *)
EXTENDS CredentialWorkflow, TLC

\* The documents are not interchangeable: Fresh takes them in a fixed order.
ReqSymmetry == Permutations(Req)

AllFaults == {"await", "uncaught", "relayer", "crash"}
=============================================================================
