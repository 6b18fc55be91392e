----------------------- MODULE MCBlockchainCredential -----------------------
(* The instance of BlockchainCredential for TLC. *)
EXTENDS BlockchainCredential, TLC

AllFaults == {"await", "uncaught", "crash"}
MCSymmetry == Permutations(Req) \cup Permutations(Tx)
=============================================================================
