----------------------------- MODULE MCAccounts -----------------------------
(* WalletLogin and JobPosts share no variable: what one does can neither    *)
(* enable nor disturb a step of the other.  TLC explores them one at a time,*)
(* which reaches every state of each and none of their product.             *)
EXTENDS WalletLogin

CONSTANTS Org, Post, PostReq, None

VARIABLES
  part,             \* the module that runs
  org, post, call

J == INSTANCE JobPosts WITH Req <- PostReq, task <- call

\* None stands for no request and no document.
ASSUME NoneAssumption == None \notin PostReq \cup J!Posts

all == <<part, vars, org, post, call>>

MCInit == part \in {"login", "posts"} /\ Init /\ J!Init

Login == part = "login" /\ Next /\ UNCHANGED <<part, org, post, call>>
Posts == part = "posts" /\ J!Next /\ UNCHANGED <<part, vars>>
Clock == part = "login" /\ Tick /\ UNCHANGED <<part, org, post, call>>

MCSpec == MCInit /\ [][Login \/ Posts]_all /\ WF_all(Clock)

\* Every variable of the two modules has its type.
TypesOK == TypeOK /\ J!TypeOK

\* Deleting a profile deletes its posts (user.service.ts:515-541): see
\* JobPosts.
Cascade == J!Cascade

\* A deleted post stays deleted (organization-post.service.ts:139-204): see
\* JobPosts.
DeletedStays == J!DeletedStays
=============================================================================
