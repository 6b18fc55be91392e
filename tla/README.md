# A TLA+ model of propellant-backend

propellant-backend is a NestJS server over MongoDB. Talents upload credentials,
organisations verify them, and a relayer inside the server puts issuance,
verification and an NFT on a blockchain. Around that there are registration
with one-time codes, custodial wallets, paid plans, CV generation, chat and job
posts. This directory models the parts of it in which order matters: handlers
that interleave at their awaits, a loop that can be cut short, mail and
webhooks that come late, twice or not at all.

Paths below are relative to the repository; `v1/` stands for
`src/module/v1/`. `PROJECT.json` maps each definition to the lines it models,
each hazard to the properties that watch it, and each theorem to its property.

## 1. Inventory

### The program's execution model

* One Node.js process runs handlers to the next `await` without interruption.
  The models therefore have one action per stretch between two awaits that
  change or read shared state; what a handler has read before an await stays in
  its task record, what it reads after it comes from the shared state.
* MongoDB writes are atomic per document. A unique index refuses the second
  writer. There are three transactions over several documents:
  `upgradeToPremium`, `sendMessage` and `deleteUserProfile`.
* `fly.toml` starts and stops machines on demand (`auto_start_machines`,
  `min_machines_running = 0`), so a process can end at any await, and more than
  one can run. The modules have one process and let it crash (section 7).

### Components

| Component | State | Operations | Modules |
|---|---|---|---|
| Relayer (`v1/blockchain/services/relayer.service.ts`) | `BlockchainTransaction` documents; `isProcessing`; the batch in memory; the chain | `queueTransaction`, the 15 s interval, `processTransaction`, its catch | `TransactionQueue`, `Relayer` |
| Talent credentials (`v1/credential/credential.service.ts`) | credential documents (`verificationStatus`, `blockchainStatus`, `transactionId`, `blockchainCredentialId`); the in-process `credential.issued` event | create, approve, retry, handler; update, delete, reminders | `CredentialWorkflow` |
| Registration and verification (`v1/auth`, `v1/user`, `v1/otp`) | user documents, the OTP collection with its TTL index, mailboxes | register, request a code, verify, reset password, change address | `Registration` |
| Wallets (`v1/blockchain/services/wallet.service.ts`) | `Wallet` documents with a unique `accountAddress` | `createWallet`, `deployAccountOnChain` | `Registration` (creation) |
| Plans and payments (`v1/premium`, `v1/payment`, `v1/transaction`) | the plan of a user, `Transaction` documents, active providers | `selectPlan`, payment page, webhooks, `upgradeToPremium` | `Subscription` |
| CV generation and points (`v1/cv/cv.service.ts`) | `totalCreditPoint`, `totalCvDownload` | `optimizeCV`, `generateAndDownloadCV`, drafts | `Subscription` |
| Generic blockchain credentials (`v1/blockchain/services/credential.service.ts`, `scripts/`) | the collection `credentials`; the contract | issue, verify, revoke; the scripts that reconcile and fix the status | `BlockchainCredential` |
| Wallet login and sessions (`v1/auth`) | the rate limit of nonces in Redis; the account of a wallet | a nonce, login by signature, password or Google | `WalletLogin` (nonces, signature) |
| Chat (`v1/chat`) | chats, messages, the cached map of active users | connect, open a chat, send, read receipts | `Chat` |
| Organization posts (`v1/organization-post`) | posts, a counter on the account | create, update, toggle, delete | `JobPosts` |
| User profiles and administration (`v1/user`) | user documents | profile updates, `deleteUserProfile`, removal and restoration | `JobPosts`, `WalletLogin` (deletion and removal) |
| NFT endpoints, settings, waitlist, VPay, mail, repository and cache, files and IPFS, configuration | see section 7 | | not modelled |

### How they interact

* Talent credentials, generic credentials, wallets and NFT endpoints call
  `queueTransaction`, which only inserts a PENDING document and returns its
  `transactionId`. The caller stores that id *after* the call.
* The loop takes documents up, broadcasts, waits for the receipt, writes
  COMPLETED, then updates the credential that has this `transactionId`, then
  emits `credential.issued`, in the same process.
* The handler of the event re-reads the credential, queues a verification and a
  mint, and writes VERIFIED.
* Registration sends a code, creates the user, and goes on creating a second
  wallet after it has answered; `createWallet` queues with the relayer.
* The generic credential service queues with the same relayer, but the relayer
  only writes to talent credentials: what happens to a document of `credentials`
  is decided by the three endpoints and by scripts run by hand.
* `JwtStrategy` finds the account of a token before a handler runs, so that a
  request admitted before its account was deleted goes on afterwards.
* Sending a message reads the map of active users, which other socket events
  rewrite, before it writes message and chat in one transaction.
* A payment page refers to a `Transaction` by its reference; the provider
  delivers the charge to the webhook until it gets a success back.

### What is hard, and what makes each component correct

* **Relayer.** The hash of a broadcast is not saved before `wait()`, `wait()`
  has no timeout, the catch turns everything into FAILED, and nothing redoes
  the follow-up of a COMPLETED document. Correct: a second broadcast only after
  an interruption, no broadcast lost sight of in an orderly run, results never
  reopened, the follow-up done unless interrupted, and the loop always returns.
* **Credentials.** Approvals refuse no status and branch on what they read
  before several awaits; the relayer runs at the same time. Correct: the
  canonical id belongs to the credential's own issuance, verifications name an
  id that exists, mints are bounded by calls, an ISSUED credential moves on unless
  what would move it was cut short.
* **Registration.** One code at a time in the whole collection, updates by
  address, find-then-create, an un-awaited second wallet. Correct: verification
  and passwords follow an accepted code for that very address, bonuses and
  referral counts follow what happened, the wallet on record exists.
* **Subscription.** Repeated and overlapping deliveries, plan changes while a
  payment is under way, checks on a balance read earlier. Correct: a paid plan
  is paid for, no delivery is acknowledged before its upgrade, every charge is
  honoured in the end, the balance is bounded.
* **Generic credentials.** A queued call and the write that records it are two
  awaits; scripts write what they have read some time ago. Correct: VERIFIED
  needs the chain, no queued issuance is lost from sight, a revocation is not
  undone on the strength of the revoked document.
* **Wallet login.** The limit is a counter that is read, checked and written
  back, with a time to live of its own; a first login is find-then-create.
  Correct: the limit bounds the nonces, nobody is locked out for good, one
  login is the first.
* **Chat.** Find-then-create of a chat, transactions that overlap on it, a map
  rewritten as a whole. Correct: one chat per group unless creations overlap,
  the last message is the newest that exists, the map is right unless updates
  overlap or fail.
* **Posts and profiles.** Requests outlive the deletion of their account;
  updates are made on posts read earlier. Correct: a deleted organization has
  no post left that existed, a deleted post stays deleted.

The list with a line for each point is `hazards` in `PROJECT.json`.

## 2. Modules

### TransactionQueue (abstract)

What a service that queues work may rely on. `Submit` is `queueTransaction`,
`Execute` an effect on chain, `Complete`/`Applied`/`Announced` the order in
which COMPLETED, the credential update and the event follow each other,
`Abandon` an interruption in between, `Fail` the catch. FAILED is deliberately
weak: the code also writes it for transactions that take effect.

### Relayer (detailed) and MCRelayer

| TLA+ | Code (`relayer.service.ts`) |
|---|---|
| `QueueTransaction` | 102-182 |
| `Eligible`, `BatchOf`, `Tick` | 204-231: PENDING, younger than 24 h, `limit(5)`, no sort |
| `TakeUp` | 233-257: one iteration, with the short cut for a document that has a hash |
| `Preflight`, `Send` | 273-345 |
| `Confirm`, `ConfirmFails` | `tx.wait()` and the write of COMPLETED, 346-391 |
| `Apply`, `ApplyFails`, `Emit`, `EmitFails` | 393-580: the credential update; the event, before which the credential is read back (505) |
| `MarkFailed`, `MarkFailedFails` | the catch, 582-600 |
| `Crash` | the process dies and starts again |
| `Decide` | the chain (external) |

`pc` is the await `processTransaction` is at and `pc = "idle"` is
`isProcessing === false`. Two history variables let properties say when they
hold: `lost[t]`, the number of times the processing of `t` was cut short
(bounded by `MaxLost`, and by `Unlucky`, the documents to which it happens at
all), and `blurred`, the documents whose outcome an error hid from the loop (a
lost reply, a `wait()` that rejects for an outage, a failed write). With ethers
v6 `wait()` rejects for a reverted transaction; the branch for `receipt.status
=== 0` (349-380) is not reached, and a revert goes through the catch.

### CredentialWorkflow and MCCredentialWorkflow

Extends `TransactionQueue`, which `Relayer` implements, so the workflow is
checked against what the relayer promises and not against a copy of it. A task
is an endpoint call (`Req`) or the event handler of a document (`Tx`).

| TLA+ | Code |
|---|---|
| `CreateCredential` | `createCredential`, `v1/credential/credential.service.ts` 402-507 |
| `Approve`, `ApproveRead` | `verifyOrRejectCredential`, 757-785; no status refuses it |
| `Issue`, `Link` | 689-731 and 787-798: the id is written after queueing |
| `Verify`, `Mint`, `Minted`, `Finish` | 877-903, 908-1035, 800-850 |
| `TaskFails` | the catches at 855 and of `continueVerificationWorkflow` |
| `TaskIsCut` | a rejected await that nothing catches (1159-1226, 61-86), or a catch whose own write rejects |
| `Retry`, `ResetForRetry`, `StartAgain` | `retryMinting`, 61-94 |
| `Resolve`, `Continue` | the handler, 1159-1226; `continueVerificationWorkflow`, 1233-1254 |
| `Credit`, `Announce` | the relayer, 393-515: the update by `transactionId`, the event |

`LooksLikeVerify` models the test of a description for `'Verify credential'`,
which a credential's own title can satisfy (`Misleading`). `IdShape` says how
the id comes out of the receipt: with a bytes32 id `parseInt(hex, 10)` is 0.
A task that was cut short, by `TaskIsCut` or a crash, is remembered at `pc =
"cut"` (history). The reject branch of `verifyOrRejectCredential` writes nothing
and has no action. `Fresh` takes documents in a fixed order, as ids carry no meaning.

### Registration and MCRegistration

A task is a registration (`User`: each creates at most one user) or another
call (`Call`). Codes are numbered in the order of generation; a password is
named by the reset code it was chosen with.

| TLA+ | Code |
|---|---|
| `Register`, `Check` ... `Count` | `register`, `v1/auth/auth.service.ts` 85-98, and `createUser` |
| `SecondWallet`, `SaveWallet`, `Adopt` | `autoGenerateWalletForUser`, 100-148; `createWallet` |
| `Send`, `StoreCode`, `Mail` | `sendOTP`, `createOTP`: `v1/otp/services/otp.service.ts` 33-44 |
| `RequestCode`, `RequestOtp` | `sendVerificationMail`, `sendPasswordResetEmail`; `POST /otp/request`, for any address |
| `Consume` | `verifyOTP` with deletion |
| `VerifyEmail`, `MarkVerified`, `Award` | `verifyEmail`, 201-257 |
| `ResetPassword`, `SetPassword` | `resetPassword` |
| `ChangeEmail`, `Change` | `changeEmail` of `v1/user/services/user.service.ts` |
| `Tick`, `Expire` | the TTL index: `expiresAt` plus 600 s, in steps of ten minutes |

The guards of `VerifyEmail` and `ResetPassword` let a person enter only codes
found in a mailbox. Guessing is left out. `POST /otp/verify` finds a code without
deleting it and changes nothing. A call whose await rejects is a call
that takes no further step; nothing obliges it to.

### Subscription and MCSubscription

| TLA+ | Code |
|---|---|
| `SelectFree`, `SetFree`, `Select`, `CreateTxn`, `OpenPage` | `v1/premium/premium.service.ts` 112-234 |
| `Deliver`, `Complete`, `Upgrade`, `Acknowledge`, `DeliveryFails` | `v1/payment/services/paystack.service.ts` 70-114, `payment.service.ts` 213-250, `upgradeToPremium` 42-110 |
| `Reference` | `tx_ref` of Flutterwave matches no transaction, so its deliveries find nothing |
| `Switch` | a provider is activated or deactivated |
| `StartCv`, `Optimise`, `CountDownload`, `SendCv`, `PayPoint` | `v1/cv/cv.service.ts` 117-289 |

A delivery reads the user and the plan from the metadata of the charge, which
were those of the transaction; `Upgrade` takes them from there. A delivery is
taken to carry the provider's signature: one that does not is answered with
success and changes nothing (`paystack.service.ts` 111-113), which is a premise
of `AckAfterUpgrade` and `ChargeHonoured`. Paying twice on one page is the
provider's business and left out.

### BlockchainCredential and MCBlockchainCredential

A task (`Req`) is a call of an endpoint or the visit of a script to one
document; it keeps the `verificationStatus` it has read (`seen`).

| TLA+ | Code |
|---|---|
| `Create`, `QueueIssue`, `Link` | `issueCredential`, `v1/blockchain/services/credential.service.ts` 98-183 |
| `IssueFails`, `MarkFailed`, `MarkFailedFails` | its two catches, 184-204 |
| `VerifyCall`, `QueueVerify`, `VerifyPending` | `verifyCredential`, 218-328 |
| `RevokeCall`, `QueueRevoke`, `Reject` | `revokeCredential`, 412-491: no status refuses it |
| `FixCall` | `scripts/fix-verification-status.js` |
| `ReconcileCall`, `ReconcileRead`, `Put` | `scripts/reconcile-verifications.js` 48-101 |
| `Execute`, `Reads` | the contract (external); `UnknownReads` is its answer to an unknown id |

A document is created with a number of its own as `blockchainCredentialId`.
`Legacy` are the documents `scripts/set-canonical-id.js` has given the id of
the contract, the only ones a verification or revocation can reach on chain.
The relayer appears as what it guarantees: a queued call is executed some time,
never, or more than once.

### Chat and MCChat

| TLA+ | Code |
|---|---|
| `SendTo`, `SendIn`, `Lookup` | `sendMessage`, `v1/chat/services/message.service.ts` 37-70; `findOneQuery` |
| `Open`, `Check`, `Create` | `POST /chat` and `create`, `v1/chat/services/chat.service.ts` 19-38 |
| `Begin`, `Look` | the activity of recipient and sender, 117-136 |
| `Insert`, `Update`, `Commit`, `SendFails` | the transaction, 138-193 |
| `Read`, `Receipt` | `readMessage`, 217-252 |
| `Event`, `Join`, `Leave`, `WriteLost` | `v1/chat/services/chat-active-user.service.ts` over `CacheHelper` |

A transaction has its snapshot from its first operation (`seen`), locks the
chat at the update (`lock`) and aborts when another transaction has written the
chat since. History: `order` of insertion, `unseen` (the chats created between
a task's look and its creation), `online`, `torn`. A reader is added to a set,
so that the double entry two overlapping receipts leave in `readBy` (248) is
not visible.

### WalletLogin, JobPosts and MCAccounts

`WalletLogin` has one address; other wallets appear as `OtherSignsUp`.

| TLA+ | Code |
|---|---|
| `ReadCount`, `ReadTtl`, `Decided`, `Drop`, `Grant` | `generateWalletAuthNonce`, `v1/auth/auth.service.ts` 327-368 |
| `LoginFind`, `LoginUpdate`, `LoginCreate` | `loginWithWallet` 370-454, `createWalletUser` |
| `AdminRemove` | `softDelete`, `v1/repository/base.service.ts` |
| `Tick`, `Failing` | Redis (external); a failed call answers like a missing key |

`recent[a]` (history) counts the nonces given out in the last `a` ticks. Redis rounds
the time that is left, so that a read may be one tick short (`Ttls`).

| TLA+ | Code (`v1/organization-post/organization-post.service.ts` unless named) |
|---|---|
| `Admit`, `Start` | `JwtStrategy.validate` and the controller |
| `Create`, `Count` | `createJobPost`, 29-45 |
| `Find`, `Save`, `Patch`, `Delete` | toggle, update and deletion, 134-210 |
| `Mark`, `Sweep` | the transaction of `deleteUserProfile`, `v1/user/services/user.service.ts` 515-541 |
| `AdminPost`, `AdminUser` | `softDelete` and `restoreDeleted`, `v1/repository/base.service.ts` 56-76 |

A write inside the transaction conflicts like in Chat. The `pre(/^find/)` hooks
add `isDeleted: false` also to `findByIdAndUpdate`, which is why `Patch` misses
a post that was deleted and `restoreDeleted` restores nothing.

`MCAccounts` holds both modules for TLC. They share no variable, so `part` picks
one of them and the other stays in its initial state: every state of each is
reached, and none of the product.

## 3. Runs

Symmetry is used in safety runs only, where the cfg names it.

| Run | Instance | Shows |
|---|---|---|
| `relayer` | 3 documents, batches of 2, all faults, one document interrupted at most once | five safety properties, no second life of a result, `Relayer` implements `TransactionQueue`, every job ends and the loop returns but for a dropped broadcast |
| `workflow` | 2 credentials (one misleading), 2 calls, 5 documents, all faults | ids, verifications, mints and statuses |
| `workflow_live` | 1 credential, 2 calls, 4 documents, all faults | ISSUED moves on, unless its own call or handler, or the relayer before the event, was cut short |
| `registration` | 2 registrations, 2 addresses, 2 further calls, 3 codes | the four safety properties and `PasswordByMail` |
| `subscription` | 1 user, 2 plans, 2 transactions, 2 selections, 2 overlapping deliveries per charge, 1 CV call | the two safety properties, and every Paystack charge is honoured |
| `issuer` | 2 documents (one Legacy), 4 calls or script visits, 4 transactions, all faults | `VerifiedOnChain`, `IssuanceTracked`, `RevocationSticks` |
| `chat` | 2 users, 2 chats, 2 messages, 4 requests or events, all faults | `OneChatPerGroup`, `LastIsNewest`, `MapTruthful` |
| `accounts` | 2 requests at a time, 2 nonces in 6 ticks; 2 organizations, 2 posts, 4 requests; all faults | `RateBound`, `FirstLoginOnce`, `LockoutEnds`; `Cascade`, `DeletedStays` |
| `workflow_double_mint`, `workflow_stranded`, `registration_code_lost`, `subscription_free_ride` | the smallest instance, the workflow ones with no fault at all | a documented promise the code does not keep (section 6) |

**Why the bounds are enough.** Three documents are one more than a batch, so
that one is left behind by `limit`; `MaxLost = 1` for one document gives it a
second processing next to two undisturbed ones, and the theorems of section 5
cover the rest. Five documents are an issuance, a verification, a mint and the
two a second, overlapping call adds (`workflow_live` leaves out the last of
them, for the size of a liveness check; `Exhausted` marks where that is felt); two credentials are what it takes to credit
a receipt to the wrong one. In Registration two users, two addresses and two
calls give a race for one address, a change of address during a verification,
and a code overwritten by another's; three codes are one for each registration
and one more. In Subscription two transactions of one user for different plans,
with two deliveries of each at a time, give every order of completion and
upgrade; the balance is per user, so one user is enough. In `issuer` four tasks
are an issuance, a verification, a revocation and a script on one document, in
any order; in `chat` two senders, a reader or a second creation, and an update
of the map; two messages are what `lastMessage` can confuse. The window of six
ticks leaves room for several roundings in a row; `3 * Max - 1` nonces do occur
in it, so that `RateBound` is tight. Two requests at a time overlap, and come
again and again. In `accounts` four requests are a
creation, a deletion of a post, a toggle or update, and the deletion of the
profile. Each property is also checked against a mutation of the code's
definition (the `mutants`; in the modules they are marked "Mutant"), so that
none holds because nothing happens.

**Deadlock** is checked for Relayer (a tick that finds nothing is a step, so
this says little) and Subscription (where providers may always be switched).
It is off for the others, whose calls are bounded and which therefore come to
rest.

## 4. Fairness and liveness

* `Relayer!Fairness`: the event loop serves every resolved promise and the
  interval (weak fairness of `LoopStep`), except `wait()` on a broadcast the
  chain has not decided: that has no timeout, and `Awaiting` excludes it. The
  chain decides about every broadcast it does not drop. Crashes stop at some
  point. Nothing is assumed of which document `find().limit(5)` returns, so
  `EveryJobEnds` needs its disjunct `~fresh[t]` (a document older than 24 hours
  is no longer selected) as well as `Hung`.
* `CredentialWorkflow!Fairness`: each task goes on, each document is settled,
  and each follow-up is made. The last two are `EveryJobEnds` and `LoopReturns`
  of Relayer for the case that no broadcast is dropped. Faults and crashes are
  under no fairness and may happen at any time. The event lives in the process
  only, and the handler's reads (1170-1215) are in no try, so that a crash or a
  rejected await there really does strand an ISSUED credential: `LeftBehind`
  names these cases, by what was cut short, and `IssuedMovesOn` is claimed for
  all others, failures inside the try of an approval or of
  `continueVerificationWorkflow` and crashes at any other time included.
  `Exhausted` is the model's own end of documents.
* `Subscription!Fairness`: the provider keeps delivering (weak), and an await
  does not reject in *every* delivery (strong, for the two database steps).
  There is no fairness for customers, administrators or CV calls.
* `MCAccounts`: time passes (weak fairness of `Tick`), nothing is asked of the
  requests. `LockoutEnds` holds although refused requests keep coming, because
  a refusal writes nothing and every write of the counter carries an expiry.
* The other modules state no liveness: nothing in that code retries, and a
  caller who is refused is told so.

## 5. Proofs

`tlapm` checks every module below to the last leaf. The theorems hold for every
value of the constants that satisfies the named `ASSUME`s.

**RelayerProofs** (from `RelayerAssumption`). `IInv` = `TypeOK` /\ `Ledger` /\
`Control` /\ `Chain`. `BroadcastBound` is not inductive alone, because a crash
puts a broadcast document back among the PENDING ones. `Ledger` adds that a
PENDING document the loop does not hold has at most as many broadcasts as
interruptions; `Control` ties `pc` to the status of the current document and
says the batch is PENDING, so that no settled document is sent; `Chain` says
which broadcasts exist and that COMPLETED ones were mined. From `IInv` follow
`TypeCorrect`, `BroadcastsBounded`, `ResultsAreFinal`, `NoBroadcastForgotten`,
`FollowUpsDone` and, for documents whose outcome no error hid (`blurred`),
`FailedMeansNoEffect`. `QueueImplemented` is the refinement of
`TransactionQueue` under `executed <- Executed`, `followUp <- Stage`: the
initial states map to `QInit`, each action to one abstract step or a stutter.

**RegistrationProofs** (from `RegistrationAssumption`). `VerifiedByMail` and
`WalletOnFile` are not inductive, because a call writes the user several awaits
after the code was accepted or the wallet queued. `TaskOK` says what a task may
rely on at each await. It survives the steps of others (`OthersOK`), because
accepted codes, queued wallets and Wallet documents only become more, and no
other task touches the wallet of a user that is not created yet. From it follow
`VerifiedUsers`, `WalletsOnFile`, and `PasswordsByMail`, an action property for
which `TaskOK` also has to exclude that `Create` overwrites an existing user.

`ReferralsExist` and `BonusPerCode` bound a counter by a set, and a call changes
them in different steps. The proof adds to each counter the calls that are about
to increment it, so that a call moves from a set to the counter in one step:
`ReferralInv` has `referrals` plus the registrations in `Counting(r)` at most
the registrations that name `r` as referrer; `BonusInv` has `paid` plus the
calls in `Claims(u)` at most the accepted codes, because `Consume` makes one
claim out of one code. `Counted` joins the two and gives `ReferralsAreUsers` and
`BonusesPerCode`. `TypeCorrect` comes last: the bounds of its counters are those.
`CodesOK` also says that the one OTP document holds the code generated last, from
which the action property `NewestCodeOnly` follows.

**SubscriptionProofs** (from `SubscriptionAssumption`). `IInv` is `PaymentInv`
/\ `CreditInv`. `Receipts` orders transaction, page, charge and delivery and
says that a delivery past its first await has a COMPLETED transaction, which is
what `PlanPaidFor` needs when `Upgrade` finally sets the plan; `Ledger` counts
one point per finished CV call. From it follow `TypeCorrect` (with the bound on
the balance), `PlansArePaid` and `AcknowledgedMeansUpgraded`.

**CredentialWorkflowProofs** (from `WorkflowAssumption`, for every `IdShape`).
`IInv` is `TypeOK` /\ `QueueOK` /\ `CredOK` of every credential /\ `TaskOK` of
every task /\ `OneLink`; a task that was cut short does nothing further. `VerifiesExistingId` is not inductive: an id passes
from the receipt to the credential, from there to a task, and only then into a
verification. `QueueOK`, `CredOK` and `TaskOK` follow it along that way
(`OnChain(id, c)`). `VerifiedStays` counts issuances: `Concluded(c)` says that
one issuance of `c` was settled, credited and written, so that whatever still
writes ISSUED must come from another one; this needs `OneLink`, that no two
approvals are about to write the same transaction. The lemma `Frame` says once
what a step leaves true of everything it leaves alone.

`MintsBoundedByCalls` compares two sets that grow at different times. `MintInv`
bounds instead what is *owed* a mint, besides the mints themselves: a call that
has queued neither an issuance nor a mint, and an issuance whose event has not
been handled or whose handler is before its mint. A call adds one of these;
queueing an issuance or a mint exchanges one for another (`Charged`); nothing
else adds any, because a handler starts once, for an issuance that is COMPLETED
(`HandlersOK`). The corollary `OneCallOneMint` says when the documented promise
of section 6, `OneMintEach`, does hold. `UsesTheQueue` is the other side of
`QueueImplemented`: every step of the workflow is one of `TransactionQueue` or
leaves its variables alone, so what the relayer is proved to implement is all
the workflow relies on.

**BlockchainCredentialProofs** (from `IssuerAssumption`). `TaskOK` says what a
task has in hand between two awaits; `OneIssuer` that a document has one
issuing call, without which the transaction of one could overwrite that of
another; `Confirmed(c)` what a script that is about to write VERIFIED has seen
on chain, which stays true although the chain moves on.

**ChatProofs** (from `ChatAssumption` and `NoneAssumption`). The types come
first (`TInv`, with what a task has at hand), then one induction per property
on top of them: `OInv` (a task about to create has in `unseen` every chat of
its group), `MInv` (unless `torn`, at most one update is under way and its copy
of the map is the map) and `NInv` (names in `order` are distinct, two writers
never have the same message, and a transaction whose snapshot still holds has
inserted its message after the last one of the chat).

**WalletLoginProofs** (from `LoginAssumption`). `Carries` says that a request
about to give out a nonce has seen a counter that was not full and, if there
was one, with time left; hence the theorem `CounterExpires` and the bound on
the counter in `TypeOK`. `OneFirstLogin` rests on the unique index.

`NoncesBounded` proves `RateBound` for every `Max` and every `Window` of at
least `2 * Max` ticks (with 2 nonces in 3 ticks TLC finds it violated; the code's
constants are 4 in 60 seconds). The bound is about a span of time, the code
knows its counter only, so `RateInv` says there are two moments, `x` ticks ago
when the present counter started and `y` ticks ago when the one before did, with
at least `Window - Max` ticks between them, as each nonce shortens the life of a
counter by at most a tick. `Spread` bounds `recent` by these moments, `Stored`
and `Knows` relate them to the counter and to what a request has read of it.

The same module proves what the run `accounts` checks of `JobPosts`, for the
composition of the two: `PartsAlone` shows that a behaviour of `MCAccounts` is
one of each part, and `TypesCorrect`, `CascadeOfProfiles` and `PostsStayDeleted`
follow from the theorems of each part (from `NoneAssumption`).

**JobPostsProofs** (from `NoneApart`: `None` is neither a request nor a
document). `Cascade` needs two facts about running tasks: a creation admitted
before its organization was marked is `late`, and a post missing from the
snapshot of the transaction is one too.

**Only model-checked**: the liveness properties `EveryJobEnds`, `LoopReturns`,
`IssuedMovesOn`, `ChargeHonoured` and `LockoutEnds`, which are out of the
prover's reach. Every invariant and every action property of a passing run is a
theorem.

## 6. Where code and documentation disagree

With a run that shows it (each checks one property, which TLC finds violated):

* `OneMintEach`: a second approval is not refused, and overlapping with the
  event handler it queues a second NFT; `docs/API.md` documents an error.
* `NoStrandedIssue`: a receipt that is processed before the approval has stored
  the `transactionId` matches no credential, and the id is lost.
* `FreshCodeWorks`: a fresh one-time code is lost when anybody else is sent one
  (`NewestCodeOnly` is what holds); and as the document that is overwritten keeps
  its `expiresAt`, it may also expire at once, even with one user and address.
* `AdmittedWithPoints`: a FREE user with a negative balance is admitted.

Read off the code without a run (each is a finding in `PROJECT.json`, with the
line it contradicts):

* A talent credential is VERIFIED when its verification is queued; `flow.md`
  says on the receipt (`VerifiedWasQueued` is what holds).
* `updateCredential` writes after an upload without looking at the status again.
* The relayer never writes `credentials`, so that the endpoints that
  `flow.md` describes stop at PENDING_BLOCKCHAIN unless a script is run.
* `fix-verification-status.js` takes a local id for a proof of issuance, and
  `verifyCredential` then queues a verification of an id the contract does not
  know.
* `verifyCredential` passes 1 for VERIFIED; `reconcile-verifications.js` reads
  the same contract with 1 for ISSUED.
* A message to a recipient goes to any chat of either user.
* More than `nonceRateLimitMax` nonces fit into a minute.
* `restoreDeleted` never finds a deleted document.
* A bytes32 id is parsed to 0, which counts as none; the fallback for ids that
  are no number is not reached.
* A code lives about twenty minutes; `premiumPoint` and `totalJobPosts` are
  fields no schema has; the relayer's branch for `receipt.status === 0` is not
  reached.

Noticed on the way, contradicting no document: the unique index on `email` is
not sparse, so that only one wallet user without an email can exist (`taken`);
`JwtStrategy` asks for `emailVerified`, which such a user never has;
`activeJobPost` is incremented but is not a field of the schema; an
administrator who removes an organization leaves its posts (`AdminUser`); a
message becomes READ also when its own sender reads it (`Receipt`); two
overlapping toggles of a post cancel one of each other (`Save`).

## 7. Not modelled

* NFT and blockchain endpoints: one call of `queueTransaction` each.
* Profile updates and settings: single-document reads and updates; settings are
  read, merged and written by one administrator. The body of `PATCH
  /users/profile` is a union of DTOs, from which the validation pipe strips
  nothing, so that it may also write `plan`, `emailVerified` or `email`:
  `PlanPaidFor` and `VerifiedByMail` hold of the modelled operations, apart from
  that endpoint.
* Codes requested by phone, and the types of code no other endpoint asks for.
  `createOTP` puts a code requested by phone into whichever document there is
  and leaves its address, so that the properties of Registration are about codes
  requested by e-mail.
* Waitlist: find-then-create of an address. VPay: no code path reaches it.
* Mail and templates, PDF, QR codes, IPFS: I/O; that a call may fail is part of
  every module that makes one.
* Repository, cache and interceptors: generic wrappers, whose effect appears in
  the operations that use them.
* Configuration and start-up: wiring. Static data (more than half of the lines
  of `src/`) and the DTOs have no state.
* A second server process. `isProcessing` is a field of the process; with two
  relayers over one collection both take up the same document and no bound on
  broadcasts holds, so that there is nothing to state but that.
* Inside modelled parts: gas, paymaster and ABI encoding (Relayer); the content
  of a credential and with it editing and deletion, the removal of its user
  (without whom the handler ends silently), whose only property would
  repeat the guard on PENDING; wording of mails and reminders (credentials);
  `deployAccountOnChain`; passwords in use, profile fields (Registration);
  prices, currencies and CV drafts (Subscription); the balance that a
  verification sets (Registration and Subscription each have half of it); the
  nonce, which the login looks up and deletes but compares with nothing, login
  by password or Google (WalletLogin); which socket is told of what (Chat).

## 8. Plan

Done, in order of importance: `TransactionQueue` and `Relayer`;
`CredentialWorkflow` on top of the queue; `Registration`; `Subscription`;
`BlockchainCredential`; `Chat`; `WalletLogin` and `JobPosts`; proofs about every
one of them.

Worth doing next:

1. `BlockchainCredential` over `TransactionQueue`, as `CredentialWorkflow` is,
   instead of its own `Execute`.
2. The balance of a user from registration to CV, which is set by a
   verification and incremented by a referral (hazard `auth.service.ts:230`).

## 9. Running

    tlc -workers 2 -config MCRelayer.cfg MCRelayer
    tlapm RelayerProofs.tla

and likewise for each row of section 3 (the cfg of a run is named in
`PROJECT.json`). The longest runs, `workflow` and `subscription`,
take two to three minutes; each proof module takes at most about one.
