# A formal model of the BMail contact server

The contact server maps BMail addresses (accounts) to e-mail addresses and back. It is a Go
HTTP service (`service/`) on one of three interchangeable databases (`db/db_firestore`,
`db/db_leveldb`, `db/db_redis`) and a wallet (`wallet/`) that signs activation links. This
directory holds TLA+ modules translated from that source, the TLC configurations that check
them and TLAPS proofs about them.

## 1. Inventory

### Components, state and operations

| Component | State | Operations | Correct when |
|---|---|---|---|
| HTTP handlers `service/http_srv.go` | none of their own between requests; locals of a handler between two database calls | AccountActive, BindAccount (and the mail goroutine of sendBindConfirmMail), UnbindAccount, ActiveByEmail, ActiveVerify, UninstallByUser; on the debug port updateUserLevel, deleteUser and queries | replies are true, an e-mail changes hands only by a confirmed link, limits hold, a link is spent only when done |
| User levels `service/user_level.go` | constants | checkRightsOfAction (checkRightsOfAccount has no caller) | no account exceeds the number of e-mails of its level; an inactive one binds nothing |
| Database interface `service/cfg.go`, `common/db_obj.go` | records BMailAccount, EmailReflect, ActiveLinkData | the twelve methods of DatabaseI | each method is a step of the contact book (below) |
| Firestore backend `db/db_firestore` | three collections: accounts, reflects (e-mail to address), activation links | all of DatabaseI, as sequences of single-document requests without a transaction | list and mapping agree, as far as the order of the writes allows |
| LevelDB backend `db/db_leveldb` | key-value store and a table of mutexes | getLock, releaseLock; DatabaseI under locks, some methods panic or do nothing | locks exclude, do not deadlock, do not leak |
| Redis backend `db/db_redis` | hashes of accounts, strings of mappings | DatabaseI as sequences of commands | the methods agree on what is stored |
| Links and mail `wallet/wallet_inst.go`, `db_firestore/active.go` | stored links, mailboxes | SendActiveMail, VerifyActivationLink, Create/Get/RemoveActiveLink | nobody is mailed a link that is not stored; links expire |
| Wallet `wallet/` | the wallet file, one key | ParseWallet, OpenWallet, signing and verifying, EncryptData, DecryptData, DecryptAdminAesKey | a wallet opens with its password only; signatures and boxes open for those they are for |
| Curve `wallet/edwards25519`, `wallet/edCurve.go` | - | field, point and scalar arithmetic, conversion of keys | they compute what their names say, for every representation of their inputs |
| Requests `service/http_io.go`, `proto/proto_ex.go` | - | decoding, signature, routes, replies | a handler runs only for what its caller signed, but for those of links and GET /uninstall_user; success is answered only for success |
| Process `main.go`, `config.go` | the configuration, the opened database, the key | start, end on a signal or a panic | what is served has a database and a wallet behind it; nothing that is stored depends on a goroutine that is gone |
| Database tool `db/db_tool` | - | one request to the debug port | it reports what happened |

Handlers call the database synchronously. Every request has a goroutine of its own, and
`go func()` starts another for a mail. Goroutines share nothing but the database (and, on
LevelDB, the lock table). Nothing in the process coordinates two requests.

### What is hard

* **Interleaving and atomicity.** A Firestore method is up to six requests, each atomic on its
  own. A whole document is read, changed in memory and written back, so writes get lost, deleted
  accounts come back and lists get wiped. The limit is checked in one call and used in another.
* **Failure.** Any request may fail or time out, a write that is reported as failed may have
  happened, and the process may end between any two requests. There is no recovery: what is
  left is what the next call finds, so the order of the writes decides what a retry can repair.
* **Ordering.** The link is stored before it is mailed and removed after the binding; the answer
  to BindAccount precedes both.
* **Locks.** LevelDB's releaseLock deletes the mutex of a key while others wait for it, and its
  UpdateBinding asks for the lock of a second account while it has that of the first.
* **Panics.** Methods that a backend does not support panic. In a handler that is an error reply;
  in the goroutine that mails a confirmation it is the end of the process.
* **Encodings.** Redis stores a mapping as one thing and reads it as another; LevelDB and Redis
  never fill the map that DecryptByAdmin looks at.
* **Arithmetic.** Field elements have many representations, limbs grow between two carries, and
  1800 unrolled lines carry and fold them; a wrong limb shows for one input in 2^25.
* **Numbers.** A level is an int32 on the wire, an int8 in the database and a uint8 in the check.

`PROJECT.json` lists the hazards line by line with the properties that watch them.

## 2. Modules and how they correspond to the code

| Module | Code | Content |
|---|---|---|
| `KeyedLock` | `db_leveldb/leveldb.go` | sync.Map and sync.Mutex calls of getLock and releaseLock, one action per library call |
| `ContactData` | `common/db_obj.go`, `service/user_level.go` | records, levels, limits, the integer conversions, `HasRight` |
| `DatabaseCalls` | `service/cfg.go` | the calls of DatabaseI: `op[t]` is the call goroutine `t` is in |
| `FirestoreStore` | `db_firestore/*.go` | the collections and one action per request of each method |
| `FirestoreClients` | - | FirestoreStore under arbitrary concurrent callers |
| `LevelDBStore` | `db_leveldb/*.go` | the key-value store, the methods access by access, and `KeyedLock` under them (INSTANCE) |
| `LevelDBClients` | - | LevelDBStore under arbitrary concurrent callers of its mutators, and of QueryReflectByOneEmail |
| `LevelDBMoves` | - | LevelDBStore under moves, account queries and array queries only: who waits for whom |
| `ContactBook` | - | abstract specification: each mutator in one step, and what a failed one may leave |
| `FirestoreSequential` | - | FirestoreStore under one caller at a time, which implements `ContactBook` |
| `RedisStore` | `db_redis/*.go` | the hashes and strings and one action per command of each method |
| `RedisClients` | - | RedisStore under arbitrary concurrent callers of its mutators (but UninstallByUser, which does nothing there) |
| `ContactService` | `service/http_srv.go`, `wallet/wallet_inst.go` | all handlers, database call by database call, with mails and links, and what a deployment is |
| `ContactServer` | `service/cfg.go` | the handlers composed with the backend of the deployment: Firestore, LevelDB with its locks, Redis, or none |
| `FieldElement` | `edwards25519.go` to FeSquare2 | field elements as limbs, in loops over the number of limbs |
| `EdwardsCurve` | `edwards25519.go`, group elements | points, slide, both scalar multiplications, over any field operations |
| `Scalars` | `edwards25519.go`, Sc functions and powers | ScMulAdd, ScReduce, ScMinimal; the exponents of FeInvert and fePow22523 |
| `SmallCurve` | `edCurve.go`, `const.go` | EdwardsCurve over a small prime, its tables, the affine law, keys of the Montgomery form, SharedKey |
| `LimbBounds` | comments and int32 products of `edwards25519.go` | EdwardsCurve over bounds on limbs, at the real widths |
| `MailWallet` | `wallet.go`, `crypto.go`, `wallet_inst.go` | wallet files, signatures, shared keys, boxes and links over ideal cryptography |
| `WalletCalls` | - | calls of MailWallet and their results; what each must return |
| `Computations` | - | the same for the arithmetic; joins WalletCalls |
| `RequestGate` | `main.go`, `config.go`, `http_srv.go`, `http_io.go`, `dbtool.go` | the start of the process, and a request's way to its handler and back |
| `MC*` | - | instances for TLC: symmetry sets, deployments, installations and sample values |
| `KeyedLockProofs` | - | proofs about the locks |
| `FirestoreTyping` | - | lemmas about the Firestore methods, whoever calls them |
| `FirestoreProofs`, `FirestoreRefinement` | - | proofs about FirestoreClients and FirestoreSequential |
| `RedisProofs` | - | proofs about RedisClients |
| `LevelDBProofs` | - | proofs about LevelDBClients and LevelDBMoves; takes in KeyedLockProofs (INSTANCE) for the latter |
| `ContactServerProofs` | - | proofs about ContactServer; takes in FirestoreProofs, LevelDBProofs and RedisProofs (INSTANCE) |
| `FoundationsProofs` | - | proofs about RequestGate and WalletCalls |

**State.** `account[a]` is the document of address `a` in `bmail-account`: whether it is there,
the level and the set of keys of the e-mail map. `reflect[e]` is the address stored for e-mail
`e` in `email-reflect` or `NoAddress`. `link[k]` is the document of token `k` in `active-link`.
`op[t]` has the method, its arguments, its result, its place and its locals: `doc`, the account
document that is in memory between a Get and a Set (the reason of lost updates); `owner`, the
address read from a mapping; `todo`, the mappings that a loop has still to delete. `req[t]` is
the same for a handler: where it waits, its parameters and its reply.

**Actions.** One action is one request to Firestore together with the code up to the next
request: `UpdateBindingGet`, `SaveAccount` (the Set at the end of databaseToObj, shared by its
callers and by two methods that inline it), `UpdateBindingGetReflect`, and so on. `RequestFails`
makes the running request fail, with or without the effect of a write. `ProcessExit` drops every
goroutine. A handler step is what the handler does between two database calls.

**LevelDB.** An action is one call of sync.Map or sync.Mutex (`AskLock`, `TakeLock`, `Unlock`,
`DropOuter`, `DropInner`) or one Get, Put or Delete with the code up to the next of either. Each
goroutine is two holders of `KeyedLock`: its outer lock (the account or e-mail of the method) and
the inner one (the e-mail, then the old account of UpdateBinding). An access that fails has no
effect, and the deferred releases run. UninstallByUser and RemoveActiveLink return nil and do
nothing (account.go:169, leveldb.go:86); DeleteAccount and the other link methods panic, which
ends the call.

**Redis.** An action is one command. `noList` marks hashes that an HSET of the level made without
a list. A mapping is the bare address, which no query can parse. EXISTS, GET, HGET and the writes
are separate commands, and `CommandFails` loses one or carries it out and reports an error.

**Deployments.** `conf` says which database a process has, how many goroutines, addresses and
e-mails there are and which handlers are called. It never changes; a run's `Deployments` are its
initial states. So one module, one set of variables and one set of properties covers all
databases, and `DatabaseStep` is the interface variable of cfg.go: for an unknown type it is nil
and every call panics. A panic in a request is an error reply (`ReplyResult`); one of
CreateActiveLink in the goroutine of sendBindConfirmMail ends the process (`Crash`).

**Pure functions.** In `WalletCalls` and `Computations` an initial state is a call with its arguments, its one step
stores the result, and an invariant compares the result with a reference definition: integers
modulo p (`Residue`, `Times`), the affine addition law (`Plus`, `Scaled`), plain `%`. The unrolled
statements of the code are written as the loops that they unroll, over parameters: the real
values are 10 limbs of 26 and 25 bits with Fold 19 and bytes of 8 bits; 12 limbs of 21 bits
folded by 666643, 470296, 654183, -997805, 136657, -683901. The chains of FeInvert and fePow22523
are computed at their real size, on sets of exponent bits.

**Start and requests.** `place` is where the process runs: its files, whether the database opens,
whether the ports are free. A step is one of the parts of mainRun that can panic. A request
carries what its handler will do if it runs (`outcome`), since that is ContactService's part.

**Abstractions.** Strings are model values. In ContactService signatures are good exactly for stored data (they
are computed over the stored record; MailWallet shows what Verify accepts). License, subject and body are left out. A mail is
delivered or lost. A link's age is young or expired. Requests that fail before the first
database call change nothing; they are the subject of RequestGate. Ciphers, boxes and signatures
are records of what is in them and of the key; SHA-512, X25519, AES-CFB, secretbox and Go's
ed25519 are external. Scalars are integers, not bytes. Values that do not parse in the database are
not considered: nothing writes any.

**Ghost variables.** `asked` (pairs somebody asked to bind), `alone` (calls that overlapped no
other call) in FirestoreClients, and `before` (the collections when the call began) in
FirestoreSequential, `seen` (the mappings there were during a query) in ContactServer, and `alone` and `crowded` (locks whose holder was not the only one of its
key) in LevelDBClients are history; no guard of the code's actions reads them.

## 3. Runs

| Run | Instance | Shows |
|---|---|---|
| `locks` | 3 goroutines, 2 keys, 5 mutexes | an unlock never finds its mutex taken or free (`OwnerIsHolder`), the table does not leak (`EntryHasUser`), only another goroutine's release orphans a mutex (`OnlyReleaseOrphans`), two inside means an orphan (`ExclusionUntilOrphaned`), and two that wait for one mutex asked for one key (`OneKeyPerMutex`) |
| `locks_exclusion` | 2 goroutines, 1 key | **violated**: `MutualExclusion` |
| `clients` | 2 addresses, 1 e-mail, 2 goroutines | races and failures forge nothing (`Provenance`); a bind or unbind that nothing overlaps repairs what it is about (`AloneBindHeals`, `AloneUnbindClears`); without overlap only the unbinding methods leave dangling mappings (`OnlyUnbindDangles`) and only activation creates accounts (`OnlyActivationCreates`) |
| `sequential` | 2 addresses, 2 e-mails, 1 goroutine | `ImplementsBook`, the refinement, and that a success is reported only for the whole of a call; `BookStaysConsistent`: lists and mappings agree except after a failure or when an account unbinds an e-mail of another |
| `leveldb` | 2 addresses, 1 e-mail, 2 goroutines, 4 mutexes | inside the lock of its account, a method's copy of the document stays current unless an orphaned mutex let a second one in (`NoLostUpdate`); `AloneBindHeals`, `AloneUnbindClears` as on Firestore |
| `leveldb_moves` | 2 addresses, 1 e-mail, 2 goroutines, 6 mutexes, no failures | two goroutines wait for each other only when they move e-mails in opposite directions (`OnlyCrossMovesBlock`); a call returns, or goroutines wait for one another in a circle for ever (`CallsReturn`) |
| `redis` | 2 addresses, 1 e-mail, 2 goroutines | as `clients`, on Redis: `Provenance`, `AloneBindHeals`; `AloneUnbindClears` for an unbinding that finds its mapping; which calls leave entries without mappings (`OnlyDeletionsOrphan`) and mappings without entries (`OnlyActivationOrBindDangles`), make accounts (`OnlyActivationCreates`) and hashes that cannot be deleted (`OnlyRacesUndeletable`) |
| `server` | nine deployments, see below | `ReplyTruth`, what BindAccount, UnbindAccount and UninstallByUser may claim; `AnswersSeen`, a query answers what was so while it ran; `OnlyTakeoverCrashes`, one request on one database can end the process; `QuotaKept`; `TakeoverNeedsConfirm`; `LinkSpentOnlyWhenBound`; `MailedLinkStored` |
| `foundations` | see below | `FieldRight`, `CurveRight`, `ScalarsRight`: the arithmetic is right and no limb leaves its int32; `WalletRight`: wallets, links, mail keys and texts open for those they are for and nobody else; `GateRight`: what is served has a database and a wallet, a handler runs for signed requests only, with the exception of the public pages, opened links and GET /uninstall_user, and success is reported exactly for success |
| `quota_race` | 1 address, 3 e-mails, 2 goroutines | **violated**: `QuotaKept` |
| `inactive` | 1 address, 1 e-mail, level 0 | **violated**: `InactiveRefused` |
| `unbind_link` | 1 address, 1 e-mail, 1 token | **violated**: `UnbindLinkBindsNothing` |

Deadlock is checked in every run but `leveldb_moves` and `foundations` (where a call that has
returned is the end), and there is none. In `leveldb_moves` the process neither fails nor ends, and the two opposite moves of account.go:110 do stop it: each has
its own account and waits for the other's. In the program every later call for one of the two
accounts then waits as well, until a restart.

### Bounds and why they are enough

* *Two goroutines* in `clients`: each property there is about one call and whatever overlaps it;
  a second goroutine overlaps every step of it with every mutator. *Two addresses* are the two
  accounts one bind touches. *One e-mail*: the documents of different e-mails only meet in the
  account's list, which `sequential` covers with two e-mails.
* *Three goroutines* on the locks: one that releases, one that waits on the old mutex, one that
  stores the new one. *Five mutexes* are holders and keys together, so an allocation never fails.
* *Four mutexes* on LevelDB: each of two goroutines has two at most. *Two goroutines* are the
  smallest circle of waiting; longer circles of moves exist in the same way and are not checked.
  `leveldb_moves` starts on two active accounts. *One e-mail* is enough for the circle: UpdateBinding
  releases its lock before it asks for that of the previous owner, so two goroutines that bind it to
  two accounts meet there. Moves of different e-mails are covered by the proof of
  `OnlyCrossMovesBlock` and not by `CallsReturn`. *Six mutexes* in that run are two for each key, the
  goroutines that can have one of it. Of those that are free one is allocated, whichever it is:
  nothing depends on which, and symmetry would be unsound with liveness.
* *Nine deployments* in `server` (MCContactServer): on Firestore links and takeovers (2 addresses,
  1 e-mail), the limit of a free user and odd levels (3 e-mails), the limit of a normal VIP (5
  e-mails), DecryptByAdmin (2 e-mails), an array query while another goroutine binds (2
  goroutines, 2 e-mails); every handler on LevelDB, on Redis and on no database (2 addresses, 1
  e-mail), and array queries on LevelDB. Each has one actor more, or one e-mail more, than its
  property needs to fail. The limit of 8 of a plus VIP is not reached. Level 257 becomes 1, level
  200 becomes -56 in int8 and 200 in uint8, which is no level at all. A goroutine on LevelDB has
  two mutexes at most.
* *Field elements*: 6 limbs of 5 and 4 bits with Fold 3 and bytes of 4 bits, the modulus 2^27 - 3,
  keep both parities, the wrap from the last limb, both chains of the carry order and limbs
  that straddle bytes. Limbs are samples from -35 to 31 with all signs and both ends of what
  FeToBytes takes; bytes are 0, 1 and 15.
* *The curve*: the prime 61 (5 modulo 8, as 2^255 - 19 is), d = 2, base point (3, 8) of order 56,
  scalars of 16 bits: all points with all points, all 128 encodings, and scalars around every
  digit boundary. A table of 2 x 8 points has all that 32 x 8 have.
* *Scalars*: 4 limbs of 3 bits folded by (1, -2), the order 4111: more folding factors are more
  terms of the same sum. Both signs of a factor, all carries and the last fold occur.
* *Limb bounds* are those of the code: 1.1 times 2^25 out of FeCombine, 2^26 out of FeToBytes,
  which makes its argument canonical in place, and 2^31 for 19 times a limb. FeIsNegative goes
  through FeToBytes, so a point read by FromBytes has an X with the larger limbs. The formulas are
  computed for such points (`Decoded`, of either sign) and for points whose coordinates are products.
* *Wallet*: two seeds, two passwords, two texts: one that fits and one that does not. Files,
  mails, links and addresses are damaged in every place that the code looks at.
* *One token*: the second confirmation finds no token and takes the branch of a creation that
  fails. Links can be opened any number of times, before and after their expiry.

With two goroutines in the service, `TakeoverNeedsConfirm` does not hold: two accounts that bind
one free e-mail both read "no owner" (http_srv.go:296), and the later UpdateBinding takes the
e-mail from the earlier. `ReplyTruth`, `TakeoverNeedsConfirm` and `LinkSpentOnlyWhenBound` are
therefore stated of processes with one goroutine. Nor does a true BindAccount reply mean that the
account lists the e-mail: the mapping that makes a request a duplicate (http_srv.go:308) may be
what an interrupted unbind left, so `ReplyTruth` speaks of the mapping only.

### What the code does that a reader may not expect

The runs pass with these, and their properties say exactly how far they go.

* On LevelDB a BindAccount for an e-mail of somebody else ends the process (`OnlyTakeoverCrashes`);
  on LevelDB and Redis links cannot be created and UninstallByUser answers success for nothing.
* On Redis every query of a bound e-mail fails, an array query answers nothing, a second
  activation empties the list, and an unbinding that stopped half way is not finished by a retry.
* DecryptByAdmin refuses everybody on LevelDB and Redis, where MailStoreObj is never filled.
* EncryptData calls DecryptByKey and DecryptData calls EncryptByKey (wallet.go:177, 203).
* A second OpenWallet returns true after the first has refused the address (wallet.go:161).
* The X and T of a doubling exceed the limbs that FeMul's comment allows; the products still fit.
* GET /uninstall_user empties the account named in the query, whoever asks (http_srv.go:187, 490).
* The option check_signature is read by functions without callers only: callFunc always verifies.

### What the violations say

* `releaseLock` unlocks and then deletes the entry of its key. Whoever waits gets the mutex, the
  entry is gone, and the next getLock stores a new mutex: two goroutines are inside.
* Two BindAccount requests of one account check the limit before either binds.
* `case UserLevelInActive:` is empty. Go leaves the switch there and returns nil; the refusal in
  the `default:` clause is for unknown levels only.
* ActiveVerify binds for every link, those created with `IsUnbind` too.

### Fairness

Only `CallsReturn` needs any: `Scheduling` is weak fairness of the steps of each goroutine's own
call. That is what the Go scheduler gives: a goroutine that can go on does, and one in Lock
can go on only while its mutex is free. Nobody is obliged to call a method.

No section of a lock is assumed to end. UpdateBinding keeps the lock of its account while it waits
for those of the e-mail and of the previous owner (account.go:102, 110), so a section ends only if
other sections do, and two opposite moves wait for each other for ever. `CallsReturn` says that this is the
only thing that keeps a call from returning: a call returns, or some goroutines stand in a circle
(`Circle`) for good. A third goroutine that then asks for one of their keys waits
for ever as well, and the property says no more of it than that there is a circle.

The fairness of sync.Mutex to its waiters (its starvation mode) is not needed. A mutex whose
holder releases it leaves the table, so only goroutines that had it already compete for it. Each
of them takes it at most once for one getLock, and later calls get another mutex.

## 4. Proofs

For every value of the constants, so for any number of goroutines, accounts, e-mails and mutexes:

| Theorem | Statement |
|---|---|
| `KeyedLockProofs!MutexOfOneKey`, `UnlockLegal`, `NoLeak`, `ExclusionHoldsUntilOrphaned`, `ReleasesOrphan` | every property of `locks` |
| `FirestoreProofs!TypeCorrect`, `NothingForged`, `BindHeals`, `UnbindClears`, `UnbindDangles`, `ActivationCreates` | every property of `clients` |
| `FirestoreRefinement!BookImplemented`, `SuccessWhole`, `Refinement`, `ConsistencyKept` | every property of `sequential`: the refinement and what it keeps |
| `RedisProofs!TypeCorrect`, `NothingForged`, `BindHeals`, `UnbindClears`, `DeletionsOrphan`, `ActivationOrBindDangles`, `ActivationCreates`, `RacesUndeletable` | every property of `redis` |
| `LevelDBProofs!TypeCorrect`, `NoUpdateLost`, `BindHeals`, `UnbindClears` | every property of `leveldb` |
| `LevelDBProofs!CrossMovesBlock` | `OnlyCrossMovesBlock` of `leveldb_moves` |
| `ContactServerProofs!ServerInv` | the handlers, their calls, the tokens and the backend in use fit together |
| `ContactServerProofs!ServerTyped`, `RepliesTrue`, `QueriesTrue`, `TakeoverCrashes`, `QuotaHolds`, `TakeoversConfirmed`, `SpentLinksBound`, `MailedLinks` | every property of `server`, on every database |
| `FoundationsProofs!GateHolds` | `GateRight` of `foundations`, in every installation |
| `FoundationsProofs!WalletHolds` | `WalletRight` of `foundations`, for any seeds, passwords and texts |

Assumptions: sentinels differ from real values (`SentinelAssumption` and both `LockAssumption`s of
the locks, `NoAddressAssumption`), callers pass levels that fit an int8 (`LevelAssumption`), and a
deployment's database type and levels are integers, its handlers are handlers and there are as many
goroutines as it asks for (`DeploymentsAssumption`). In ContactServer the levels are any integers,
since the handlers of the code do not check them. Nothing is assumed finite. Failures of every request,
command or access, and restarts at any moment, are in all of these except `CrossMovesBlock`, whose
process neither fails nor ends. `QuotaHolds` is `Spec /\ OneAtATime => QuotaKept`, of processes with
one goroutine: with two `QuotaKept` is what `quota_race` violates. `RepliesTrue`, `TakeoversConfirmed`
and `SpentLinksBound` have OneAtATime in their properties; the other theorems are of any number of
goroutines.

*Locks.* The invariant is types, `HasMutex` (a goroutine has a mutex and a key exactly between
LoadOrStore and Delete), `OwnerIsHolder` and `EntryHasUser`. HasMutex makes the fresh mutex of LoadOrStore
one that nobody owns; that is what a new entry needs. ExclusionUntilOrphaned then follows: two
holders whose mutexes are both the entry of the key have the same mutex, which has one owner.
`OneKey` adds that the table never has one mutex under two keys, and `OneKeyPerMutex` is a part of it.

*Types and provenance.* TypeOK says too little of a call in flight: `setReflect` writes
`op[t].addr`, which must be an address by then. `GoodCall` adds, place by place, which arguments
and locals are set. A step changes one record, so every case reduces to "the new record is good".
A document travels through memory, so `Sourced` says that what a call is about to write has been
asked for: the document of a pending write, and the pair of a running UpdateBinding.

*A call alone.* The properties of calls that nothing overlaps need to know, at each place, what
the call's locals and the stored data have in common (`Knows`): that the document in memory is
the stored one with the change made, that the e-mail is mapped already, that the previous account
is clean. `OnlyOne` keeps this true: while such a call runs no other does, so every step is its own.
`FoundOnly` says that an account that is not there lists nothing. These hold from any state that
earlier races and failures can leave, since Knows says nothing of the time before the call. The
action properties (`OnlyUnbindDangles`, `OnlyActivationCreates`, and on Redis `OnlyDeletionsOrphan`
and the others) are read off the same invariant, one kind of step after the other.

*The refinement.* While a call runs the book is what the call found (`before`), and it changes
to the collections when the call ends. `SInv` says at most one call runs and, place by place, how
far it has got: which account is changed how, and which mappings are gone (`Traced`). A step that
does not end the call leaves the book alone. A step that does is one step of the book: the whole of
the method, or what its failure leaves; it is the whole when the result is "ok" (`SuccessWhole`).
`ConsistencyKept` is a fact about books in which accounts that are not there list nothing
(`KnownList`, an invariant as well), carried over.

*LevelDB.* `Locked` ties the place of a call to the places of its two locks and to the keys they
are for, so who writes an account is inside of a lock of its key. A document in memory can then
differ from the stored one only if a second goroutine has been inside for the same key, which is
what `crowded` records (`Shared \subseteq crowded`); `NoLostUpdate` is a conjunct of the invariant.
When that can happen is `ExclusionHoldsUntilOrphaned`: only after releaseLock has orphaned a mutex.

*Circles of waiting.* `LevelDBProofs` has the lock table as an instance of KeyedLockProofs:
each step of the backend is a step of the table or leaves it alone, so its invariant and `OneKey`
hold. `Placed` says where the two locks of each call are. A call that waits for another that
waits for it is then inside of its outer lock and waits for its inner one, and by `OneKey` it waits
for the key of the other's account: both are at removeEmailFromAccount, each for the other's account.

*The server.* `Inv` has three parts. `Service`: each handler is at one of its places, and in the
call that it makes there with the arguments it makes it with (`Waits`, `Serves`). `Tokens`: no two
requests have one token, and a token in an inbox was issued. `Database`: the invariant of the backend in
use, or that of none. The proofs about the backends are instantiated for it (`FP`, `LP`, `RP`), with their
ghost `alone` replaced by `Alone`, the goroutine of a process that has just one: a handler's call
satisfies what those proofs ask of a call that begins, so their lemmas about steps carry over, and
only the calls that their clients do not make (queries, links) are added. `Turns` says once what a step
of a handler does to its request and its call, and from which place it comes (`Goes`); everything after
it reads Goes and never the handlers. Each property then has a conjunct of its own:

* `LinkHeld`: once CreateActiveLink has returned "ok" its link stays stored until it is mailed, because
  RemoveActiveLink is only called with tokens from an inbox, and this one is in none yet.
* `SeenHeld`: what a query has read so far is in `seen`, and what an array query still has to read or
  has answered covers its array.
* `TakeoverHeld`: what a handler at CreateActiveLink knows of the owner it has read.
* `ReplyHeld`: what a goroutine that is alone knows when its call has returned "ok" (`Known`) holds in
  the stored data as long as it serves that request, since nobody else writes.
* `BindHeld`: the account has the right to one more e-mail from the check to the binding, the e-mail of
  a BindAccount is free or its own until then, a running ActiveVerify has the link as it is stored, and
  what RemoveActiveLink follows is a binding that is there (`Entitled`); the lists are finite
  (`Finite`), so that one more e-mail is one more. `AloneWrites` of each backend adds that only
  UpdateBinding lists or maps anything, and only its own e-mail for its own address.

*The gate and the wallet.* MCFoundations runs both beside the arithmetic; `GateSpec` (in which, as there,
`place` never changes) and `WalletSpec` are their parts of it, and both theorems are of all values of
`Installations`, `Seed`, `Password` and `Payload`, with no assumption. `Underway` says what a process has
by how far it has got: a wallet that has opened is that of its key (`ParsedFits`), and debug requests
are served only from then on. `Answered` is the claim about the last request; a request that got past
the checks was signed (`AdmittedSigned`), and each form of reply tells success (`PlainAnswered`,
`ToolAnswered` and the others). The wallet rests on one fact: a seed comes out of a file only if Cipher
put it in with that password (`CipherOpened`, `SeedKept`), for every file that is edited in a place
that the code looks at. The files and mails that WalletRight is about are those of `WalletFile` and `Damaged`.

What stays with TLC: liveness (`CallsReturn`), which TLAPS cannot prove under fairness; and the
arithmetic of `foundations` (`FieldRight`, `CurveRight`, `ScalarsRight`), results of recursive
definitions over data that need induction over it. The runs that expect a violation have nothing to prove.

## 5. Not modelled

Generated protobuf code; logging, error texts, the version and the test client; the wording of
pages and mails; the pid file and the flags; the contents of the configuration beyond which
sections there are; readLocalAll of the database tool, which prints a local database; functions
without a caller (checkRightsOfAccount, uniqueCombine, updateEmailReflect, KeepAlive of Redis,
VerifyReq and VerifySig). `Redis` that loses what it acknowledged, and LevelDB's files after a power failure,
are outside this code.

## 6. Plan

The components are modelled, and all but the arithmetic are proved about. What is left:

1. What two goroutines can still rely on: how far `ReplyTruth`, `TakeoverNeedsConfirm` and `QuotaKept`
   hold when requests overlap (for instance, by how many an account can exceed its limit).
2. The limbs of FeCombine: from products of bounded limbs to the bounds that LimbBounds starts from.
3. Liveness of links: a link that is opened again and again is spent, refused or expired.
