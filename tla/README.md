# Verification of the Rainbow Bridge (Ethereum - Tezos)

TLA+ models of the bridge's contracts, services and commands, the TLC runs that
check them on small instances, and TLAPS proofs for every instance. `PROJECT.json`
lists the runs, says which lines each definition models, and names for every
property a change of the code that would break it.

Paths below leave out `src/`; `TBL` is `node_modules/tez-bridge-lib`, `TTC` is
`node_modules/tezbridge-token-connector`. Both packages are part of the
repository and hold most of its own code; the remaining `node_modules`, `.yarn`,
`vendor` and `data` are third-party or generated.

## 1. The system

The bridge is a pair of light clients, the processes that feed them, and the
contracts and commands that move tokens on the strength of what they show.

    Tezos --Tezos2EthRelay--> TezosBridge (Ethereum) <--challenge-- Watchdog
                                  | blockHashes, merkle roots
                              NearProver --> ERC20Locker / BridgeTokenFactory (Ethereum)

    Ethereum --Eth2TezosRelay--> EthClientOnTezos (SmartPy) / EthClient (Rust)
                                  | block_hash_safe
                              EthProver --> factory and tokens (Tezos), FA2TezToken

| Component | State | Operations | What is hard | What makes it correct |
|---|---|---|---|---|
| TezosBridge, `TBL/contracts/eth/nearbridge/contracts/NearBridge.sol` | trusted head and hashes, pending block with approvals, three producer lists, bonds, end of the challenge window | deposit, withdraw, challenge, initWithValidators, initWithBlock, addLightClientBlock, views | blocks are taken unverified and become trusted by the clock; replacement, challenge and withdrawal race; commit happens inside the next submission | the pending block is always backed by a bond and a quorum; the trusted chain only grows; producers are those of the epoch; honest submitters keep their bond |
| Watchdog, `TBL/watchdog/index.js` | loop counter | poll, check signatures one call at a time, challenge | the block changes between calls; errors cost time | no wrong block outlives its window |
| Tezos2EthRelay, `TBL/tezos2eth-relay/index.js` | what it has read | initialise, read state, hash and next block, deposit, submit | reads are separate calls; reverted submissions | works from a trusted block; catches up |
| NearProver, `TBL/contracts/eth/nearprover` | none | proveOutcome | three merkle paths | a path proves inclusion |
| EthClient, `TBL/contracts/near/eth-client/src/lib.rs` | headers, total difficulty, canonical hashes, all hashes by height | init, add_block_header, views | fork switches to shorter branches, ties, two garbage collections | canonical hashes are the heaviest branch; safe hashes are buried |
| EthProver, `TBL/contracts/near/eth-prover/src/lib.rs` | none | verify_log_entry, on_block_hash, verify_trie_proof | asks another contract by a promise | confirms only safe, included logs |
| EthClientOnTezos, `TBL/contracts/tezos/EthClientOnTezos.py` | last header, hashes by height | add_block_header | no fork choice | its headers form a chain |
| Eth2TezosRelay, `lib/eth2tezos-relay.js` | what it has read, operations under way | compare heights, fetch, inject | does not wait for its operations; reorganisations | the client follows Ethereum |
| transfer-eth-erc20-to-tezos, `TBL/transfer-eth-erc20/to-tezos.js` | stage, log file | mint, approve, lock, find proof, wait, mint on Tezos | may end between a transaction and its record | locks once, mints once, finishes |
| transfer-eth-erc20-from-tezos, `from-tezos.js` | stage, log file | withdraw, find block, wait, get proof, unlock | same, and reads of a moving light client | burns once, unlocks once |
| Token connector, `TTC/erc20-connector`, `TTC/bridge-token-factory`, `TTC/bridge-token` | balances, used events, deployed tokens | lock, unlock, withdraw, deposit, mint, deploy | promise chains that fail half-way; replayed proofs | conservation; nothing is paid twice |
| RobustWeb3, `TBL/tezbridge/robust.js` | gas price, nonce | callContract, retried reads | timeouts against late mining; shared account | a resend replaces; calls end |
| Tezos transactions, `robust.js` | access key nonce | signAndSendTransaction, status queries | resend after an error | sent once unless sending threw |
| BridgeConfig, `TBL/config/index.js` | parameters of a command, one file for all commands | declare, process, get, set, save | whole file read and written per value; precedence of sources | a saved value is what was meant |
| Initialisation, `TBL/init/eth-contracts.js` | contracts on the local node, addresses in the file | five deployments | killed between deployment and record; addresses of an earlier chain; the address of a dependency is read before the node is waited for | what is recorded was deployed, and is wired to what was recorded when it was read |
| Services, `commands/start`, `commands/stop`, `clean.js` | pm2's list, arguments | start, restart, stop, clean | restarts read a file that has changed, and write it back | a service keeps its arguments |
| Dumps, `commands/eth-dump.js`, `tezos-dump.js` | files | download a range | inclusive and negative bounds, growing chain | exactly the blocks asked for |
| Everything else | | codecs, wrappers, status, prepare | I/O or pure data | |

Services and commands share contracts' state and the config file. Relay and
watchdog, and a transfer run by the same operator, share one Ethereum account. `README.md` of the repository assumes that two thirds of the
stake are honest, that most of Ethereum's mining power is, and that Ethereum
accepts a transaction within the challenge window.

## 2. Modules

The contract every other part depends on comes first.

| Module | Models | Extends |
|---|---|---|
| `TezosBridge` | NearBridge.sol, one action per transaction | |
| `OptimisticChain` | the promise of the contract: an append-only chain whose blocks have stood trial for a window | |
| `TezosBridgeRefinement` | the mapping from the first to the second | `TezosBridge` |
| `TezosNode` | the blocks a Tezos node answers with (external) | `TezosBridge` |
| `RelayStartup` | the relay's `initialize`, its failures and restarts | `TezosNode` |
| `Watchdog`, `Tezos2EthRelay` | the two services' loops, one step per `await` | `TezosBridge`, `TezosNode` |
| `BridgeSystem` | contract, both services, Tezos, a submitter of wrong blocks, real time | both services |
| `SharedAccount` | the same with every transaction of the services sent, refused, displaced, mined late | `BridgeSystem` |
| `EthClient` | the Rust light client | |
| `EthereumChain` | Ethereum as its nodes show it, with reorganisations (external) | |
| `EthClientOnTezos` | the SmartPy light client | |
| `Eth2TezosRelay` | the relay and its injected operations | the two above |
| `TransferToTezos` | the transfer command, its log file, the locker and the FA2 mint | the same two |
| `EthToTezosSystem` | all of the direction Ethereum to Tezos | relay and transfer |
| `TokenConnector` | both token contracts, the factories, promises, used events | |
| `RobustWeb3` | callContract for callers that share an account | |
| `MerkleProof` | proveOutcome of NearProver over symbolic hashes | |
| `TezosTransactions` | signAndSendTransaction against a node that loses things | |
| `TransferFromTezos` | the other transfer command, its log file, the locker | the two above |
| `TezosToEthSystem` | that transfer with Tezos, `OptimisticChain` as its light client, Ethereum, the relay | it and `RobustWeb3` |
| `BridgeConfig` | parameters and the config file | |
| `Deployment` | the init commands and the local node | `BridgeConfig` |
| `Services` | start, stop, clean, pm2 | `Deployment` |
| `Dumps` | both dump commands | |
| `OperatorCli` | several terminals running all of these commands | `Services`, `Dumps` |
| `TezosBridgeProofs`, `BridgeSystemProofs`, `RelayStartupProofs`, `EthToTezosProofs`, `EthClientProofs`, `TezosToEthProofs`, `TokenConnectorProofs`, `OperatorCliProofs` | theorems, section 6 | what they are about |

`MC*` modules hold the small instances. Definitions keep the names of the code
wherever they are one thing there. A Solidity `require`, a Rust `assert` or a
Python `verify` is a guard: the transaction that would revert does not happen.
In the services, where a revert is an exception that is caught, the failing call
is a disjunct of the step.

**TezosBridge.** `addLightClientBlock` is the action `AddLightClientBlock`:
commit of the pending block or check of the replacement (`CommitOrReplace`), then
height, epoch, quorum and announced producers checked against the state the
commit leaves (hence the primed variables in `HeightIsNew`, `EpochIsKnown` and
`CheckBp`), then `ParkBlock`. The approvals are a mapping that keeps entries beyond
the count, as in storage. A block hash stands for its hashed content; a list of
producers stands for its hash; an approval is the key that signed. `bridgeState` and
`blockHashes` are `EffectiveHead` and `BlockHash`, which show a pending block as
soon as the clock says so.

**Watchdog, Tezos2EthRelay.** The program counter is the next `await`; fields of
the record are the local variables. `due` is the time by which a sleep ends
or, when awake, the iteration must have ended. `next_light_client_block` is external
and returns the last block of the next epoch, else of the same one. A call that
throws costs the watchdog its short `watchdog-error-delay` while it looks at the
block, but the full `watchdog-delay` inside the challenge (`WatchdogError`,
`FailedIteration`), and the relay its error delay wherever it happens, also after the
transaction has gone (`RelayLosesReceipt`).

**RelayStartup.** The indices in `Chain` of what the process has read are its
local variables. `pool` is the account's one pending transaction: web3 signs with
the nonce of the last mined one, so what a process sends replaces what its
predecessor has sent, or is refused as underpriced. `Stranded` is the code's
odd case: refused in every attempt the loop ends without an error, and the relay
runs with a contract that is not initialised. `tezoslib` is undeclared in this
file, in `from-tezos.js` and in the init commands of the Tezos side; the first
two are modelled as if the library were there.

**SharedAccount.** A service's transaction goes through stages: prepared (price
and nonce read), sent or refused, waiting, mined or reverted; meanwhile the
service stays where it was in its loop. `fresh` says whether the nonce it read
is still the next one. A call may also throw while the transaction is prepared or
waited for (`Throws`): the service gives up and sleeps, and what it has sent stays in the pool. A miner takes any waiting transaction, also one that was
outbid, and the rest lose their nonce. The contract is the real one, so a
challenge that comes late meets whatever is pending then.

**EthClient.** `record_header` either adopts the header (`Adopt`: truncate,
rewrite until the branches meet, both collections) or keeps it aside. The loops
are recursive functions over heights and branches. Verification of one header is the
constant `Valid`. The rewriting loop ends also where a header is not known any more
(`lib.rs:297`), so a switch between branches that grew beside each other for longer than
`finalized_gc_threshold` leaves hashes of the old branch below.

**EthToTezosSystem.** Blocks are numbers in order of mining. The relay's bug that
ends each iteration after one injected operation is in the model, as are the
operations that are pending or refused. In `TransferToTezos` a transaction and
its record are two steps and `Interrupt` may come between any two, or in the middle of a
record: the log is written in place, and what does not parse is read as `{}`
(`TornRecord`), after which the command starts over. The history variable `torn` counts the
times this happens to the record of a lock.

**MerkleProof.** A hash is the tuple of what is hashed. `proveOutcome` folds the
two paths and compares with the root the light client has; `LightClientProof` builds the proof the
Tezos node would give.

**TezosTransactions, TransferFromTezos, TezosToEthSystem.** A broadcast may be lost, or
its answer, or throw before or after the node has the transaction; a status query may find
nothing, a result, or a transaction that still runs. In the transfer, as in the other direction, a
transaction and its record are two steps, and a record may be torn, after which the
log does not parse and the command starts over. The light client is the abstract
`OptimisticChain`, which the run `bridge` and the theorem `TrustedIsAppendOnly` show the contract to implement.

**BridgeConfig, Deployment, Services, Dumps, OperatorCli.** A command is a process: it loads the
file (and writes it back once, as Configstore does when constructed), parses its arguments, runs, and
saves value after value, each a read and a write of the whole file and each a
step, so two terminals can undo each other's writes. A deployment is two steps: `ReadArgument` takes
the address of the contract it depends on, `Deploy` comes when the node has answered, and in
between other commands may record other addresses or the chain may be replaced. Addresses of contracts on
the local node depend on the account's nonce alone, so the n-th contract of each
chain has the same address. pm2 may start a service again at any moment; the relay and the
watchdog are the command line tool itself, so each start reads the file and writes it back too
(`Spawn` or `Restart`, then `LoadService`, then `RunService`), while ganache is a script and does not.

**TokenConnector.** Ethereum calls are atomic. On Tezos each promise is a step of
its claim or receipt and a panic leaves what earlier steps assigned: a `mint` or
`transfer` that fails leaves its event used up, a `create_bridge_token` that fails leaves the
name inserted. `safe` and `provable` are what the light clients vouch for. Events are kept
apart by the code, which compares their first topic with a signature (`lock_event.rs:28`,
`unlock_event.rs:28`, `prover.rs:57`). Results are not: `unlockToken`, `burnResult` and the deposit on
Ethereum take any successful result of the factory by its bytes, and what a result of the
other kind names is a `Foreign` token (`BurntToken`, `LockedToken`). Such a use spends the receipt.
Assumed is that Ethereum has no token contract at the address so read, so that
`safeTransfer` reverts; the balances of a foreign token and its withdrawals are left out, as
they pay for nothing; the factory's other results decode to no token.

**RobustWeb3.** One call per caller: read price, read nonce, send, wait; a miner may
mine any pending transaction with the account's nonce, also an outbid one, since it
need not have seen the replacement.

## 3. Runs

| Run | Question | Bounds |
|---|---|---|
| `bridge` | bonds, quorum, producers, refinement | 2 accounts, 4 final blocks over 3 epochs and 4 wrong or forged ones, clock to 7, window 2 |
| `relay_startup` | what the contract is initialised with, and that the startup ends | 5 final blocks over 3 epochs, two of them without next producers; 2 attempts instead of ten, 3 mishaps |
| `bridge_system` | can a wrong block become trusted; is the relay ever slashed; does the contract catch up | 3 final blocks, 2 bad ones, 1 submission, 1 error, delays of 1 (the watchdog's after an error 0, the relay's longest 3), window 6, clock to 28 |
| `shared_account` | how often can a challenge fail; what do late and displaced transactions do; is the right block pending in the end | the same blocks, 1 submission, 2 errors, prices 1 and 2 with a limit of 4, no clock |
| `eth_client` | fork choice and garbage collection | 22 headers on 4 branches, thresholds 4 and 6, 1 confirmation |
| `eth_to_tezos` | is the client a chain, how many locks are there, are mints proven without a fork, does an undisturbed transfer complete | any two of: a reorganisation of up to 2 blocks, two interruptions, an RPC error; 1 block before and after the lock |
| `tezos_to_eth` | is a withdrawal paid once, do logged proofs stay good, are two executions explained, does the transfer end | 2 mishaps, either on the Tezos side and in the command, or timeouts with the relay or with interruptions; 2 attempts to unlock, prices 1 to 4, heights to 14, 2 sends instead of ten |
| `token_connector` | conservation, solvency; does everything arrive when nobody errs | 1 user with 2 tokens of each asset, amount 1, 2 events, 2 calls on Tezos |
| `operator` | are recorded contracts deployed and wired; do services keep their arguments; are dumps complete | 2 terminals, 3 commands, 3 addresses, a file left by an earlier chain; sessions of deploying, of serving, and of dumps with bounds -3 to 3, a window of 2 and heads to 4 |
| `eth_relay_after_fork`, `transfer_mints_once`, `web3_executes_once` | the disagreements of section 5 | |

Each mutant of `PROJECT.json` replaces one definition by a plausible mistake (no
check that the balance is empty, the current producers where the next belong, a
garbage collection one height off, the last signature not checked, ...), and each
property has one that violates it. Every module states the types of its variables; the
runs check the contract's (`TypeOK`) and the services' (`SysTypeOK`) and spend their
properties on the rest; the startup's types are part of an invariant that is proved.

Why the bounds are enough. `bridge`: three epochs are needed to switch
producers twice, the second list differs from the first in length (so that stale
approvals exist) and in weight; the window fits three times into the clock, so
that a commit, a replacement and a challenge happen in one behaviour. The odd
bond makes the two halves differ. `bridge_system`: the window is the smallest
that meets the watchdog's deadline (`WatchIsTimely`), so the race is as tight as the
configuration allows, and the two delays of the watchdog differ, as they do in the code, so that an error
during the challenge costs more than one before it; the last producer's signature is the wrong one, so that
the whole list must be checked. `eth_client`: branches overtake each other at
heights inside and outside the thresholds, tie, win while shorter, and win when the place
where they part is already forgotten.
`eth_to_tezos`: the transfer's block is between the first and the last of the chain, and
two reorganised blocks cover it, its parent or neither; two interruptions can tear the record of a lock
and stop what follows. `token_connector`: two events and two calls let an early claim, a good claim and a
replay meet, and a receipt be presented to the function for the other kind; whether users make
mistakes is chosen once for a behaviour, so one run has both kinds; a second token of each asset
is there to be paid out wrongly. `relay_startup`: an epoch can end between the two
reads, and a block with next producers, one without, and one of a later epoch can
each be on its way; three mishaps leave two predecessors' transactions to meet.
`shared_account`: prices 1 and 2 make each process outbid the other; the third
challenge is needed (with 2 in place of 3 `FewChallenges` fails), two errors can hit one service twice or both, and a deposit and a
submission of the relay are all it can have decided on. `tezos_to_eth`: the price
doubles twice, so two resends compete with the first; the third mode of trouble is what an
interrupted command and its successor do to each other. `operator`: three commands are a
deployment, its dependent and a rival; three addresses are one more than the stale
file names; the terminals are interchangeable, which the run uses as a symmetry.
Each action of every passing run fires.

Deadlock is checked in `bridge`, where somebody can always deposit or withdraw, and
in the `eth_to_tezos` runs, whose relay never stops. The other systems do stop,
when the clock, the headers, the events, the callers or the commands are at their end.

## 4. Fairness and time

`BridgeSystem` lets the clock pass only while neither service has missed its
deadline: this is the repository's assumption that the services run and that
Ethereum takes a transaction in time. Safety (`OnlyFinalTrusted`) rests on it, as
the bridge itself does, and on `WatchIsTimely` and `HonestMajority`, which TLC
evaluates. Liveness adds weak fairness of the two services (endless loops that
catch their exceptions), of Tezos producing blocks and of time.

`WatchIsTimely` takes a challenge as mined within the watchdog's iteration.
`SharedAccount` says what the shared account does to that: a challenge of a
wrong block can be in vain twice, and once more for each call that fails, so a window has to be longer by as many more sleeps and iterations
of the watchdog than `WatchIsTimely` asks. Its clock stands still, the watchdog's sleep lasts until
what waited has been mined (Ethereum in time, again), and the services, Tezos and
mining are weakly fair.

`RelayStartup` has weak fairness of the process (pm2 restarts it), of mining what was accepted and of
Tezos. `EthToTezosSystem` has weak fairness of mining, of inclusion of operations, of the
relay's loop, and of the transfer: the user runs the command again, as the
README of the repository asks. `TezosToEthSystem` assumes the same of the user's
command, of both chains with the light client, and of the relay. `TokenConnector` assumes that promises run,
light clients advance and somebody presents each proof. Nothing is assumed of
the miners where the gas price limit ends a loop (`StartedCallsEnd`).

## 5. Where code and documents disagree

Each is a run that TLC ends with a counterexample of the property named.

* `eth_relay_after_fork`, `ClientFollowsChain`: `EthClientOnTezos.py:23` says that
  `known_hashes` is used by the relayer to backtrack after a fork; the loop that
  does is commented out, so one reorganisation stops the client for good.
* `transfer_mints_once`, `MintsOnce`: `README.md:171` promises that an
  interrupted transfer resumes; interrupted between the mint and the deletion of
  the log it starts the deposit again and mints twice.
* `web3_executes_once`, `ExecutedOnce`: `robust.js:68` says that a resend overrides
  the same transaction; when the first was mined meanwhile the nonce error makes
  the call execute twice.

Met while modelling, without a run of their own, and why the checked property is
the weaker one that holds:

* `to-tezos.js:270` says that `decentralised_mint` verifies the proof; the contract
  (`FA2TezToken.py:595`) does not look at it, and after a reorganisation tokens
  exist for a lock that does not. Hence `MintIsProvenWithoutFork`.
* Interrupted between the lock and its record, the command tries to lock again at
  every run and always fails. Hence `EventuallyTransferred` speaks of undisturbed transfers.
* A challenge can take the place of a transaction of the relay
  (`watchdog/index.js:77`: "override same txn"), since the nonce is that of the last
  mined transaction of the account. Hence `FewChallenges` counts to three, and one more for each failed call.
* The watchdog catches what its challenge throws and then sleeps the full `watchdog-delay` (300 s by
  default), not the `watchdog-error-delay` it has for errors (`watchdog/index.js:108-116`). Hence `WatchIsTimely`
  takes every error at the longer of the two.
* `README.md:171` again: the log is written in place (`to-tezos.js:305-307`) and one that does not parse is
  taken for an empty one (`:320-329`), so a command that is killed in the middle of recording its lock
  starts the deposit again and locks twice. Hence `LocksOnce` allows one more lock for each torn
  record of a lock.
* A deployment reads the address of its dependency before it waits for the node
  (`eth-contracts.js:160`, `:180` before `:38-55`); another terminal may record a new one in
  between. Hence `WiredToRecorded` speaks of what was recorded when it was read.
* `unlockToken`, `burnResult` and the deposit do not ask which kind of result they are given, so a
  receipt handed to the wrong one is used up and its tokens are lost. Hence `Conserved` counts what is lost.
* `NearBridge.sol:143` says that initWithValidators sets the validators of the
  current epoch; when an epoch begins between the relay's two reads, or a
  predecessor's transaction is mined late, they are those of an epoch before the
  head's. Hence `ValidatorsNotAhead`.
* `README.md:75` says that environment variables are not written into the config
  file; the test in `saveConfig` that would see to it is commented out. Hence
  `ArgumentsStick` excludes them.
* `lib.rs:173` says that `block_hash` answers from the canonical chain; after a switch between
  branches that part more than `finalized_gc_threshold` blocks below, some of the heights
  kept for `block_hash` alone have hashes of the abandoned branch. The attempt to
  prove more of `SafeHashIsBuried` showed it and TLC confirmed it. Hence
  `SafeHashIsBuried` says which heights are right: those of known headers and one below.
* The watchdog watches the contract at the address it read when it started and
  challenges at the one in the file at that moment (`watchdog/index.js:81`).

Smaller ones: a parameter that is neither
given, nor in the file, nor declared with a default is `''`, so the command
runs; a value only the environment has is never used; `--eth-node-url` is
always refused because the init module sets it when it is loaded; the README has the
config file under `~/.tezbridge`, the code under `~/tezbridge`;
`init-eth-locker` overwrites the prover's address with a placeholder; `eth-dump`
downloads 43000 blocks where its help says 4.3K; `bridge-watchdog` does
not take the `eth-client-address` it needs; `eth2tezos-relay` is never
made a daemon, so `stop` and `status` do not see it; `initWithBlock` does not compare the
next producers with their hash; its resend never uses the price it has raised, and after ten
refusals the relay says that the client is initialized though it is not.

## 6. Proofs

Every theorem rests on the named assumptions of the modules it is about and on nothing
else, unless it says so itself; TLC evaluates them in the runs. Each invariant was an
invariant of a run before it was proved.

**TezosBridgeProofs**, for every set of accounts, blocks, producers and epochs,
every bond and every window (`BondAssumption`, `BlockAssumption`, `ChainAssumption`):

* `StateIsTyped` and `BondsAreBacked` (`Spec => []BondBacked`). `BondBacked` is not
  inductive: a challenge needs to know that a window is only open after a
  submission, and a submission that the contract is initialised. `BondInv` adds
  the types, `IdleBeforeInit` and `PendingSubmitted`. The cases that matter are a withdrawal
  (its guard excludes the submitter while the window is open), a replacement
  (the bond of the new submitter is checked, the old one's is free) and a
  challenge (which closes the window it slashes).
* `ContractIsSolvent`: `Spec => []Solvent`, on top of the above, with the
  cardinality of the set of bonded accounts counted up and down by one; the
  two halves of a slashed bond add up to it although the division rounds.
* `PendingIsVoted`: `Spec => []PendingHasQuorum`. The lemma `OverwriteSeq` says that
  the entries a submission writes are a prefix of the mapping; the
  invariant says that while the window is open the producers a challenge refers to
  are those the quorum was counted with.
* `TrustedIsAppendOnly`: `Spec => ImplementsOptimisticChain`, the refinement. `ChainInv` adds
  to `BondInv` that no committed hash is above the head (`Committed`) and that a parked
  block is (`Parked`); without them a commit could overwrite a trusted hash.
* `ProducersAreElected`: `Spec => []EpochProducers`. `ElectedInv` says the same of the stored lists and of
  the parked block's announced list, also before the views make it effective.
* `HonestIsNotSlashed`: `Spec => HonestKeepsBond`, because the stored approvals up to the count
  are the submitter's own and the producers they are checked against are the elected ones.

It also has the lemmas about the node's answers: the greatest index of a non-empty set of blocks exists.

**BridgeSystemProofs**, for every chain, every set of wrong blocks, any number of submissions and errors and all
delays that meet `WatchIsTimely`:

* `ServicesAreTyped`, `WrongBlocksAreChallenged` (`SysSpec => []OnlyFinalTrusted`), `ReadsAreConsistent`,
  `RelayIsNotSlashed`. The core is the deadline: while a block is pending whose signature `i` is
  wrong, the time by which the watchdog has challenged it, counted from its
  program counter, its deadline and the errors that are left, each at the cost of a full iteration and the
  `watchdog-delay`, is before `lastValidAt`. It needs that
  the watchdog is never past its deadline, that the signature it looks at is not behind the wrong one, and that the pending
  block is what some submitter sent (`PendingInv`); `HonestMajority` gives the wrong signature. What the relay
  has read follows from all committed hashes being known to Tezos (`CommittedKnown`) and
  from the head and its hash being read of a chain that only grows (`RelayKnows`).
* `LateChallengeIsNoSlash` (`SharedSpec => LateChallengeSparesRelay`), about transactions
  that wait in the pool, for any prices and any limit. The relay is slashed only when a block of
  its own is pending whose signatures do not hold. `SharedInv` says that whatever it
  has waiting, or is about to send, is a block Tezos has produced (`PoolInv`), so what is pending of it is final and
  its signatures are the elected producers'; no timing is used, for time stands still there.
* `ChallengesAreFew` (`SharedSpec => []FewChallenges`). `SendersInv` holds the account of it: all challenges of the
  pending block but the last one were paid for, each with a transaction of the relay that was
  mined in vain, or was given up when a call of it failed (`CountInv`: `attempts + Left <= 2 + errors`, plus one as long as
  nothing has been mined since the last challenge was begun, `Undisturbed`). `Left` counts what the relay can still send in vain: a deposit and a
  submission, or a submission only, or nothing. A transaction in vain waits (`PoolStale`) or is about to be
  decided on or sent (`Stale`); what the relay reads while the wrong block is pending is a block that
  the contract takes in its place (`RelayMaySubmit`, which needs `LightClientBlocks`), and then the wrong
  signature has gone (`SubmissionReplaces`). The watchdog does not begin the next challenge before
  something was mined, and mining leaves the wrong block where it is only at the price of one of `Left`
  (`MinePays`).
* They add `NodeAssumption`, `RelayAssumption`, `WatchdogAssumption`, `SystemAssumption`, `WatchIsTimely`,
  `HonestMajority`, `AccountAssumption` and `LightClientBlocks` (what Tezos gives out has the votes and the next producers
  that the contract asks for).
* `Reverts` writes out the guards whose failure reverts a transaction, for the prover has no use for `ENABLED`; in every
  reachable state of `shared_account` TLC finds it equal to `~ENABLED Execute(tx)`.

**RelayStartupProofs**, under `NodeAssumption` and `StartupAssumption`, for any number of mishaps and attempts:
`StartsFromFinalBlock` (`StartSpec => []ValidatorsNotAhead`) and `LoopBeginsInitialised`. The invariant
`StartInv` says that the producers set so far are those of a block that is not after what the process
has read, nor after a block that is on its way (`SetSoFar`): a late transaction of a dead process can then only lag.

**EthToTezosProofs**, for any reorganisations, interruptions, errors and mempool:

* `ClientHoldsAChain`: there is a height for every block ever mined such that chain, operations, relay and
  contract agree with it, and an operation is never more than one above the contract's head.
* `TransferLocksOnce`: in `LockInv` balance, allowance, the stage and
  the locks on the chain account for each other: allowance and locks together are at most one more than the
  records of a lock that were torn, at most those as long as the log says that nothing was locked.
* `MintsAreProvenWithoutFork`: as long as nothing was reorganised, blocks are numbered by height, so the
  chain never loses a block and the client's hashes are blocks of it (`Straight`); the command and its log then know the block of
  a lock that happened, and mint only after the client has it (`TransferKnows`). Both are conditions on
  `reorgs = 0`, and a step after the first reorganisation has nothing to show.

**TezosToEthProofs**, for any callers, attempts, prices, retries and mishaps (`RobustWeb3Assumption`,
`SystemAssumption`, `TransferAssumption`):

* `ResendsAreReplacements` (`SysSpec => []ResendsReplace`). `Web3Inv`: what is pending has the nonce its caller holds on to, and
  every nonce below the account's is used up.
* `ExecutedTwiceOnlyAfterThrow`. `SenderInv`: transactions are in the order of their calls, and a second
  one of the same call was signed because the first threw or was refused for its nonce. Of two executed ones with the
  same call the earlier one threw: a refused one is not executed.
* `EachWithdrawalPaidOnce` (`SysSpec => []UnlocksOnce`). `UnlockInv` is both of the above, what
  the log's stages say of executed withdrawals (`LogInv`), and that every transaction on its way to the locker proves
  one of them (`RequestInv`), also a transaction of an interrupted predecessor.
* `LoggedProofIsValid` (`SysSpec => []ProofStaysValid`). `ProvenInv` adds that the light client's trusted
  blocks are those of Tezos (`ClientInv`, which rests on the refinement) and that the height and the hash in the log, though
  read one after the other of a client that moves, belong together (`ProofInv`).

**EthClientProofs**, for any tree of headers, any order in which they come and any thresholds (`EthClientAssumption`):

* `ForkChoice`: `Spec => []BestIsHeaviest`. `HeavyInv` says that a header is kept under its own number, so
  that no collection takes the best one.
* `StorageStaysBounded`, `AnswersAreTheBestBranch` (`[]CanonicalIsBestBranch`) and `SafeAnswersAreBuried`.
  `ChainInv`: the headers fill the heights from `lo` to `hi`, each under its parent unless at the
  bottom; the canonical hashes fill those from `clo` to the best header, and each is the parent of the next as far as headers
  are known, and one hash below. Each of `Adopt`'s four steps (truncate, rewrite, the two collections) has a
  lemma about what it leaves of that.
* The three assume `trusted_signer = NoSigner`, which is how the contract is deployed unless
  `tezos-client-trusted-signer` is given (`index.js:100`). The headers of a trusted signer are taken without
  verification (`lib.rs:98`) and may skip heights, at which the collections' loops end: there the properties are the signer's to keep.
* The loops are recursive functions, and the induction theorems of the library are out of reach (they have an operator parameter). Where a
  proof needs that such a function exists and what it returns, it takes the least argument for which
  that fails, from the well-foundedness of `Nat`, and derives the contradiction there.

**TokenConnectorProofs**, for any finite set of users, any amounts and any number of events and calls (`ConnectorAssumption`):

* `AssetsAreConserved` (`Spec => []Conserved`) and `ConnectorCanPay` (`Spec => []CanPayOut`). A sum over
  a finite set is the cardinality of a set of units, so that the library's facts about cardinality add
  and remove summands; the model's fold is shown to be that sum. `ConnectorInv`: what the connector holds of an asset is the sum of
  what users have of its image, what is on the way to it, and what is on the way back, where every
  promise that is half-way is on exactly one side, and what was lost on the way (to a promise that failed, or to the function for the
  other kind of result) stays on the side it left.

**OperatorCliProofs**, for any terminals, commands, arguments, environment and old file:
`RecordsAreDeployed` (`FilesInv`: every address that any file, copy of a file or process holds was deployed or given; `ReadsOk`: also what a
service has read and not yet written back),
`ContractsAreWired` (`WiringInv`: a constructor argument that is trusted was recorded on this
chain, whether its deployment was mined or still waits, `ArgumentsWired`), `ServicesKeepArguments`; and `DumpsComplete`, from what each loop has written up to its counter; a proof that
the node does not have ends the dump of Tezos, and only one that ends by itself has the number of proofs asked for.

Model-checked only: liveness with the fairness of section 4, which is out of the prover's reach.

## 7. Not modelled

Signature verification, hashing and decoding (`Ed25519.sol`, `NearDecoder.sol`,
`borsh.js`): verdicts or symbolic values. Ethash: one verdict per header. Receipt
tries: an event is either safe or not. Gas, storage deposits and fees. The wrappers and the
proof extractor: adapters without state. `status.js`: only prints, after
the rewriting of the config file every command does, which is modelled; its verdicts compare addresses of
different capitalisation, so it may call a good contract invalid. `prepare`: clones and builds. `deploy-token`: one call and two
values. `init-tezos-contracts` and `init-tezos-token-factory` use the undeclared `tezoslib` and stop before
they do anything. `FA2TezToken` beyond the mint: a library template. In `BridgeConfig`, the order in which one save writes its values
beyond that they are written one by one.

Of the code counted as the implementation `.pnp.js`, 23120 of 25340 lines, is the generated table of packages of Yarn; nothing in it is
the bridge's.

Hazards no property covers: one contract and one address are modelled, so the watchdog that watches one contract and
challenges on another after a redeployment is not; one transfer at a time is, so the log file that has the same
name for all transfers is not; and a relay that replaces its own blocks forever, when `replaceDuration` is not longer than
`lockDuration`, needs a chain without an end.

## 8. Plan

1. `SharedAccount` with the clock of `BridgeSystem`.
2. Two transfers with different amounts and the one log file.
3. The trie walk of EthProver as an operator over symbolic hashes, as `MerkleProof` has it for the other direction.
