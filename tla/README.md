# Equium: TLA+ verification project

Equium is a Solana program that pays a fixed token supply to whoever solves an
Equihash puzzle, one winner per round, and a family of clients: miners for the
command line, the desktop, the GPU and the browser (two), and a website with a
wallet, an explorer and an RPC proxy. This directory keeps TLA+ models of the
program and of its clients, the TLC configurations that check them, and TLAPS
proofs of what matters most. Paths are relative to the repository (`src/...`).

## 1. Inventory of the system

| Component | State it keeps | Operations | How it interacts |
|---|---|---|---|
| On-chain program (`programs/equium/src`) | one config account (height, challenge, target, epoch reward, next boundaries, round and window clocks, counters, admin), one vault token account | `initialize`, `fund_vault`, `mine`, `advance_empty_round`, `set_target`, `renounce_admin`; `advance_round` is shared by the two that close a round | called by transactions, reads the Clock and SlotHashes sysvars, calls the token program |
| PoW library (`crates/equihash-core`) | none | build the I-block, derive the next challenge, verify a solution, compare and scale 256-bit targets, Wagner solver | linked into the program, the CLI, the desktop miner and the wasm workers |
| CLI miner (`clients/cli-miner`) | current height, nonces tried, watchdog clock | fetch, race solver threads, submit, advance a stalled round | threads, a bounded channel and a stop flag; RPC |
| Desktop miner, backend (`clients/desktop-miner/src-tauri`) | shared app state (running, stop flag, key, statistics), wallet file | start, stop, mining loop on its own thread, wallet create/import/unlock/lock/forget, send | mutex-protected state shared by commands and mining threads; events to the window |
| Desktop miner, window (`clients/desktop-miner/src`) | the screen and its forms, `running` | screens, forms, dashboard with a poll and an event subscription, transfer dialog | asynchronous calls of the commands |
| GPU miner (`clients/gpu-miner`) | job and generation, result queue, RPC rotation, counters | set job, launch, drain hits, verify, send | one Python thread per device and a queue; RPC |
| Website mining engine (`clients/website/src/lib/miner-engine.ts`, core picker in `MineDashboard.tsx`) | worker slots (busy, job id), current config, `submitting` flag, number of workers | supervisor tick, dispatch, worker message, submit, stop | web workers, timers, promises; RPC through the site's proxy |
| Website wallet and mining page (`wallet-context.tsx`, `wallet-crypto.ts`, `components/wallet`, `MineDashboard.tsx`) | encrypted wallet in localStorage, unlocked key, wizard, menu, session, transfer dialog | create, import, unlock, lock, forget, start, stop, send, sign | key derivations, engines and transfers that outlive the screen that began them |
| RPC proxy (`clients/website/src/app/api/rpc`) | granted requests per client address | POST with a sliding-window limit | HTTP, upstream RPC |
| Explorer and leaderboard (`lib/rpc.ts`, `api/state`, `ExplorerDashboard.tsx`) | what the page shows | read the chain, answer a poll, take over an answer | RPC on the server, polls from the page |
| Web miner (`clients/web-miner`) | worker, `stopped`, the page's `running`, config and earnings | start, stop, loop: fetch, solve on a worker, submit, confirm | web worker, wallet extension, RPC |
| Scripts (`scripts/*.ts`) | none | deploy on a local cluster, seed a target | transactions |
| Static pages, OpenCL kernel, `equium-verify` | none | rendering, solving, checking one solution | offline |

### Hard behaviours and what makes each component correct

* **Program.** Every caller works from an old view of one shared account, so the
  order of transactions is adversarial. Correct means: rounds are won by fresh
  own work and paid once; issuance follows the halving schedule and fits the
  cap; a round with no solution waits out its timeout and no less; retargets
  are damped whatever the cluster clock does.
* **CLI miner.** Threads, a channel that buffers one solution, a deadline and a
  join; a config that is stale by the time its solution lands; confirmations
  that get lost; a watchdog whose seconds run against the chain's slots. Correct
  means the race reports true counts, nothing is booked that was not earned, and
  what a printed reason means can be said exactly.
* **Watchdogs.** The program counts slots, the clients count seconds. Correct
  means rounds keep closing as long as one miner runs.
* **Desktop miner.** Commands with two lock sections race mining threads that
  end late or panic; the window learns of both by answers, a poll and events
  that cross; the wallet file may be torn. Correct means the shared state is
  that of one session, the newest; a stopped session ends; a key in use is on
  disk; and the window comes round to what is.
* **Website engine.** Callbacks, awaits and timers share four variables. Correct
  means one submission at a time, every worker busy, as many workers as shown,
  only real blocks reported, and a stop that stops.
* **Website wallet and page.** A key derivation takes a second during which the
  user may lock, forget, create or reload; closures keep the key they were made
  with. Correct means no key is used that was not backed up, what is offered to
  unlock is what is on disk, no engine runs that nobody can stop, and the
  dialog tells the truth.
* **Explorer.** Answers overtake each other and reads fail in part; the log has
  empty rounds and failed transactions between its blocks. Correct means the lists
  are those of the newest blocks and of all miners, and that an open page catches up
  with the chain and never falls back to "pre-launch".
* **Proxy.** Correct means the limit holds in every window and a client that
  waits is served.
* **GPU miner.** Threads check the generation of their job before they queue hits,
  not after; RPC endpoints lag and fail. Correct means that what is sent is for
  the round last seen and that the farm keeps up with the chain.
* **Web miner.** Stop sets a flag and terminates the worker, whatever the loop
  awaits. Correct means a stopped session ends without another round and one
  that is not stopped goes on, whatever fails after its worker has loaded.

`PROJECT.json` lists each hazard at its line with the properties aimed at it.

## 2. Modules and how they correspond to the code

| Module | Models | State | Actions |
|---|---|---|---|
| `Emission` | the issuance promise, without accounts, clocks or proofs of work | rounds closed, reward, rounds left in the epoch, issued | pay a round, skip a round |
| `Difficulty` | `schedule.rs::next_target`, `target.rs` on numbers | none | none (operators) |
| `Target` | the same as the code computes it: bytes, four limbs, words of fixed width, next to `Equium` by EXTENDS | that of `Equium` | those of `Equium` |
| `Equium` | `programs/equium/src` and `challenge.rs` | one variable per field of the config account, the token balances, the Clock sysvar; the events as a history `blocks` | one per instruction; token transfers and the clock as environment |
| `CliMiner` | the loop of `cli-miner/src/main.rs` and the two scripts, composed with `Equium` by EXTENDS | per miner: its config copy, watchdog clocks in seconds, candidate, earnings, last message | fetch, solve, and the landing, refusal or loss of each transaction; a second of a miner's clock; deploy, seed a target |
| `SolverRace` | `race_for_solution`, and what its caller adds up | program counters, stop flag, channel, senders, counters | one per atomic step of a thread; refused parameters |
| `Watchdog` | the stall logic of the CLI and desktop loops against the program's timeout | capped clocks, who knows the height | slots, seconds, loop steps |
| `DesktopMiner` | `miner.rs`, `state.rs` and the wallet commands' effect on `AppState` | the mutex-protected state, stop flags, where each thread is | one per lock section and per loop step |
| `DesktopApp` | the window and the wallet file, composed with `DesktopMiner` by EXTENDS | file, answers and events on their way, screen and its forms | one per button, poll, answer, event; restart |
| `Cores` | the core picker and its copy in localStorage | what it shows, what is kept | first effects, two buttons, reload |
| `WebEngine` | `miner-engine.ts`, on top of `Cores` | the closure's variables, where each lifecycle and the supervisor is | the code from one resumption to the next `await` |
| `WebWallet` | the provider, `wallet-crypto.ts`, wizard, unlock screen, menu | localStorage, the provider's state, the mounted screen, derivations in flight | one per button, and the end of a derivation |
| `WebDashboard` | `MineDashboard.tsx` and `SendModal.tsx`, composed with `WebWallet` by EXTENDS | session, engines, dialog, transfers | start, stop, what an engine and a transfer do between two awaits |
| `Explorer` | `rpc.ts`, `api/state`, the explorer page | the program's log, answers on their way, the page | blocks, empty rounds, failed transactions; polls, answers, failures |
| `RpcProxy` | `api/rpc/route.ts` | ages of the granted requests of an address | a request, time |
| `Site` | `Explorer` and `RpcProxy` side by side | both | either |
| `WebMiner` | `web-miner/app/src` | the page, each session's loop, flag and worker | one per await of the loop, start, stop, connect; a worker whose script does not load |
| `GpuMiner` | `miner.py`, the farm of `gpu.py`, the rotator of `chain.py`, sending | the chain as each endpoint serves it, job slot, threads, queue, what is sent | one per lock section of a thread, one per outcome of a poll, the watchdog, and one per hit drained |
| `SumProofs` | lemmas on arithmetic, sums and induction, used by the next | | |
| `EquiumProofs`, `RoundProofs`, `RaceProofs`, `DesktopProofs`, `WalletProofs`, `EngineProofs`, `ClientProofs` | theorems (section 4) | | |
| `MCEquium`, `MCWebEngine`, `MCWebDashboard` | constants and symmetry of the checked instances | | |

A transaction executes atomically on Solana, so every instruction of `Equium`
is one action whose conjuncts are, in order, the account constraints, the
`require!`s and checked operations, and the assignments of the handler and of
`advance_round`. A transaction that fails changes nothing and is no step;
`CliMiner` models what its sender is told. A browser runs one piece of script at
a time, so an action of `WebEngine`, `WebDashboard` or `WebMiner` is the code
between two awaits. A React screen that is unmounted is a record that is set
afresh; a promise that resolves after that finds what the program has become.

Operators introduced by a comment "Mutant" are not part of any specification.
Each is the definition that follows it with a plausible bug, and records which
property that bug breaks.

Abstractions:

* SHA-256 is injective: a challenge *is* the sequence of (winner, slot) pairs
  hashed into it, an I-block is the record of its fields.
* A solution is the I-block it solves and its hash. Anybody can present any
  solution of any I-block of a round that has opened, in particular somebody
  else's. Verifying the Equihash tree itself is not modelled: a solution
  verifies for the one I-block it was found for.
* SlotHashes' newest entry is determined by the slot.
* Targets and hashes are numbers; in `Target` they are bytes and limbs, whose width
  is a parameter.
* In `CliMiner` and `Watchdog` slots and seconds pass independently: nothing relates
  the 75 seconds of the watchdog (`main.rs:178`) to the program's timeout in slots.
* In `WebEngine` a transaction that lands after the engine has given it up
  counts as somebody else's; the worker script is assumed to load. In `Cores`
  a full localStorage is left out.
* In the wallets a key stands for its ciphertext; a password is right or wrong
  by choice. In `WebDashboard` an engine is its interface: on, submitting or not; that
  payer and signer come from one render of the page (`MineDashboard.tsx:47-57`) is
  the shape of a transfer there and no property.
* In `Explorer` a failed read of leaderboard or chart is one of the recent blocks:
  the three are taken over alike; `ServerIsRight` looks at the leaderboard itself.
  Rates are integer numerators; the trend is only bounded from below.

Public keys, the seven constant addresses, rent, account layout, logs and
statistics are left out.

## 3. Runs

Each run is `tlc -workers 2 -config <cfg> <module>` in this directory.

| Run | Module, cfg | Question | Properties | States |
|---|---|---|---|---|
| `equium_schedule` | `MCEquium`, `MCEquium_schedule` | the whole supply curve, and difficulty under a clock that stalls and steps back; do bytes and limbs compute its retargets? | `NeverExhausted`, `PaysSchedule`, `BooksBalance`, `ScaleIsExact`, `OrderIsNumeric`, `RetargetDamped`, `RetargetIsExact`, refinement `ImplementsIssuance` | 950,000 |
| `cli` | `CliMiner` | who closes rounds and where tokens go; bookkeeping and reasons of a miner with stale data | `WonByFreshOwnWork`, `EmptyRoundsPaced`, `EarningsAreReal`, `ReasonsAreTrue` | 960,000 |
| `race` | `SolverRace` | what a race reports, what "exhausted" means, and when it returns | `CountIsExact`, `ExhaustedMeans`, `ReturnsUnlessStuck` | 27,000 |
| `watchdog` | `Watchdog` | do rounds keep closing? | `RoundsKeepClosing` | 2,400 |
| `desktop_app` | `DesktopApp` | sessions, wallet file and window, with crashes | `FlagOfNewest`, `RunningNotEnded`, `UnlockedIsSaved`, `StoppedEnds`, `WindowFollows` | 241,000 |
| `desktop_two_miners` | `DesktopMiner`, `DesktopMiner_two_miners` | one miner at a time? (violated) | `AtMostOneMiner` | |
| `website` | `MCWebDashboard` | wallet, sessions and transfers of the mining page | `KeysAreSaved`, `StoredIsOnDisk`, `OneEngine`, `DialogIsTrue` | 354,000 |
| `website_signs` | `MCWebDashboard`, `MCWebDashboard_signs` | does a locked wallet sign? (violated) | `SignsOnlyUnlocked` | |
| `web` | `MCWebEngine` | the submission lock, credits, workers, stop | `SubmittingIsHeld`, `CreditsAreReal`, `PoolIsShown`, `SlotsKeepWorking`, `StopDrains` | 165,000 |
| `web_miner` | `WebMiner` | stop and start while loops are in a round, failures of everything a round needs | `LastWords`, `KeepsMining` | 40,000 |
| `site` | `Site` | explorer and rate limit | `WindowHolds`, `ServedAgain`, `ExplorerCatchesUp`, `StaysLaunched`, `ServerIsRight`, `ChartIsStable` | 62,000 |
| `gpu` | `GpuMiner` | what is sent, and whether the farm follows the chain | `SendsCurrentWork`, `FollowsChain` | 139,000 |

### Bounds, and why they are enough

* `equium_schedule`: `MaxSlot` is the horizon of the cluster clock; with a
  positive timeout it bounds empty rounds, and the mined ones are bounded by
  `U64_MAX`, the height at which `checked_add` fails. Several rounds may close in
  one slot. A first reward of 3 with epochs of two rounds goes through
  3, 1, 0, so that a halving rounds down and the schedule ends; the cap is
  exactly twice the first epoch, as in the program, so that the last reward just
  fits. Retarget windows of three rounds end next to, between and, at height 6, on
  a halving. Clock steps of -1, 1, 3 and 9 seconds against an expected
  window of 3 hit both clamps and the middle; of the targets one rounds down to
  nothing and the other doubles out of the range. A target is four limbs, as in the
  program, of two bytes of one bit (`Byte`, `WordBytes`; the words of `Target` have a
  width of their own, apart from the counters' `U64_MAX`). `ScaleIsExact` and
  `OrderIsNumeric` are about every target that may be stored and every ratio of two
  words; `RetargetIsExact` compares each retarget of the program with what bytes and
  words give. A carry can run through all places, sums and quotients take every
  value of a word, and products of the damping saturate.
  The only token transfer is the admin's whole
  supply, the one that can keep the program from opening.
* `race`: three workers, because two cannot fill the channel's buffer after a
  winner was received; two nonces each. The deadline may pass, and the equihash
  parameters may be ones that `BaseState::new` refuses (`initialize.rs:38-39` stores
  what the admin sends).
* `cli`: one client among one foreign miner and the admin, halving every round and
  retargeting every second, so that every config it holds may be out of date in
  reward, target and challenge. Hashes lie below and at the target, and every
  solution of every earlier round can be presented by either miner. Two slots with
  a timeout of one allow two empty rounds and mined ones around them. The watchdog
  counts one second and the program one slot, each at its own pace, so that an
  attempt comes too early, in time or too late. The
  invariants of `Equium` about single rounds are checked here, since `CliMiner`
  contains every behaviour of the program, clients and others together.
* `watchdog`: the stall limit in seconds is above the timeout in slots, as in the
  program, and the two clocks tick independently; each is capped at the limit it is
  compared with, which loses nothing. One miner of two is steady.
* `desktop_app`: two sessions, so that a thread of the first can outlive it into the
  second; an answer may be under way next to the poll's, and an event next to both
  (`MaxCalls`, `MaxEvents`). `desktop_two_miners` has three: the third is the first
  that can start next to a disturbed one.
* `web`: two slots, so that submissions compete, one of which may hold two
  lifecycles; two heights, so that a submission can be won, lost or late. When
  a slot has no free lifecycle left a kick does nothing there (`Chains`). Three
  processors, a limit of two and a stored count of five put every clamp to use.
* `website`: two keypairs, one derivation in flight at a time (its outcome
  meets every state the page can come to; the proofs are about any number of them), two
  sessions and two transfers, so that an old one meets a new one. Keys, derivations, sessions and transfers are
  interchangeable: the model compares them for equality only, no property names
  one, and the run checks invariants only, so that the symmetry set is sound. A session
  that is over and has nothing under way is one that may start again: the bound is on
  sessions that run or still submit.
  `website_signs` checks an action property and uses none.
* `site`: two miners and two transactions, each a block, an empty round or a failure,
  with limits small enough to cut lists (`RecentScan` 2, `Limit` and `Take` 1); two answers,
  so that one overtakes the
  other. `ServerIsRight` is about every log of up to four transactions, one more than
  the three that are scanned; for the chart, blocks of any two ages up to beyond the last of three
  minutes of three ticks. Two requests a window of two ticks for one address:
  addresses share nothing.
* `web_miner`: two sessions, so that a stopped loop meets the next; a stopped one
  may send up to `MaxSent` transactions, one more than it ever does. A worker is
  new, at a job, idle or dead, and kept from job to job as the code keeps it.
* `gpu`: one device, because threads share nothing but the lock, the queue and the
  generation, and one thread meets `set_job` at each of its steps; two hits a
  launch and a queue of two, so that stale and fresh hits queue behind each
  other. Two endpoints that may show different rounds, of which the second may go
  down for good: rotation must leave it. Two rounds, and before them the
  closed program.

Deadlock is not checked where the model really ends: at the horizon of the
clock (`MCEquium`, `CliMiner`), when a stopped engine has drained
(`MCWebEngine`), when the GPU miner was interrupted (`GpuMiner`), and in `SolverRace`, where threads may block each other for ever:
there `ReturnsUnlessStuck` says which states those are. All others never stop.

### Fairness

* `SolverRace`: the operating system schedules every thread that can run. The
  deadline is not fair: it may never pass, so that no property leans on it.
* `Watchdog`: slots and seconds pass (weak), steady miners go on (weak), and a
  miner that sends `advance_empty_round` again and again is not refused by the
  network every time (strong, on the action in which the transaction lands).
  Nobody is obliged to find a solution, and only steady miners are obliged to
  anything: others may exit, as an RPC error makes them do.
* `DesktopMiner`, `DesktopApp`: a command that has begun goes on, every thread goes
  on, since RPC calls time out, the solver has a nonce budget and waits are
  finite; answers and events are delivered (weak); the poll's timer fires whatever
  else is called (strong). Neither a panic, a crash nor the user is ever obliged to
  anything.
* `WebEngine`: timers fire and promises settle (weak on each lifecycle and on the
  supervisor), and the RPC does not fail every poll for ever (strong on `Poll`).
  The user need not stop, and no transaction need land.
* `WebMiner`: promises settle and timers fire (weak on each loop); the endpoint
  says at times that mining is open (strong on a fetch that leads to a job). No
  transaction need succeed, and a worker that died never answers: `KeepsMining` names that
  wait as the one without an end. A wallet that never answers is not excluded by the
  code and is by this: it would hold the loop.
* `Site`: time passes and an address goes on asking (weak); a request is answered or
  fails (weak); not all polls of an open page have a read that fails, and not all
  answers without one are lost (strong): without that nothing need ever be shown. Which
  answer arrives, how old it is and what overtook it is left open; that the page ends up
  with a recent one is what `ExplorerCatchesUp` has to show.
* `GpuMiner`: loop and threads go on and endpoints catch up (weak); a second passes, so
  that the loop polls again (strong); an endpoint that is not flaky does not fail
  every call for ever (strong on `Startup` and `PollRound` there). An endpoint that goes on
  answering and never catches up is excluded: the loop would stay with it. And the
  loop, which looks at a hit in microseconds to milliseconds, gets to the end of the
  queue although devices go on filling it (strong on `Drained` and on the look at the
  last hit): its inner loop has no other exit. Watchdog, other miners and transactions are obliged to nothing.

`Equium`, `CliMiner`, `WebWallet` and `WebDashboard` are safety only: nobody is
obliged to call the program or to click.

## 4. Proofs

TLAPS proves the following for every value of the constants that meets the named
assumptions, which the runs evaluate on their instances. What they ask beyond types:

* `KeysAssumption`, `CliAssumption`: finitely many miners; the vault is nobody's
  wallet; `None` is no height and no message that a miner prints. The watchdog's
  limit is any positive number of seconds, unrelated to the program's timeout.
* `ScheduleAssumption`, `SupplyAssumption`: the cap fits a `u64`, a `u64` has at most
  64 bits, and two first epochs fit the cap, as `state.rs:17-29` chooses them.
* `RaceAssumption`: finitely many threads, none of which is the main thread.
* `TargetAssumption`: the largest target fills four words of bytes, and the constants
  of the retarget are words.
* `DifficultyAssumption`, `EnvironmentAssumption`, `DesktopAssumption`,
  `AppAssumption`, `WalletAssumption`, `DashboardAssumption`, `WebAssumption`,
  `CoresAssumption`, `ExplorerAssumption`, `ProxyAssumption`, `WebMinerAssumption`,
  `GpuAssumption`: types; positive intervals, windows and limits; `None` (`Null`,
  `NoSession`) differs from what it is told apart from.

**`SumProofs`.** Lemmas on which the rest leans. The sums of the community modules
(`SumFunction`, `SumFunctionOnSet`) are folds over finite sets; that they
do not depend on the order, and that one entry can be added, taken out or changed,
is an induction. The induction theorems of the library take an operator, which no
prover here can instantiate: `NatSetInduction` and `SubsetInduction` state the same for a
*set* of numbers or subsets, from a least counterexample (`WFMin`). The same
induction shows that a recursive function with a linear step exists and is the only
one (`LinearExists`, `LinearAgrees`), from which `Powers` follows, and numbers
are taken place by place: one place of a sum with its carries (`CarryStep`) and five of a
long division (`FivePlaces`).

**`EquiumProofs`.**

1. `NextTargetDamped`: `next_target` stays in range, at most doubles, at least halves
   and moves in the direction of the window.
2. `TypeCorrect`: types, action by action; `AdvanceRoundTyped` is shared by the
   two instructions that close a round.
3. `InvariantHolds`: the inductive invariant `IInv` is the conjunction of five
   named parts, which include `VaultCoversCap` and `EmptyRoundsPaced`.
   `NextBoundaries` is what lets the proof replace `height % N = 0` by "the
   countdown reached it" (`NextMultiple`, `MultipleUnique`); `ClosedIsGenesis`
   gives the state that `fund_vault` opens; `EmptyRoundsPaced` needs its own
   accumulated slots (`OneMoreTimeout`); `VaultCoversCap` and `WindowAnchored` need
   only those. `VaultAlwaysCovers` and `EmptyRoundsTakeTime` extract two parts.
4. `ProgramImplementsIssuance`: under the mapping `Issuance`, every step that
   closes a round is an `Emission` step, and every other step stutters.
5. `ScheduleAlwaysFits`: the supply bound is proved once, of `Emission`
   (`IssuanceCapped`), and lifted through that refinement. The invariant there
   (`BudgetInvariant`) adds one whole epoch at the current reward to what the current
   epoch may still issue: this is the margin that a halving eats half of, whatever it
   rounds away.
6. `SupplyNeverExhausted` follows from 3 and 5: neither of the two limits in `mine`
   can refuse a valid solution while the schedule has a reward.
7. `RetargetsDamped` and `RenouncingIsFinal`: action properties, from `IInv` and
   `NextTargetDamped`.
8. The target in bytes, for any width of bytes and words. `OrderOfBytes`: the order of
   digit strings is that of the numbers (`LexicographicOrder`). `ScaleOfBytes`: bytes and
   limbs write the same number (`LimbsOf`, `WrittenLimbs`); the carry chain keeps the
   sum of its places and leaves every place a word (`CarriedSums`); the long division keeps
   its remainder below the divisor, so that every place of the quotient is one too
   (`LongDivision`); and the quotient leaves the range exactly if its first place is not
   0. `RetargetOfBytes`: a product that saturates compares with a word as
   the product does (`SaturatedProduct`). `ScaleStaysExact`, which
   includes that no bit is lost, and `OrderStaysNumeric` follow for every target.
   `RetargetsStayExact` brings them back to the program, with the fact that some bytes
   write every target (`TargetIsWritten`): every retarget in a behaviour of `Equium` is
   what bytes and words make of its target, so that what is proved of targets as
   numbers holds of the bytes.

**`RoundProofs`.** Three invariants on top of `IInv`, one after the other.

1. `HInv`, the history. `ChainGrows` ties the length of the challenge chain to the
   number of blocks; with it `WorkIsFreshAndOwn` is inductive, because a prefix of the
   chain never changes (`PrefixOfAppend`). `NeverPaidTwice` follows: the height is
   in the I-block. `LastWinnerSurvives` is the field's meaning across empty rounds.
2. `Books` and `PaysSchedule`. `BooksAlwaysBalance`: an appended block adds its reward
   to the sum (`BlocksAppend`), a transfer moves tokens and makes none
   (`TransferKeepsSum`). `ScheduleIsPaid`: halving a reward that was halved k times is
   shifting it k + 1 times, although each halving rounds (`QuotientOfQuotient`), and from
   the 64th on nothing of a `u64` is left (`RewardIsShift`). `Pow2` is a recursive
   function, and `Pow2Unfolds` shows that it satisfies its equation.
3. `CliInv`, what a miner remembers. `MinersRunProgram`: every behaviour of `CliMiner` is
   one of `Equium`, so that all of the above holds with clients. `EarningsReal` needs that a
   config copy of the current height agrees with the program in challenge and
   reward (`Seen`), which `Mine` then confirms. `ReasonsTrue`, for every speed of a miner's
   seconds against the slots, needs that a height is first seen after its round opened,
   except for the first round, which `fund_vault` opens anew (`Watching`), and that an
   advance was prepared for a height that had been watched for `ROUND_STALL` seconds
   (`Advancing`). A refusal then means that the round was closed, or opened anew, or that
   the chain made fewer slots in those seconds than its timeout asks for.

**`RaceProofs`.** `RaceCountsExactly`, `RaceExhausts` and `RaceHangsOnlyStuck`. The counter is the sum of what
the finished threads tried (`Tally`). The second says what the caller's "exhausted", and
the whole budgets it then counts, stand for, with its two other causes: the deadline and
refused parameters. Every thread that left its loop
with budget left did so because of the flag, and the flag is up only with a
solution on its way or received, after the deadline, or once the main thread has stopped
waiting (`ThreadOk`, `MainOk`); it stops waiting for nothing else only when every sender
is gone. After the deadline at most one solution is thrown away, because each one is in
the channel of one place by the time the race returns; with refused parameters no
thread exists (`Refused`); and the budgets bound what was tried (`SumBound`). For the
third, a solution that was sent is in the channel or is the winner, never both, and its thread does not come back to `send` (`SendersOk`): a thread that is blocked there
while the main thread joins is a third one, or a second after the deadline. This
is the safety half of `ReturnsUnlessStuck`, for any number of threads.

**`DesktopProofs`.** The invariant adds to the checked properties
that sessions not yet started left no trace (`Unstarted`) and that nothing is
running between the two lock sections of `start_mining` (`MidStart`); without the
latter `FlagOfNewest` is not inductive. `MovingKeepsInv` and `EndingKeepsInv` carry
all thread steps. Every step of `DesktopApp` is one of `DesktopMiner` or a restart
(`AppStep`), so that `AppKeepsSessions` lifts both properties to the whole application,
crashes included; `AppUnlockedIsSaved` is inductive as it stands.

**`WalletProofs`.** `SpecKeepsKeysSaved` and `SpecStoresOnDisk`, for every set of keys
and any number of derivations in flight. The invariant follows the draft through
the wizard (`DraftIsSaved`: the ticked box is about the key on the screen), says that
nothing is in memory before the provider has loaded (`NothingLoaded`) and that the
menu is there only with a key (`MenuHasKey`). `RenderKeepsInv` carries every action
that changes the status.

`DashboardImplementsWallet`: every behaviour of the page is one of its wallet, mining and
sending being stutters or steps of the menu; so the wallet's theorems hold of the page
(`DashboardKeepsWallet`). `SpecHasOneEngine`: no order of starting, stopping, locking,
late unlocking and reloading leaves an engine that nobody can stop.
`SpecDialogIsTrue`, for any number of transfers: a transfer is on the wire only once
it is built (`SendInv`), and a dialog that says "sending" or "sent" speaks of a transfer
of its own (`DialogInv`).

**`EngineProofs`.** `SubmittingHeld`: a lifecycle takes the flag only when it is free,
lets it go only from the critical section, or stays on its side (`LockMove`), for any
number of slots and of lifecycles of one slot. `CreditsReal`: a transaction that landed
closed the round that its lifecycle will report (`LandedAreWon`). `PoolShown`: no stored
count leads out of the picker's range (`PickerInv`), and the picker does not move
during a session.

**`ClientProofs`.** `WindowAlwaysHolds`: the bucket, filtered, is what was granted in
the last window (`ProxyInv`), because filtering twice, or filtering before a tick
instead of after it, changes nothing (`FreshYoung`, `FreshOlder`); both are inductions over
sequences (`SeqInduction`). `PageStaysLaunched`: what is on its way and what is shown are
whole answers (`PageInv`). `WebEndsSoon`: a stopped loop of the web miner sends at most
one more transaction; `WebLoopMoves` says what a step of a loop may do seen from outside.
`ChartStaysStable`: a tick that is not the last of its minute leaves every block in its
bucket, and the last moves every bucket by one place (`OffsetOfTick`, `BucketsShift`); the
oldest counts drop out and each of the others gets a smaller weight (`WeightsRise`), so
that no rate rises (`RatesFall`). `EveryTickIsStable` states this for any finite set
of blocks and any ages, of which the run checks pairs.
`GpuSendsCurrentWork`: when the loop looks at a hit, its last poll returned nothing or the
round that the farm was last fed (`GpuInv`).

Proved only, and left out of the runs because a property there rests on them or implies
them: `VaultCoversCap` and `ScheduleFitsCap` (of `NeverExhausted`), `PaidOnce` (of
`WonByFreshOwnWork`), `HangsOnlyStuck` (of `ReturnsUnlessStuck`), `LastWinnerIsLatest`,
`RenouncedTarget` and `RenouncedUnfunded`.

Model-checked only:

* every liveness property (`RoundsKeepClosing`, `StoppedEnds`, `WindowFollows`,
  `ReturnsUnlessStuck`, `SlotsKeepWorking`, `StopDrains`, `KeepsMining`, `ServedAgain`,
  `ExplorerCatchesUp`, `FollowsChain`): fairness and ENABLED are out of the prover's reach;
* `ServerIsRight`, on every log up to its bound, and the findings, which are counterexamples.

## 5. Findings

Where the models disagree with what the repository says:

* **Two desktop miners at once** (`desktop_two_miners`). A thread that ends late
  clears the state of the session started after it (`miner.rs:458`). That
  session goes on unseen, out of reach of stop, and a further one can start.
* **A locked wallet that signs** (`website_signs`). `signTransaction` is a closure
  over the render it was made in (`wallet-context.tsx:192`). A transfer that took it
  before the wallet was locked or forgotten signs afterwards, past the "wallet is
  locked" that the function throws without a key.

Others, which the checked models contain and no run is spent on:

* **A solver race can hang** (`cli-miner/src/main.rs:475`). `sync_channel(1)` buffers
  one solution and its receiver lives until the function returns, so a third
  solution blocks its thread in `send` while the main thread waits in `join`.
  `ReturnsUnlessStuck` and `RaceHangsOnlyStuck` say exactly when.
* **Two jobs on one worker.** A slot is idle in the supervisor's eyes while its handler
  awaits the hash or an error pause (`miner-engine.ts:124`): a kick then starts a
  second lifecycle, against `miner-engine.ts:111`. The instance of `web` has room for
  one such.
* **Blocks that were never mined.** The GPU miner logs "MINED BLOCK" and adds the
  reward when `send_mine_tx` returns a signature (`miner.py:327`), which with
  preflight skipped and no confirmation says nothing of the chain; its
  `DEPLOY.md:125` says the money landed. Two hits for one round are counted twice.
* The web miner credits a block when it is confirmed, without looking at
  `value.err` (`miner.ts:163`); it credits it to the session that runs by then, at
  the reward shown when Start was pressed. A worker made by a loop that was stopped
  during its fetch is never terminated, and the page may say "solving" after stop.
* The program never raises `StaleChallenge`: a lost race comes back as
  `InvalidEquihash`. The CLI reports it as a stale challenge, which `ReasonsAreTrue`
  shows is right; the website calls it a solver bug (`miner-engine.ts:404`).
* "another miner beat us to it" (`main.rs:201`) is what the CLI makes of every
  `RoundStillActive`. It is wrong in two cases, which `ReasonsAreTrue` names: a miner that
  was watching the first round before `fund_vault`, and slots so slow that 75 seconds hold
  fewer than the timeout.
* "exhausted" (`main.rs:250`), with whole budgets counted, is also what the CLI makes of a
  race that ran into its deadline, perhaps with a solution thrown away, and of
  parameters that `BaseState::new` refuses (`main.rs:450`). `ExhaustedMeans` names both.
* A worker of the web miner whose script did not load rejects its first job, is kept, and
  never answers the second, for which there is no timeout (`miner.ts:54-72`): the session
  waits until it is stopped. `KeepsMining` names that wait.
* The comment in `schedule.rs:12-14` speaks of some 30 halvings; 25 EQM in base
  units reach zero after 25.
* The first overflow check of `scale_target` (`target.rs:67`) never fires: a place is
  below 2^64 and a divisor at least 1. The check of the quotient's first place
  (`target.rs:81`), whose comment expects 0 there, is the one that saturates.
* `renounce_admin` before `fund_vault` is accepted and final (`RenouncingIsFinal`).
* The GPU farm is idled when a lagging endpoint says "not open" after another has
  shown the round, and is not fed that round again (`IdledByLag` in `FollowsChain`).
  It leaves an endpoint that fails, never one that answers with an old state. At
  startup it leaves one that has no config account (`miner.py:124`); in the main
  loop it keeps it (`miner.py:194`).
* Website wallet: an unlock that resolves after "forget" leaves the page unlocked with
  nothing stored, and Lock then does nothing (`StoredIsOnDisk` says what still
  holds). The Enter key submits an unlock twice, and the second may unlock again
  after a lock.
* The core picker offers all processors, the engine takes 32 at most.
* "Max" in both transfer dialogs rounds to six decimals, which may be more than what
  can be sent; the button then stays disabled.
* Desktop wallet: between the answer of `import_wallet` and the refresh the form can
  be submitted again, and a save that fails half way leaves a torn file under an
  unlocked key (`UnlockedIsSaved`). An answer to a transfer ends the "sending" of a
  dialog opened since.
* Explorer: the stamps of the chart's buckets are called their starts (`rpc.ts:250`)
  and are their ends, and blocks of the running minute are left out (`rpc.ts:314`). A
  failed read of the blocks is an empty list, which replaces the list shown.
* The proxy counts a batch as one request.
* `init-localnet` with `REUSE_MINT` and a mint account that exists fails in
  `createAccount`.

## 6. Not modelled

* The Wagner solver, the OpenCL kernel and the Equihash tree: pure, far beyond what
  can be enumerated; what a solver finds is a free choice everywhere.
* Rendering, static pages, the share card (which draws an image), statistics, logs,
  the wording of failures.
* Desktop settings (`set_rpc_url` changes memory before it saves), revealing the
  secret from the dashboard; validation of recipients and amounts; the configuration
  file and device selection of the GPU miner, and its watchdog's time limits.
* `equium-verify`, which checks one solution by hand.

The runs ask one question per component and are kept to a number that can be
repeated on every change.

## 7. Running

    tlc -workers 2 -config MCEquium_schedule.cfg MCEquium
    tlapm WalletProofs.tla

`PROJECT.json` maps every definition to the lines it models and lists runs,
mutants, findings, hazards and theorems.
