# Verification of mytonprovider

TLA+ models of the manager in `src/mytonprovider/`, TLC runs on small instances,
and theorems checked by TLAPS for every value of the constants. `PROJECT.json`
maps every definition to the lines it models.

## The system

mytonprovider runs a TON storage provider on one host. It consists of

- **mytonproviderd**, a service (`mytonprovider --daemon`) that runs each
  module's `on_daemon` and its periodic cycles, each cycle in a thread of its own;
- **consoles**: any number of interactive processes (`mytonprovider`), each
  running one command at a time;
- **the updater**, a second service that runs one pass a day (`__main__.py`);
- the services it manages: the storage daemon (tonutils-storage), reached through
  an HTTP API, and the provider daemon (tonutils-storage-provider), reached through
  its config file and by restarting it.

They share a database (mypycli: one JSON file, written field by field), the config
file of the provider daemon, the file of verification times, the storage directory,
the source checkouts and binaries, systemd's units, the wallet on the chain, and the
lock file of the benchmark. Only the benchmark is locked. Everything else is read,
changed and written back while others do the same, and this is where the program is
hard.

### Inventory

| Component (file) | State | Operations | What makes it correct |
|---|---|---|---|
| ton-storage, bags (`ton_storage.py`, `clients/ton_storage`) | index of bags, directories | `bags add/start/stop/remove`, daily cleanup | cleanup removes orphans, all of them, and nothing else |
| ton-storage, verification (`ton_storage.py`) | file of verification times | 10-minute cycle, `bags verify` | no verification is claimed that was not made; none forgotten; none put off for ever |
| benchmark (`benchmark.py`) | lock, test file, snapshot | hourly cycle, `benchmark run` | one at a time, results in order, a stale one renewed |
| prices (`ton_storage_provider.py`) | none | cost to rate, rate to cost, longest span | what is set is shown, a span pays for a proof |
| provider config (`ton_storage_provider.py`) | config file, running config | `set-cost/-space/-external-ip`, `apply_config` | changes are kept, go together, and are applied |
| wallet (`ton_wallet.py`) | key (in that config), registered flag, balance on the chain | `wallet import/export/transfer`, `register` | the flag is true of the key; what is reported as paid is paid, and once |
| telemetry (`telemetry.py`, `clients/telemetry`) | switch, times of cycle and benchmark | minute cycle, `telemetry enable/disable/pass` | one benchmark a day; enabled means sent |
| updater (`updater.py`; `on_update` and `build` of three modules) | sources, binaries, service | daily pass, `updater update/enable/disable/set-origin` | old enough commits and no others are taken, and built |
| sys-metrics (`sys_metrics.py`) | previous counters, daily history | refresh cycle | rates over the time the counters cover |
| status, update checks (`mytonprovider.py`) | cached flags | display | none beyond display |
| port checks (`utils.py`) | none | one task | none beyond display |
| installer (`scripts/`, `on_install` of two modules) | units, configs, path and ports in the database | `mytonprovider install`, again and again if it fails or at another path; uninstall | the daemons run with what was recorded; an install can be finished from any leftovers |

What is hard, by kind: two writers of a file without a lock (verification times,
provider config); a decision made on a listing, a time or a commit that is stale
when acted on (cleanup, telemetry enable, updater); failures between two steps
that belong together (import and flag, update and build, send and record; the steps of
an install); messages that land late, never, or without effect (registrations);
cycles that must get on though one item always fails (verification, updater,
benchmark); decimal and span arithmetic at its bounds. The list with lines is
under `hazards` in `PROJECT.json`.

## Modules

Every component module has the shape: constants with named assumptions,
variables, `TypeOK`, `Init`, one action per step between which other processes can
act, `Next`, `Fairness`, `Spec`, properties. `MC<Module>.tla` gives TLC its sets,
`<Module>_proofs.tla` holds the theorems. Operators commented "Mutant" are wrong
variants of the definition that follows them; they are used by no specification
and exist to show that a property notices the mistake. History variables (marked so) are not in the code: they
record what a property speaks about and no guard of a code step reads them.

**BagCleanup** models `cycle_cleanup_bags` in its three reads (listing the index
through the API, reading the directory, removing entry by entry), the `bags`
commands, and the storage and provider daemons as the API calls they make.
Directory entries are bag names with a case (`BAG_ID_RE` admits both, the code
compares upper case) or other files of the provider. `wanted` is the set of bags
being downloaded.

**BagVerify** models `cycle_verify_bag` (list, read the file, pick the oldest, ask,
write the copy back) and `_cmd_bags_verify` (ask, read, write back), each split at
the request. `Slow` bags never answer within the request timeout.

**SharedFile** is the abstract specification of a file that several programs read,
change and write back whole without a lock. Each takes the content with its own change
in hand; who was not overtaken changes the file in place, who was brings back what it
took; or the change is dropped. BagVerify implements it (the writers are the cycle and
the console, a change is a record of one bag that is not earlier than the one before)
and so does ProviderConfig (the writers are the consoles, a change is that of one
command): `ImplementsSharedFile` in both.

**Benchmark** models the cycle and `benchmark run` under `_try_lock`, through the
phases network, disk and save, with failures in each, the test file with its
`finally`, a killed console and the restart of the daemon. **Measurement** is the
abstract specification it implements: one measurement at a time whose result, if
any, carries a time within it.

**Pricing** is `_calculate_min_rate_per_mb_day`, `storage_cost` and
`_calculate_max_span` in integers: a cost in ten-thousandths of a TON, a rate in
billionths, a span in tens of seconds (TLC's integers end at 2^31). `ShowsCost` and
`PaysForProof` say what they must come to.

**ProviderConfig** EXTENDS Pricing and composes the provider config with the
wallet: `apply_config` as read, write and restart, for any number of consoles; on
top of it the four commands that use it, the registered flag that `wallet import`
clears afterwards, and `register` with its message, which may land after the
15 seconds the console waits, paid for or only accepted. `set-space` looks at the disk, whose use changes.

**Wallet** models the payments: `wallet transfer` and `register` look at the balance,
ask or prepare the comment, build the wallet anew from the key in the config
(`get_wallet` is called twice), send, and wait for the message to be found, as
`send_and_wait` does. An import is one step here, its writing being in
ProviderConfig. Amounts are small numbers of a unit; the gas a message costs is any of
`Gases`, more or less than the reserve, since nothing in the code bounds it.

**Requests** is the abstract specification of what a command is to the chain: sent once,
carried out at most once, at any later time, also when nobody waits for it any more, or
never; a client that has seen it carried out may set a flag, and nobody else does.
Wallet implements it (`ImplementsRequests`): the requests are the numbers of the
commands, carried out means that a message was accepted, the flag is that of the
registration.

**Installer** models `mytonprovider install`: `on_install` of the storage daemon and
then of the provider's, in stages between which a daemon may write its config, the
updater or a console may restart a service or change a config, or the command may
fail; the container that tries again until it has ended well (`entrypoint.sh`,
`compose.yml`); and `uninstall.sh`. A config is the port in it; the API and the UDP
port are one number, drawn anew by every install. Its specification is named
`InstallSpec`, and so on, as its proofs share a module with those of BagVerify.

**Telemetry** models `cycle_send` step by step (switch, telemetry, due, snapshot
read again, send, reply, record) and `telemetry enable`, whose second step looks at
the time of the last cycle to decide whether to restart the daemon. The restart may
raise, with the daemon as it was or down, and the console may be killed at any step.

**Updater** models `update_modules` (age of the upstream commit; `on_update`, which
asks by a second fetch whether there is anything to take, be it pushed since; checkout;
build), `updater update` with or without a ref, and enable and
disable. A commit is a number with a date; a build takes the source as it is when
it begins. `updater update` with an author or a repository gives the module another
upstream: to the model, its next commit.

**SysMetrics** models `cycle_refresh_snapshot`. A reading of counters is the time it
was taken and, for a disk, the life of the device it was taken of, so that the model
tells which two readings a rate is the difference of; figures and averages are left
out. A cycle may raise with some of the disks read and its time not taken yet
(`RefreshRaises`), or with both and its day not recorded (`SnapshotFails`). Around the
cycle disks are plugged and unplugged, the link comes and goes, the clock may be set
back and the daemon may restart.

### External parts and what is assumed of them

- mypycli: a field of the database is written whole and seen by every process; a
  cycle that raises is called again at its next turn; the cycles registered are
  those of the modules enabled when the daemon starts; `write_config` replaces a
  file in one step.
- tonutils-storage: adding, removing and verifying are single steps of its API,
  and a bag's directory appears when it is downloaded.
- tonutils-storage-provider reads its config when it starts and at no other time.
- git and the builds: fetching and updating take the upstream commit of that
  moment; a build replaces the binary when it ends.
- The chain may take a message that was sent, at any later time, or never. Of the
  messages with the wallet's sequence number it accepts one and voids the others; it
  accepts a message whose payment the balance does not allow, without the payment.
  The provider daemon spends from the same wallet.
- systemd: starting a service that runs is nothing, stopping and restarting take
  effect before they return.
- Both daemons make a config when they start without one, some time after.

## Runs

| Run | What it shows |
|---|---|
| `cleanup` | Whatever comes and goes during a pass: no provider file is removed, a live bag loses its directory only if it was added since the listing, and every orphan goes some day. |
| `verify` | Two writers: no record later than a verification; a record goes back only in a race; every overdue bag is verified unless a bag that always times out is at least as overdue. |
| `benchmark` | Holder of the lock and runner are the same process at every step; test file only in the disk phase or after a kill there; the snapshot never goes back; a stale snapshot is renewed; Measurement is implemented. |
| `config` | Two consoles, failed restarts and kills: rate and span of one cost everywhere, shown as it was set and enough for a proof, the service runs the file unless a restart is due or was missed, changes undone only in a race, the space dedicated within the disk unless space not in use was counted as free twice, the registered flag wrong only after an import that died, was taken back, or was followed by an earlier registration's confirmation, or after a registration that was accepted and not paid. |
| `wallet` | Two consoles, two keys, the daemon and the chain: what send_and_wait finds was paid, unless the wallet was spent from or exchanged since its balance was looked at, or the gas was more than the command left for it; a provider pays for two registrations only with --force, from two consoles at once, after an attempt given up while its message could land, or after the key was imported again. |
| `installer` | Installs over one another at two paths, failing anywhere, with restarts and config changes by others: the daemons run with the path and ports recorded unless one was restarted at the wrong moment or an older config was put back; an install that is tried again until it ends well does end. |
| `telemetry` | The server gets two benchmarks within an interval only if a reply was lost; enabled telemetry is registered and sent again and again unless an enable was misled, was killed or could not restart the daemon, all of which a restart makes up for. |
| `sysmetrics` | Two disks, a link and a clock that may do anything between cycles: a rate is divided by the time between its two readings and is of one device, but for disks not read in the last cycle or gone after a single reading, and the span of what a cycle that raised has read; the history keeps the newest days. |
| `updater` | A binary differs from its source only around a build under way, failed, cut off or overtaken; a recent commit is taken only if pushed after its age was checked, also to a module that was up to date then; an old enough one is taken, though another module's repository never answers. |

Three runs expect a violation: they state what a text of the repository says, and
TLC shows a behaviour of the code that contradicts it (`findings` has the quotes).

| Run | Statement | Counterexample |
|---|---|---|
| `cleanup_kept` | "Files kept on disk" | `bags remove` without `--with-files`, then the daily cleanup |
| `telemetry_sent` | "Telemetry sending enabled" | disable, daemon restart, enable within two minutes of the last cycle: no cycle is registered and no restart made |
| `updater_built` | "Daily auto-update of the … binaries" | source updated, build fails: the next pass sees nothing to update |

More deviations are visible in the passing runs as the exception a property names:

- a "bags verify" during a cycle is forgotten when the cycle writes its copy back
  (`RecordsGoBackOnlyInRace`);
- a bag added between the cleanup's listing and its scan loses its files
  (`LosesOnlyBagsAddedSinceListing`);
- a commit pushed between the age check and `on_update` is taken however recent
  (`RecentOnlyIfPushedSince`);
- a restart that fails during `wallet import` leaves the old key's flag on the new
  one (`FlagIsTrue`);
- `set-space` given twice with nothing stored dedicates more than the disk has, since
  the space already dedicated counts as free (`SpaceWithinDisk`; the space "must fit
  free disk", `src/.env.example:7`);
- a message is accepted without its payment and reported as done ("TON transferred",
  `src/mytonprovider/locales/en.yml:276`) when the wallet was spent from while the operator
  was asked to confirm, or when the gas is more than the reserve of 0.0005 TON
  (`AcceptedIsPaid`, `overtaken` and `dear`);
- a registration accepted without its payment sets the flag (`FlagIsTrue`);
- an enable whose restart of the daemon fails or is never reached leaves telemetry
  enabled without a cycle (`EnabledIsRegistered`, `interrupted`);
- after a cycle of the metrics that raises half way, what it has read is next compared
  over one interval and divided by two (`SpansAgree`, `torn`);
- a registration given up and tried again is paid for twice (`PaidOnce`);
- a restart between an install's stop and its writing of the config leaves the daemon
  running with the config before (`InstalledWorks`);
- a disk that goes after its first reading keeps it and has its next rate taken from
  it (`SpansAgree`, `lone`).

A cost below 0.0031 TON is accepted and charged as nothing: theorem `RateBounds`.

### Bounds

| Bound | Value | Why it is enough |
|---|---|---|
| bags | 2 (cleanup), 3 (verify) | one bag whose directory goes while another comes or stays; two for a lost update or to compete for a cycle, a third that never answers |
| consoles | 2 | a race needs two writers; the daemon is a further one |
| clock | verify 2, benchmark 4, telemetry 6, updater 2, sys-metrics 4 | enough for something to become due, be done and become due again; time is counted in the interval at stake |
| commands | 2 to 3 over all consoles | the longest counterexample met needs two, the third may interfere |
| restarts, failures, cycles that raise | 1 | each of them leads to a state in which further ones can be taken up again; what a second adds is repetition |
| days | 2 ticks long, a history of 2 | the clock reaches a third day, and a day already dropped again when it is set back |
| disks | 2, one plugged in again | one goes and comes back while the other is read |
| wallet | 2 keys, a balance of at most 2, amounts of 1, a reserve of 1, gas 1 or 2, 3 commands | a wallet that can pay for one message and its gas and not for a second, or not even for one if the gas exceeds the reserve; a third command meets what two have left |
| ports, paths | 2 and 2, the port in a config a daemon makes being one of them | an install at another path with another port, and back; the config a daemon makes may by chance be right |
| installing | one console, any number of installs and failures | every stage can fail, and the state space is finite without a bound |
| commits | 2 | one to be checked, one pushed after the check |
| costs | two: one in the middle range of the span and one at its lower bound | the lower bound of the span is reached at 25.6 TON; every cost is proved (`CostsShown`, `SpansPay`) |
| space | spaces 2 and 4 on a disk of 3 | each alone is accepted or refused, repeated setting exceeds the disk |

The clocks and counters that are bounded in the model are unbounded in the code;
the theorems hold for every value of the bounds.

### Fairness

A cycle's steps are weakly fair: mypycli calls a cycle again and again, and each
of its requests, builds and measurements ends, by a timeout if need be. What is
tried again and again and may fail each time is strongly fair where a property
needs it to succeed some day: removing a directory that the file system does not
refuse for ever, a verification of a bag that is not `Slow`, a phase of the
benchmark, fetch and checkout of a module that is not `Faulty`; builds only in
`updater_built` (`BuildingSpec`), where a build that fails but once is to blame. Commands,
the environment, kills and failures are never fair. `EnabledSends` asks only
for weak fairness of the cycle and of a command under way, whose restart of the daemon
may raise each time. ProviderConfig and
SysMetrics have no fairness and no liveness property: commands run once and nobody
tries them again, and a snapshot that is not taken is simply missing. Wallet has none
either: whether a message lands is up to the chain.

Installer: a wanted install is begun again (weakly fair), which compose.yml's
`restart: unless-stopped` with the marker of `entrypoint.sh` sees to in a container and
the operator on a host; its steps go on (weakly fair). A daemon that is started again
and again makes its config within the ten seconds in one attempt of many (strongly
fair). And from some time on nothing fails any more except for what is lacking: the
property is that what was left behind does not keep an install from ending.

Deadlock is checked except in the Updater runs: with the service disabled and all
commands given, that system really stops. In the others the daemon's cycle goes on.

## Proofs

| Module | Theorems |
|---|---|
| `BagCleanup_proofs` | TypeCorrect, ProviderDataSafe, ListingComplete, OnlyLateBagsLoseFiles |
| `TonStorage_proofs`, of BagVerify | TypeCorrect, BackedAlways, RecordsAreBacked, CurrentAlways, RecordsLostInRaceOnly, VerifyImplementsSharedFile |
| `TonStorage_proofs`, of Installer | InstallTypeCorrect, InstallWorks, InstalledAlways |
| `Benchmark_proofs` | TypeCorrect, OneBenchmark, FileOnlyAfterKill, ResultsInOrder, SnapshotMonotone, Refinement |
| `ProviderConfig_proofs` | NearestRateShowsCost, RoundTrip, RateBounds, SpanBounds, CostsShown, SpansPay, TypeCorrect, OneCost, ShownIsSet, ProofsArePaid, Applied, Current, FlagTrue, ChangesKeptApart, ConfigImplementsSharedFile, SpaceFits |
| `Telemetry_proofs` | TypeCorrect, RecordAgrees, OneBenchmarkPerInterval, Registered |
| `SysMetrics_proofs` | TypeCorrect, RatesOverTheirSpan, RatesOfOneDevice, RatesAreOfReadings, NewestDaysKept |
| `Updater_proofs` | TypeCorrect, BinaryFollowsSource, InHandOld, RecentOnlyIfPushed |
| `Wallet_proofs` | TypeCorrect, OneMessageAlways, WalletImplementsRequests, AcceptedHavePaid, RegistrationsArePaidOnce |

`ListingCoversIndex`, `CopiesCurrent`, `StampsInOrder`, `RatedAreRead`, `RecordIsServers`
and `CopiesAreCurrent` are inductive parts that no run checks on its own: they are
proved, and what rests on them is checked. `ImplementsSharedFile` and
`ImplementsRequests` are proved and in no run either; TLC finds no error in them on the
instances of `verify`, `config` and `wallet`.

They rest on the modules' named assumptions and no others: bounds are naturals,
markers such as `NoBag` are not members of the sets they stand beside, entries that
are not bags have no bag's name, and accepted costs are positive. Nothing is assumed of
the amounts, the reserve and the gas of the wallet but that they are naturals.

The arguments, and why the invariants are what they are:

- *Verification.* `RecordBacked` (a record is no later than the bag's last
  verification) is not inductive: the file is overwritten by a copy. `CopiesBacked`
  says it of the copies and of the time about to be written. That a record goes
  back only in a race rests on `CopiesCurrent`: a writer that was not overtaken
  holds the file itself, whose records are no later than the stamp it brings.
- *Shared files.* The refinement maps what a writer is about to write to its hand, and
  the `raced` of those that have something in hand to `overtaken`. That a writer not
  overtaken makes an edit of the file as it is rests on `CopiesCurrent` and
  `CopiesAreCurrent`; that a verification is no earlier than the record it replaces, on
  `Backed`. A restart, a failure or a killed console is a `Drop` if it comes between the
  read and the write, and otherwise a stutter, as every other step is.
- *Installation.* `InstalledWorks` speaks of what an install leaves in the end, and the
  invariant `Works` of what each stage leaves to the next. `Placed`: once the path was
  asked for the database has it, no service counts as installed while its own stages
  run, and a unit that counts (`HasUnit`) calls the daemon with what is recorded.
  `StorageServes`: when the provider's turn comes the storage daemon runs as the
  database says, or it would not be the address that is written down. `ConfigKept`: from
  the writing on the config at that path has the recorded port, and so has every copy in
  a console's hand that was read after it; the others are `stale`. `RunsRecorded`:
  between stop and start the daemon is down, or was started with the config written,
  unless it was restarted too early (`disturbed`). Both histories are exactly the
  exceptions without which the invariant is false: the restart the start then does not
  make up for, and the older config put back.
- *Cleanup.* The action property rests on `ListingCoversIndex` with the type
  invariant and `added`: what is in the index and not in `added` is in the
  listing, hence not an orphan.
- *Benchmark.* `RunnerHoldsLock` is inductive with the types and gives, by
  `StampsInOrder` (the snapshot is no newer than the beginning of the run under
  way), that the snapshot is monotone. The refinement maps the lock's holder to
  the runner: `Save` is `Publish`, and its stamp lies between beginning and now by
  `StampsInOrder`; every other end of a run is `Abandon`.
- *Config.* `PricesTogether` must speak of the copies in hand as well as of the file
  and the service, since any copy may become the file. `UndoesOnlyInRace` follows
  from `CopiesAreCurrent` and the lemma that a change touches its own field.
  `FlagIsTrue` is inductive because it admits the import that is between its write
  and its clearing of the flag.
- *Telemetry.* The benchmark in hand is due by the record, and the record is the
  server's unless a reply is outstanding or lost (`RecordIsServers`). `EnabledIsRegistered`
  is inductive with the types: every step that could take the cycle away or leave it
  gone is a restart, which brings it back, or one of the two named exceptions.
- *Updater.* `InHandIsOld` carries the age from the check through `on_update` to the
  checkout, for modules without a push in between; dates in the future are excluded
  with it.
- *Metrics.* `SpansAgree` and `RatedAreRead` are inductive with the types. A cycle that
  raises marks what it read as `torn`, and the next that takes its time reads everything
  that is there, or names it `mute` or `lone`. It does not forget which disks were
  unplugged (`pulled`), so `OneDevice` needs no exception for it.
  `OneDevice` speaks of disks that are there; it needs `MissingIsForgotten` (a disk
  that is not there has a reading only if no cycle has seen it missing or it went
  after a single reading), or plugging it in would break it. `HistoryIsNewest`
  is inductive; the lemma `NewestKeeps` says what the cut of the history drops, and
  takes the earliest day from the well-foundedness of the naturals.
- *Prices.* Elementary integer arithmetic for all costs, without a bound.
  `NearestRateShowsCost` holds for either rounding of a tie, and so for the binary
  fractions the code rounds. That every config shows its cost and pays for its proofs
  follows from `PricesTogether` and the two facts for all costs, `CostsShown` and
  `SpansPay`.
- *Space.* `SpaceWithinDisk` needs that the copies in hand and the changes asked for
  fit as well, since either may become the file.
- *Wallet.* `AcceptedIsPaid` speaks of the moment a message is found. `Covered` goes
  back to the moment the balance was looked at: from there on the wallet has what the
  command needs, until its message is accepted: that it then pays is the arithmetic of
  the balance required less the payment, against the gas (`Spare`, `dear`). `Numbered`
  ties the message to the command. `PaidOnce` follows from `Explained`: for a key without an excuse at most one
  session registers it, by at most one message, and once none does the flag is set;
  `Alone` carries what a registration knows that heeded the flag and began alone.
  That the commands are Requests rests on `Numbered` (a command that has not sent has no
  message) and `OneMessage` (a number is that of one message, in the pool or accepted):
  with them nothing of a command is left to be accepted once its message was.

Only model-checked: all liveness (`OrphansCollected`, `OverdueVerified`,
`StaleRenewed`, `EnabledSends`, `OldIsCheckedOut`, `InstallCompletes`), which is about
fairness and ENABLED and out of the prover's reach. Every invariant and every action
property the passing runs check is proved.

## Not modelled

- Figures and averages of sys-metrics, the choice of its network interface (made in
  mypycli).
- `wallet export`, the resolution of names, amounts as numbers of nanotons; the client
  of the chain beyond sending and finding messages.
- `telemetry pass` (a one-field write) and what a payload contains.
- What `bags` and `storage` print, and the log level of the storage daemon; in the
  configs, the provider's own port and `max_bag_size_bytes`, which only the installer
  writes.
- In the installer: what `install.sh` fetches before `mytonprovider install` (packages,
  Go, Python, sources), the units of mytonproviderd and the updater, and the questions
  for cost and space, whose checks are those of ProviderConfig.
- Status panels, locales, port checks, update flags: display.
- Costs that `float()` accepts and that are not numbers ("inf", "nan").
- Crashes within a write of a file: decided in mypycli.

## Plan

Every component that keeps state is modelled. What could be added:

1. Telemetry composed with Benchmark through the snapshot, in place of the free
   `snapshot` of Telemetry.
2. The largest bag in ProviderConfig, bounded by the space at installation only.
