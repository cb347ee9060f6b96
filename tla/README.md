# TLA+ models and proofs of rrmngmnt

rrmngmnt (Remote Resources MaNaGeMeNT) drives remote Linux machines from a test
program. A `Host` holds users and an executor factory; an executor opens SSH
sessions through paramiko and runs commands in them; services, files, mount
points, packages, network configuration, storage, firewall rules, power and
playbooks are layered on `Host.run_command` and `Host.executor()`. Nothing is
persisted on the client; all shared state is in memory or on the managed host,
where several clients, threads and the system itself may change it between two
commands.

## Inventory

| Part | State it keeps | Operations | Talks to |
|---|---|---|---|
| `ssh.py`, `executor.py`, `common.py` | paramiko client per session; streams, `_rc` per command; `out`/`err`/`rc` of a `CommandReader` | session open/close, `Command.execute/run/get_rc`, `read_lines`, `is_connective`, `wait_for_connectivity_state` | sshd and the program, over one TCP connection |
| `host.py` | class-wide `inventory` and its lock; `users`, `sudo`, cached service provider, factories | construct, `add`, `get`, `executor`, `run_command`, key management, `service` | inventory, every manager below |
| `network.py` | `_c`, `_s`: one session held across nested calls | interface, bridge, bond, route queries and changes, ifcfg files | `Host.executor().session()` |
| `nmcli.py` | an executor made when the object was | add, modify, delete, raise and list connections and devices | NetworkManager, by the words of a command |
| `filesystem.py` | none in `FileSystem`; `_mounted`, target of a `MountPoint` | file tests, create, transfer, wget, mktemp, mount, umount, remount | `Host.run_command`, SFTP |
| `service.py` | provider chosen by `Host`; service names | start, stop, status, enable... of four init systems | `Host.executor` |
| `playbook_runner.py` | `cmd`, `tmp_exec_dir`, last result | upload, run, clean up | `FileSystem`, `CommandReader` |
| `package_manager.py` | detected manager | exist, install, remove, update, list | `Host.run_command` |
| `operatingsystem.py` | lazily filled caches | release info, distribution | `Host.executor` |
| `power_manager.py` | none | status, start, stop, restart over SSH or IPMI | `Host.executor`, ipmitool |
| `storage.py` | none | NFS mount/umount, LVM | `Host.executor`, `FileSystem` |
| `firewall.py` | none | chains, rules | `Host.run_command` |
| `db.py`, `user.py`, `resource.py`, `errors.py` | credentials, parameters | query, command construction | `Host.executor` |

What is hard here is not in one function. The two streams of a command share a
flow-control window with a program that reads its stdin; a session is held and
counted across nested calls and failures; hosts are looked up while other
threads register them; connectivity is polled with timeouts that are not the
ones counted; temporary directories, mounts and files on the managed host
outlive a step that failed; and the choice of a service provider or a package
manager is cached while the host changes.

Per part, what makes it correct:

- **Remote command** – a call ends, returns all output and the exit status or
  says it did not, never deadlocks with a program that behaves, and releases
  its transport.
- **Waiting for connectivity** – not before its timeout, no more probes than it
  allows, and the answer is that of the last probe.
- **Held session** – one session per outermost call, left as often as entered,
  and never used when it is not open.
- **Inventory** – one host per address, the last registered one is found, a
  registered host is not missed.
- **Users and executors** – unique names, no user lost, credentials unchanged
  by use, each command run with the sudo it was asked for.
- **Services** – the object returned can handle its service; "no provider" is
  true; restart works from any state.
- **Packages** – the manager is the first one whose probe did not fail, `True`
  means what it says although the call looked before it acted.
- **Mount points** – `_mounted` is true of the host, nothing on the mounted
  source is erased, no temporary directory is forgotten.
- **Files** – no half-written file taken for a whole one, no unfinished script
  that can be run.
- **Playbooks** – the files that the command names are there and whole while it
  runs, the run's directory is removed, a run can be repeated after a failure.
- **Keys** – the public key that is returned belongs to the private key.
- **Operating system** – an answer describes one system, not half of two.
- **NetworkManager client** – what is reported as done was done to the named
  connection only, with every option given; lists miss nothing.

## Modules

| Module | Models | Composition |
|---|---|---|
| `RemoteCall` | what a caller of `run_cmd`, `read_lines` or `wget` may rely on | abstract |
| `RemoteCommand` | `Session`, `Command`, the three ways of reading, sshd, the program, the connection | implements `RemoteCall` (`Promise`, `PromiseSpec`) |
| `ConnectivityWait` | `wait_for_connectivity_state` over `is_connective` | |
| `HeldSession` | `network._session` | abstract: counter and session for any nesting |
| `NetworkCalls` | the call structure of `Network` and the hostname handlers | extends `HeldSession`; every step is one of its steps (`UsesHeldSession`) |
| `NetworkBridges` | what `add_bridge`, `delete_bridge` and `if_up` do to a bridge | extends `NetworkCalls`; implements it (`BridgesKeepCalls`) |
| `Nmcli` | every method of `NMCLI`, NetworkManager, devices that come and go | |
| `HostInventory` | `Host.__init__`, `add`, `get` and the inventory | |
| `HostExecutor` | `add_user`, `executor_user`, `get_user`, `executor`, and what sessions change | |
| `ServiceSelection` | `Host.service`, the three providers, their operations | |
| `MountPoint` | `MountPoint` with `mktemp`, `listdir`, `rmdir` | |
| `NfsMounts` | `NFSService` on the host of `MountPoint` | extends `MountPoint`: threads of both kinds share the directories |
| `HostFiles` | files that are created, copied, moved and removed, over SFTP and by commands | |
| `HostKeys` | `get_ssh_public_key` and ssh-keygen | extends `HostFiles`: the keys are files |
| `PlaybookRun` | `PlaybookRunner.run` | extends `HostFiles`: uploads and directories are its calls; ansible-playbook is a `RemoteCall` |
| `OsInfo` | the cached properties of `OperatingSystem`, `get_os_info` | extends `HostFiles`: two of them are read from files |
| `HostWork` | threads that do all of this on one host | composes the four modules above |
| `PackageManager` | the proxy and the four managers | |
| `MC…` | the values of constants for TLC | extend the modules above |
| `…Proofs` | theorems; those about `ConnectivityWait` are in `RemoteCommandProofs`, those about `NfsMounts` in `MountPointProofs` | extend the modules above and `TLAPS` |

An operator whose comment begins with "Mutant" is a plausible bug in the
definition that follows it, and no part of the model: put in its place, it makes
a property fail. `PROJECT.json` names the property, and gives for every other
definition the lines it stands for.

### RemoteCommand

`pc` is the client's place in `RemoteExecutor.Session.__enter__` (`open`),
`Command.execute` (`exec`), the writing of `input_` (`input`), `out.read()`
(`out`), `err.read()` (`err`), the body of the consumer of `read_lines`
(`yield`), the polling of `get_rc()` (`poll`), `get_rc(wait=True)` (`status`),
the two closes (`close`, `exit`) and after the call (`done`). `transport` is the
paramiko client, `rc` is `Command._rc`, `got` what the caller has. Output is
counted in units, each of which is still to be written, received or read; the
volume of both streams, whether the program reads its stdin and its exit status
are part of the call, so they range over everything in the bounds. Both streams
share one window, as they do in an SSH channel; a program that fills it waits.
sshd may report the status while it still holds back some output (`Pipe`). The
connection may be lost, which ends the streams and yields the status -1
(`"lost"`), or go silent, which yields nothing at all. `transport = "unknown"`
stands for a `close()` that raised.

### NetworkCalls

`stack` holds the active methods, innermost first, each with the calls it has
left; `Body(op)` is the set of call sequences that `op` may make, read off its
code, and `Held(op)` whether `keep_session` decorates it. A method may raise
after any call; creating, opening and closing the session may raise; an exception
unwinds through all methods up to the one that catches it. A connection lost
under a command raises, or is the status -1, which the two hostname methods that
look at the status take for an answer (`RunUnanswered`). What the commands do on the host and the
values they return are left out, except for bridges: `NetworkBridges` conjoins
each step of `NetworkCalls` that runs a command of `add_bridge` or
`delete_bridge` with the command's effect. A command that ended well, or whose
connection broke after it, had its effect; one with a status other than 0 had
none and raises. Somebody else may set the bridge up at any time, which makes
`brctl delbr` fail.

### Nmcli

A call is a name, given as its words, and options by keyword. The builders keep
the names of the source and return the words of the command, in order;
NetworkManager is given the words and nothing else, so a name of two words
becomes two arguments. A command may be done and its answer lost, be refused, or
fail after it did a part: `nmcli connection delete` of several names deletes the
ones it knows. `stayed` and `had` are history: the devices that were there
during a whole call, and the values they had meanwhile. `Shown` is a device as
`nmcli -g` writes it, with a backslash before every colon; the list keeps it so,
and `shlex` takes the backslash off again in the command for that device. A call
must set what it was given (`Asked`), but for a 0 or `""` given to an `add`,
which the code drops; a modify writes it. `""` given to a modify, which leaves
the option without a value, is left out.

### HostInventory

An object stands for the thread that constructs it, since it is constructed
once. `at` is that thread's place in `__init__` and `add()`. A lookup scans
`inventory` by position, as a Python list iterator does, one position per step,
without the lock. `latest`, `steady` and `quiet` are history: the last object
registered with each address, the hosts registered during a whole lookup, and
whether the list kept its elements meanwhile.

### HostExecutor

`users` is the list, `adding` and `rest` the loop of `add_user` over its copy.
`exec` is the executor of each thread, with what it was asked for; `copied` says
that its user is the copy that `executor_user` and `root_user` make. `words`
counts how often `sudo` was inserted in front of a command kept in a list.
`get_user` walks the list itself, one position (`pos`) per step, while another
thread replaces users in it. `given` is history: the users that were passed to
`executor()` together with `pkey`.

### ServiceSelection

`provider` is `_service_provider`, which one thread reads, another writes.
`left` is what the loop over the provider classes has not tried. `missed`
remembers that a provider which could handle the service said no, because a
listing failed or lost its connection; `calm` that nobody touched the service
between the status and the command of `InitCtl.restart`.

### MountPoint

`pc` is the next command of the call that runs. Each command may fail with a
status (`StatusFails`) or lose its connection before (`Loses`) or after it took
effect (`LosesAfter`). `mounts[p]` is the stack of mounts on a path, `full` the
directories and sources that have files in them. `clean` and `left` are history:
the objects whose connections held and that were not mounted twice, and the
temporary directories that stay behind for a stated reason.

`NfsMounts` adds threads that use `NFSService`, which keeps nothing: `mkdir -p`
and `mount` on a given directory or on `/tmp/mnt_point`, and `umount` with
`rm -rf` of what is seen there afterwards. `crowded` is history: the directories
on which a mount was put while there was one, or while one was being removed.

### PackageManager

Threads share `setup` (the managers that the host has, sudo, root), `installed`
and `manager`, the proxy's choice. `next` is the position in the proxy's order. A
probe that fails passes over a manager that is there (`ProbeMisses`), as
`is_available` is `not rc`. `Requires` and `Columns` say what a change touches
besides the packages named: what depends on them, and what the other columns of
its list name to dnf. `disturbed`, `misled` and `skipped` are history: a named
package came meanwhile, a query failed that was not answered by "not installed",
the probe of a manager that is there failed.

### HostFiles, HostKeys, PlaybookRun, OsInfo, HostWork

A path leads to nothing, a directory or an inode (`link`), so that a file that
is removed or replaced while a handle is open is still written through that
handle. `open_file(path, 'wb')` and `open(path, 'wb')` empty the file in place;
contents are written chunk by chunk. Local paths and paths of hosts are one
set, since `get`, `put`, `transfer` and `copy_to` differ only in the order of
their looks and opens; `isdir` on a host answers no when its command fails, a
local one does not. Every step may raise, and the answer to a command that took
effect may be lost. `disturbed` is history: somebody else changed the files of
a call while it ran.

`PlaybookRun` makes its calls through the actions of `HostFiles`, so an upload
has all the steps of `put`. An argument list is what `run()` was given, reduced
to the files; options that name no file are left out, but for the `-i`
(`InventoryFlag`), which is appended before the inventory is uploaded. `cmd`
grows as `self.cmd` does. `left`, `same`, `named` and `dangling` are history: the
directory stays behind for a reason, all runs had the same arguments, an earlier
run came as far as its playbook, the upload of an inventory failed.

`HostKeys` splits ssh-keygen into the two files it writes. A private key that is
there makes it ask on a stdin that stays open: the caller is stuck (`asks`).
`spoiled` is history: two pairs were written at once, or others changed the
files.

`OsInfo` has the look at the attribute, the fetch, the store and the return as
steps of their own. `crossed` is history: the host was upgraded between the
fetch and the store of a value that the upgrade changed.

`HostWork` lets each thread do one thing at a time. `plan` holds what is left to
do of each kind.

## Runs

Deadlock is checked where the system never stops by itself (`network_calls`,
`network_calls_failed`, `services`). In the other runs calls end, each object is
constructed once or a bound on the number of calls stops the actors, so a state
without a successor is a normal end; `Finishes`, `IoTimeoutFrees`, `Ends` and
`EveryHostRegistered` say where the system must not stop earlier.

| Run | Question | Bounds |
|---|---|---|
| `remote_command` | No mutual wait (`NoMutualWait`); complete results (`CompleteResult`); what a broken connection can take away once the status is known (`TruncationBounded`); transports closed (`Released`); `RemoteCall` implemented (`PromiseSpec`); well-behaved calls end unless the connection goes silent (`Finishes`); `io_timeout` frees the call except while the program is started or its status awaited (`IoTimeoutFrees`) | up to 3 units per stream, window 2: a stream may fit, fill the window or exceed it, alone or together with the other; up to 2 units of input for a stdin window of 1; 1 unit held back |
| `connectivity` | `NotEarly`, `TimeBounded`, `Ends`, `ReachedIsReported` | timeout 6 is a multiple of the sample time 2, the boundary case; a TCP timeout of 3 and a delay of 4 after the connect differ from both |
| `network_calls` | The counter is the depth and the session held exactly inside calls (`SessionHeld`); left as often as entered, by one session per outermost call (`LeavesMatchEnters`); never closed again after an `__enter__` that raised (`NeverClosed`); `add_bridge` and `delete_bridge` that return did both commands (`BridgeAnswers`) | creating the session fails at most twice (`MaxLost`): once would not show that the failures add up, a third adds nothing; the call graph is finite, each outermost call starts from the state the last one left |
| `network_calls_failed` | refutes `SentOnOpenSession` | the same |
| `host_inventory` | `UniqueAddress`, `LatestWins`, `QuietLookupFinds`, `EveryHostRegistered` | three hosts on two addresses, so that one is replaced while another comes; one lookup, since lookups only read the list; a domain name that belongs to one address |
| `host_inventory_missing` | refutes `MissingIsMissing` | the same |
| `host_executor` | `SudoHonoured`, `UsersUnique`, `PasswordsKept`, `NoNameLost` | two threads, one of which adds; two users of one name and one with a key; callers pass one of the two themselves or leave the user to the host; each list is used with sudo once |
| `services` | `ObjectHandled`, `NotFoundTruthful`, `RestartWorks` | two threads; a service that SysVinit does not support and an instance of a template; hosts of every generation and one without any provider |
| `mount_point` | `MountedIsTrue`, `TempDirsRemoved`; a mounted source is erased only where mounts were stacked (`SourcesKept`) | an object on a temporary directory and one on a given directory, and two threads with `NFSService` on that directory, which is also the default; the plans give two calls to each object, or fewer to objects and up to two to the threads: enough for a second mount, a remount of either, a block after a failed call, and an umount by one while another mounts |
| `packages` | `ProperManager`, `AnswersTruthful` | two threads with one call each (`MaxCalls`); two packages, one of which requires the other and contains its name; three hosts: dnf, apt with sudo, none |
| `host_work` | Reported files are whole (`Delivered`), scripts executable only when whole (`RunnableIsWhole`), keys match (`KeyMatches`), playbooks find their files (`ArgumentsDelivered`), their directory goes (`ExecDirRemoved`), they can be repeated (`RetrySafe`), one system per answer (`OsInfoWhole`) | files of two chunks, so that a write can stop half-way; a directory, a file, a local file and a key pair; six plans: two and one file calls, key requests with a file call, two runs of one playbook object, a run beside a file call, questions by two threads during two upgrades, two questions beside a file call; three argument lists, one with two arguments of one base name, one with a playbook that is not uploaded |
| `nmcli` | `Listed`, `DoneAsAsked` | two threads with two calls each (`MaxCalls`), two devices, one with a colon in its name, that come or go twice (`MaxPlugs`), options that are False, 0 and other; four profiles of which two exist: one with a name of two words, one with a colon in its name; threads are interchangeable (`SYMMETRY`, no liveness in this run) |

Each module states one type invariant. Those of `RemoteCommand`,
`ConnectivityWait`, `NetworkCalls`, `HostInventory`, `HostExecutor`,
`PackageManager`, `ServiceSelection` and `MountPoint`, and of the modules of
`HostWork` those of `HostFiles`, `HostKeys` and `OsInfo`, are proved (below), and
so need no run. Those of `Nmcli` and `PlaybookRun` hold in the runs of this table
when they are named as an `INVARIANT`.

### Fairness

- `RemoteCommand`: `WF(Client)`, as the client's thread runs on when it can, and
  `WF(Remote)`, as sshd and the program do what they can: a program of the model
  ends once it has read its input and written its output. Losing the connection
  and going silent are never fair: nothing is owed by a network.
- `ConnectivityWait`: `WF(Waiter)`, the calling thread. A probe of a mute host
  may block for ever (`stuck`); the host owes nothing.
- `HostInventory`: `WF(Constructing(h))` for each host. A thread runs on, and
  one that waits for `Host.lock` gets it, since each holder releases it within a
  bounded number of steps, and only finitely many objects are constructed.
- The other modules state no liveness and assume no fairness.

## What the runs found

Two runs show a disagreement of the code with what it says of itself.

- `network_calls_failed`: `_session.__enter__` counts and assigns before it
  opens (`network.py:36`). When the open fails, `__exit__` is not called, and
  every later call of that `Network` uses a session that was never opened. If
  creating the session raises instead, a later call does get one, and it is never
  closed. `NeverClosed` and the theorem `NeverClosedAgain` show that this is for
  good.
- `host_inventory_missing`: `Host.get` walks the list while `add()` removes from
  it (`host.py:102`), skips an element and says "There is no host with …".

Facts that the models contain and the properties are worded around, without a
run of their own:

- `wait_for_connectivity_state` counts sleeps only: they may overrun the timeout
  by one sample, and every probe adds its own time (`ssh.py:346`,
  `TimeBounded`). The TCP timeout bounds the connect of a probe alone; the name
  lookup, the banner, the login and the command take what the host makes them
  take. Without `io_timeout` a host that logs the probe in and never answers the
  command blocks the wait for ever (`ssh.py:314`).
- If the domain name of a host is the address of another one, `add()` may remove
  the wrong host and leave two with one address (`host.py:113`); hence the
  assumption `NoAlias`.
- A host is in the inventory before `sudo` is assigned (`host.py:85-86`); until
  then its executors raise `AttributeError` (action `Use`).
- `executor(sudo=True)` sets the flag of the host for good (`host.py:234`): the
  executors made after it, also of other threads, use sudo unasked.
  `SudoHonoured` says what remains true.
- Two threads that add users of one name may raise `ValueError` or leave a
  duplicate (`host.py:181`); hence `OneAdder`.
- A user passed explicitly together with `pkey=True` loses its password for
  good, since only the default user is copied (`ssh.py:74`): if it is a user of
  the host, later executors of the host have none either. `PasswordsKept` says
  that no other user does.
- A list given to `run_cmd` twice with sudo gets `sudo` twice (`ssh.py:134`).
- With sudo, commands given as tuples raise `AttributeError`
  (`package_manager.py:119`, `service.py:111`, `service.py:179`); the tests'
  fake executor turns them into lists (`tests/common.py:119`). In a pipeline only
  the first command gets sudo (`package_manager.py:195`).
- `remove()` takes a query that failed for a missing package and answers `True`
  (`package_manager.py:202`). A `which` that fails on a manager that is there,
  with -1 for instance, makes the proxy keep a later one for good
  (`package_manager.py:340`); hence `skipped` in `ProperManager`. apt's `exist` is a substring match
  (`package_manager.py:298`). `list_command_d` of dnf is assigned twice, so that
  a removal by pattern passes all columns of the list to dnf
  (`package_manager.py:269`, `Columns`).
- `umount()` says "not mounted!" of a source that is mounted, when the object
  did not mount it (`filesystem.py:433`). `mktemp` raises where its docstring
  says "or None if failed" (`filesystem.py:317`). README.rst writes `fstype=`
  for the parameter `fs_type`.
- Once a special service has switched the provider, it stays switched for the
  next services (`host.py:349`, against the comment at `host.py:336`).
  `InitCtl.restart` lets the error of `status` out instead of answering `False`.
- A file that is transferred onto itself is emptied, and the call reports
  success (`filesystem.py:269`). Text that latin-1 cannot encode raises only
  after the destination was emptied (`filesystem.py:148`), and so does a source
  that is a directory. `put` of a truncated upload leaves it under its name.
- `PlaybookRunner.cmd` is never reset (`playbook_runner.py:59`): a second run
  after one that reached its playbook names both playbooks. Arguments with one
  base name overwrite each other (`playbook_runner.py:82`). The `-i` is appended
  before the inventory is uploaded (`playbook_runner.py:174-178`): when that
  upload fails, the object keeps an `-i` without a value, and the command of every
  later run is malformed; `RetrySafe` says what remains true. When the connection
  is lost, the finally clause removes the files of an ansible-playbook that may
  still run (`playbook_runner.py:79`).
- A private key without its public key makes ssh-keygen ask, and
  `get_ssh_public_key` never returns (`host.py:374`). Two callers that generate
  at once may leave halves of two pairs.
- The attributes of `OperatingSystem` are never fetched again; an answer of
  `get_os_info` may mix two systems if the host is upgraded between the fetch
  and the store of another thread (`operatingsystem.py:115`). `release_info` says
  that the system is unsupported also when the test for the file itself fails.
- `nmcli.py` gives names unquoted to `shlex.split` (`nmcli.py:98`): `down` and
  `delete` of a name of two words act on the connections called by each word.
  A colon in a name shifts the fields of `get_all_connections` (`nmcli.py:138`),
  and `get_all_devices` gives a device with a colon in its name with a backslash
  before it, since its list command has no `-e no` (`nmcli.py:166`).
  An `add` that is repeated after its answer was lost makes a second profile of
  the same name. The executor is made once (`nmcli.py:82`), so it keeps the user
  and the sudo flag of that time.
- The adds of `nmcli.py` test their options for truth (`nmcli.py:254-257`,
  `329-334`, `396`, `459`): a `miimon` or `mtu` of 0 is dropped without a word,
  though `miimon` is documented as a number (`nmcli.py:305`).
  `modify_connection` and `modify_device` pass a 0 on.
- `NFSService.mount` without a target uses the fixed directory
  `/tmp/mnt_point`, where its docstring says "a temporary folder is created
  instead" (`storage.py:23`, `storage.py:30`); when two mounts are stacked there,
  the umount of one erases what the other shows (`storage.py:84`).
- An `add_bridge` that fails half-way leaves a bridge without network, and a
  repetition fails at `addbr` until the bridge is deleted (`network.py:462`).
- `add_rule`, `insert_rule` and `delete_rule` join a destination that is one
  string character by character (`firewall.py:108`), though the docstring allows one
  (`firewall.py:77`). This part has no model.

## What is proved

The theorems hold for every value of the constants that meets the assumptions
of the module (`ConstantsAssumption`, `TimesAssumption`, `InventoryAssumption`,
`UsersAssumption`, `PackageAssumption`, `ServiceAssumption`, `MountAssumption`,
`NfsAssumption`, and for `HostWork`
`FilesAssumption`, `KeysAssumption`, `PlaybookAssumption`, `OsAssumption` and
`WorkAssumption`), which TLC evaluates in every run. Most of them only type the
constants. Three say something of the environment. The other threads neither
write into the directory of a playbook run, which is named after an uuid, nor
write or move away the local files that the run uploads, nor have these a
second name; the key files of the host are not among them
(`PlaybookAssumption`, `WorkAssumption`). A public key that is on the host at
first belongs to its private key (`KeysAssumption`). Argument lists hold only
what `run()` builds: what is uploaded is named in the directory, what is not
uploaded elsewhere.

**RemoteCommandProofs.** The inductive invariant `IInv` adds to `TypeOK` four
parts. `Conservation`: unread, read and unwritten units add up to the volume of
each stream. `InputInv`: stdin holds no more than was written, and is closed
exactly if there was input. `EndInv`: what an end of file, a status and a lost
connection mean for what is left. `PlaceInv`: what the client knows where it is,
for example that a call that returns has seen the end of what it read. None of
the safety properties is inductive: `CompleteResult` speaks of the end of a
call, and only `EndInv` carries the meaning of an end of file there. From `IInv`
follow `TypeCorrect`, `OutputConserved`, `MutualWaitFree` (one lemma per place
where the client blocks), `ResultComplete`, `TruncationIsBounded` and
`DownloadsReported`. `TransportsReleased` needs the types only: of the steps
that end a call, the refused login alone leaves a transport. `Refinement` shows
that `RemoteCommand` implements `RemoteCall`: one lemma for the initial state,
one that a step which changes `phaseBar` or `answerBar` is one of the abstract
steps, under `IInv`.

The same module is about `ConnectivityWait`: `WaitInv` is `WaitTypeOK`,
`TimeBounded`, `AnswerFresh` and `ElapsedInv`, which relates the time that has
passed to the number of probes; `NotEarly` follows from the latter. So it is known
for all timeouts and sample times how often the wait probes and how long it
sleeps, and which part of its length nothing in this code bounds (`beyond`).

**NetworkCallsProofs.** `HeldCorrect` is about `HeldSession` alone, for any
nesting depth: the counter is the depth and the session is open exactly inside
calls until an `__enter__` raises, and after that the counter stays ahead by the
number of calls that raised, so that no call closes the session
(`NeverClosedAgain`).
`MethodsUseHeldSession` shows that each step of each method is a step of
`HeldSession` or leaves it alone; together they give `SessionIsHeld`.
`TypeCorrect` adds the stack: only methods of `Network` are on it (`BodyType`
goes through the call sequences of every method), and it is empty between calls.
`EntersAndLeavesMatch`: the difference of the two counters is the number of
decorated methods on the stack (`HeldAt`), which unwinding an exception through
undecorated methods keeps only since a method about to enter is a decorated one
(`EnterInv`).
`BridgesKeepCalls`: `NetworkBridges` implements `NetworkCalls`, so all of this
holds with bridges too. `BridgesAsAnswered` rests on the shape of the stack below
`add_bridge` and `delete_bridge` (`ChangerShape`) and on the effect of the
commands that have ended (`EffectInv`), which is claimed only while no exception
is on its way.

**HostInventoryProofs.** Under `NoAlias`: `IInv` adds to `UniqueAddress` the part
of the types that is used (`ListOK`), that the lock tells who is adding
(`LockInv`), what that thread knows of its address (`AddingInv`), and that the
last host of an address is in the list or being replaced (`LatestInv`).
`AddressesUnique` and `LatestIsFound` hold for any number of threads, hosts,
lookups and addresses. `TypeCorrect` and `QuietLookupsFind` need no `NoAlias`:
the first since what `add()` is about to remove is always in the list
(`VictimInv`), the second since a host that a quiet lookup may not miss is still
ahead of its position (`QuietInv`).

**HostExecutorProofs.** Under `OneAdder`, `TypeCorrect` and `NamesUnique`, from
`ScanInv`: what is left of the copy that `add_user` walks holds every user that
still has the name of the new one. Without `OneAdder` both fail.
`AddUserSucceeds` and `NamesKept` follow from `CopyInv`, that what is left of
the copy is on the list, each name once: `list.remove` finds what it is
given, and takes away only users of the name that is about to be appended.
For any number of adders, `PasswordsAreKept` from `KeyInv`: an executor with a
key holds a copy, or a user that was passed with `pkey`. `SudoIsHonoured`, without any
assumption, from `SudoInv`: whatever carries sudo (a call that waits to build
its executor, an executor, a list, a command) was preceded by the host's flag,
which is never taken back.

**PackageManagerProofs.** `ProperManager` is not inductive: that a thread stores
the first manager of the order rests on what its loop has already ruled out
(`ProbeInv`), and that a thread never works with "none" on the choice preceding
the dispatch (`PlaceInv`, which also says which methods are at which command).
With them `TypeCorrect` and `ManagerIsProper`, for any number of threads and any
host, whichever probes fail. `AnswersAreTruthful` adds that `install` and `remove` are about one package
(`NamesInv`) and that what a pattern matched in the listing covers what it
matches when the command runs (`PatternInv`), unless the history variables say
that a query failed or that a package came in between.

**ServiceSelectionProofs.** The invariant is one formula per thread
(`ThreadInv`): what is stored was agreed to by the provider (`PlaceInv`); a
provider that the loop has passed cannot handle the service, unless a probe
failed (`LoopInv`); the plan of an undisturbed restart fits the state of the
service (`RestartInv`); the last results are true (`ResultInv`). `OthersKept`
shows once that a thread whose own state stays keeps it, so that each action is
only looked at for the thread that takes it. It gives `TypeCorrect`,
`ObjectsAreHandled`, `NotFoundIsTrue` and the action property `RestartsWork`.

**HostWorkProofs.** All of it is about the composition `HostWork`, so each
property is shown with every other kind of work going on beside it. `BaseInv` is
proved first (`BaseInductive`). Its core is `PlaceInv`, what a call has open at
each step, and `ProgressInv`: if nobody disturbed the call, the path still leads
to the file that is open, and that file holds exactly the chunks written so far.
`Delivered` says something only of the last step of a call, so it needs the
progress of all steps before it. `CallsDeliver` and `ScriptsAreWhole` are action
properties that follow from `BaseInv`. The steps of other threads are dealt with
once, by what a step does to the path or the inode of a call that is not its own
(`Stepped`, `Effect`).

`KeysMatch` needs `PairInv`: a public key on the host belongs to its private key,
also while one thread is between the two files of ssh-keygen (`KeyInv`), where
no private key was before. `OsInfoIsOne` needs `KnownInv`: as long as no upgrade
fell between a fetch and its store, a thread that is about to store a
distribution stores the one that is kept already, so the fields read so far
equal the cache.

`PlayInv` (`PlayInductive`) is what a run relies on. `Foreign` and `ShareInv`: no
call of another thread, and no open handle of one, leads into the run's files.
`SourceInv`: the local files stay as they are. `RunnerInv` and `ExecInv`: what
the runner does, and whether the directory is there, at each stage.
`UploadedInv`: an argument that was uploaded is there and whole, or a later
argument of the same base name has replaced it or is about to. With it
`ArgumentsAreDelivered` (by the last argument of each name) and
`ExecDirIsRemoved`. `RetriesAreSafe` adds `CmdInv`, on what `self.cmd` holds over
all runs with the same arguments, and `FlagsInv`, that every `-i` in it has its
inventory behind it unless the upload of one failed (`dangling`). TLC checked `PlayInv` and `CmdInv` on the
instance of `host_work` before they were proved.

**MountPointProofs.** About `NfsMounts`, so that every object shares the
directories with threads of `NFSService`. `MountedIsTrue` and `TempDirsRemoved`
speak of the time between two calls; `TruthInv` and `LeftInv` say what holds at
each command. An object whose connections held has at most one mount on its
target, and none while it lists and removes the directory. That the object alone
decides this rests on `Distinct`: no two objects know one temporary directory.
`SingleInv`: a temporary directory is mounted once at most, even if connections
were lost, so that `rmdir` never sees a source there. `SourcesAreKept` follows
from it and from `CrowdInv`, which covers the unconditional `rm -rf` of
`NFSService.umount`. `Distinct` takes the random names of `mktemp` to be
different from those that other objects still hold (`Mktemp`).

**Only model-checked.** Liveness, which this prover does not reach (`Finishes`,
`IoTimeoutFrees`, `Ends`, `ReachedIsReported`, `EveryHostRegistered`), and the
properties of `Nmcli` (`Listed`, `DoneAsAsked`). No module declares a RECURSIVE
operator, so the latter are open to proof.

## Not modelled

`PROJECT.json` lists every part with the reason. In short: `firewall.py` and
`db.py` build one command per call and parse its output; `power_manager.py` is
one command per method whose result nobody reads; `LVMService`, `if_down`,
`add_ip`, the questions about a path, a user or a group in `operatingsystem.py`,
and the known-hosts methods of `Host` are single commands without a state of
their own; `user.py`, `resource.py` and `errors.py` are records. A model of any
of them would restate the command. Inside modelled parts, logging, the wording
of commands, pseudo terminals, buffer sizes and the parsing of values are left
out; so are the effects of network commands other than those on bridges and of
`nmcli`, and `touch` of anything but one path. The short uuid of a playbook's directory is taken to be distinct from
every other, and so is a name of `mktemp` from those that objects still hold.

## Plan

Done, in this order, the most used part first:

1. `RemoteCommand` with `RemoteCall`, and its proofs; `ConnectivityWait` and its
   proofs.
2. `HeldSession`, `NetworkCalls` and their proofs; `HostInventory` and its
   proofs.
3. `MountPoint`, `PackageManager`, `HostExecutor` with its proofs,
   `ServiceSelection`.
4. `HostFiles`, `HostKeys`, `PlaybookRun`, `OsInfo` and their composition
   `HostWork`.
5. `Nmcli`; `NetworkBridges`; `NfsMounts`.
6. The proofs of `PackageManager` and `ServiceSelection`.
7. The proofs of the remaining safety properties of `RemoteCommand`,
   `NetworkCalls`, `NetworkBridges`, `HostInventory`, `HostExecutor` and
   `PackageManager`, and of all properties of `HostWork`, `MountPoint` and
   `NfsMounts`.

To do:

- Proofs about `Nmcli`: its type invariant, then `DoneAsAsked` and `Listed`.
