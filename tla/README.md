# A TLA+ model of basic-ftp

basic-ftp is an FTP client for Node.js. Its difficulty is not in any single
function but in what happens between them: one control connection on which
replies arrive whenever the network likes, a data connection beside it, stream
pipelines that report back later, timeouts that move from one socket to the
other, and a caller who may close or reconnect the client at any moment.

The modules in this directory model these parts of the code, and the operations
`Client` builds on them, check them with TLC on small instances, and prove most
of their safety with TLAPS for instances of any size. Paths below are relative to `src/src/` unless they say otherwise.

## 1. Inventory

| component | state it keeps | operations | modelled by |
|---|---|---|---|
| `FTPContext` (FtpContext.ts) | control socket, data socket, `_task`, `_closingError`, `_partialResponse`, a timeout per socket | `handle`, `request`, `send`, `close`, `closeWithError`, `reset`, the two socket setters, the socket listeners | `FtpContext`, `SingleFlight` |
| control response parser (parseControlResponse.ts) | none (the remainder is the context's) | `parseControlResponse` | `ControlResponse` |
| transfers (transfer.ts) | `TransferResolver.response`, `dataTransferDone`; a pipeline | `connectForPassiveTransfer`, `uploadFrom`, `downloadTo` | `Transfer` |
| progress tracker (ProgressTracker.ts) | the running poll, byte counters | `start`, `stop`, `updateAndStop` | `Transfer` (the poll) |
| `Client`: connection, login (Client.ts, netUtils.ts) | `availableListCommands`, the socket's encryption | `connect`, `connectImplicitTLS`, `useTLS`, `login`, `features`, `useDefaultSettings`, `access`, `close` | `FtpContext`, `Access` |
| passive mode, strategies (transfer.ts, Client.ts, netUtils.ts) | `prepareTransfer` | EPSV, PASV, `_enterFirstCompatibleMode`, the address predicates | `PassiveMode`, `Transfer` (the dial) |
| listing with fallback (Client.ts, StringWriter.ts) | `availableListCommands`, the listing's bytes | `list` | `PassiveMode` |
| listing parsers, `FileInfo` | none | `parseList` and the three parsers | `Listing` |
| directory operations (Client.ts) | the server's working directory | `cd`, `cdup`, `pwd`, `remove`, `removeEmptyDir`, `removeDir`, `clearWorkingDir`, `uploadFromDir`, `downloadToDir`, `ensureDir` | `DirectoryOps` |
| local files (Client.ts) | a file descriptor, a stream | `_uploadLocalFile`, `_downloadToFile` | `LocalFile` |
| single commands (Client.ts) | none | `send`, `rename`, `size`, `lastMod` | not modelled |
| package entry and types | none | exports | not modelled |

**How they interact.** `Client` methods launch *tasks* on the context with
`handle(command, responseHandler)` and await the promise. The context passes
every reply, and every error that closes it, to the tracked task's handler,
which settles the promise through the `resolver` it is given; settling also
stops the tracking and the timeout. A transfer is a task whose handler starts a
stream pipeline on the data socket; the pipeline's callback reaches back into
the same resolver. Setting a control or data socket closes the previous one and
removes *all* its listeners.

**What is hard.** Two tasks launched without awaiting; replies left over from an
earlier task; two channels finishing in either order; a timeout that has to be
on exactly one socket; callbacks that come after their task has ended; a dialled
socket that opens on a context that has been closed or reconnected; a reply cut
into chunks; an error that must reach whoever is waiting and nobody else. The
list with source lines is `hazards` in PROJECT.json.

**What makes each component correct.** For the context: no promise is forgotten,
none is settled by another command's reply, a closed context holds nothing. For
transfers: resolved means that both channels are done, and nothing survives the
transfer. For the parser: chunking makes no difference. For `access()`: nothing is
sent before the encryption asked for, and the call ends. For the searches: the
client settles on what worked and gives up only when all has failed. For directory
operations: only what they are about changes, they return home, and success means
all was done. For local files: no byte is lost, doubled or written elsewhere.
Section 4 names the properties.

## 2. How the model corresponds to the code

### Callbacks are actions

JavaScript runs one callback at a time, so each callback, and each synchronous
part of a method, is one action, with everything it calls included. There is one
exception: the loop in `_onControlSocketData` that hands over the replies of a
chunk. `chunk` holds the replies still to be handed over, each hand-over is an
action, and every other client action requires `Idle` (`chunk = <<>>`), so the
loop still runs without interruption.

Between settling a promise and the caller's next `await` continuation other
callbacks may run; the model lets the program launch its next task at any later
moment, so all of these orders are there. The program is not assumed to await
its tasks: `LaunchDuringTask` and `ConnectDuringTask` are the calls that do not.

### `FtpContext`

A task is a call of `handle()` and stands for the promise it returned; each is
made once. `handler[t]` says which response handler it was given: `request()`,
`sendIgnoringError()`, `login()`, `_handleConnectResponse()`, and in `Transfer`
an upload or a download.

| variable | code |
|---|---|
| `ctl` | `_socket`: never connected, open, or destroyed |
| `conn` | the `connect()` that installed it |
| `task`, `closingError`, `partial` | `_task`, `_closingError`, `_partialResponse` |
| `promise[t]` | the promise returned to the caller |
| `ctlTimer`, `data` | `setTimeout(0 or timeout)` on `_socket`, and `_dataSocket` with its own |
| `chunk` | the parsed messages of the loop in `_onControlSocketData` |
| `wire`, `owed` | the server: replies in flight, commands unanswered |

Every reply carries the task it answers (`to`). The code cannot see this; the
properties can, and that is how "resolved by the reply to another command" is
expressed. `partial` is counted in pieces, each named by the task whose reply it
belongs to; `MaxPieces` stands for `maxControlResponseLength`.

A socket counts as connected once it is installed. What happens to a connection
attempt that fails is `ControlLost` (its error event) or `ControlTimeout`.
`Upgrade` is the moment `useTLS()` installs the encrypted socket on an idle
connection with nothing in flight.

### `Transfer`

Extends the context by transfers. Opening the data connection (`StartDial`,
`DialOpens...`) takes time during which the context may close. When the dialled
socket connects, `ftp.dataSocket = socket` and the `handle()` that follows are
one action, since only promise continuations run between them. `pipe[t]` is the
stream pipeline:

    none -> secure -> flowing -> ended -> over      (or cut, from secure or flowing)

`secure` is the wait for `secureConnect`, `ended` a download whose data socket is
done while the destination still writes, `over` the callback having run. A data
socket that is dropped loses all listeners, those of the pipeline included, so
the pipeline never reports back: `cut` (`CutIn`). A pipeline in `ended` no longer
depends on the socket and cannot be cut.

The two branches for a missing data socket (`onDataStart`'s exception and
`onError` in the handlers of 150) are not modelled. They are unreachable: the runs
check deadlock, and a start reply for a transfer without a data socket would be
one, since `PassStart` requires the socket and nothing else takes the reply.

### `ControlResponse`

The parser on real text, over an alphabet of digits, blank, dash, LF and one
other character, with two-digit codes instead of three. `Lines` (character by
character, `ReadChar`), `ParseLine` and `Rest` are the split, the loop and the
remainder of `parseControlResponse`. The server's text is fixed at the start, made of
replies as RFC 959 has them (`IsReply`: one line, or the lines up to the first that
repeats the code), and cut into chunks as it arrives, anywhere; `whole` remembers whether
all chunks so far ended after a line. The context's `partial` abstracts the remainder
computed here.

### `SingleFlight`

What the context promises to the code above it, with nothing but promises and a
flag: one pending promise at a time, a colliding call rejects both and closes, a
closed context refuses, `connect()` reopens, and a pending promise is eventually
settled. `FtpContext!KeepsContract` is the refinement, with `state <- promise`
and `isOpen <- (closingError = None)`.

### `Access`

Extends `FtpContext`: the tasks are pairs of a call of `access()` and a step.
`Plan` is the sequence of awaited steps; `feat` decides about `mlst`, and the
socket about `pbsz` and `prot`. `Proceed` continues after a resolved step by
launching the next command with its handler, `Fail` after a rejected one. Two
positions are no commands: in `handshake` the call waits in `upgradeSocket`, with
no task and no timeout, until `HandshakeSucceeds` (which installs the encrypted
socket, `Upgrade`) or `HandshakeFails`; a control connection that closes meanwhile
does not end the wait by itself. A program awaits a call, or gives up on one that
hangs in the handshake and calls `access()` again. `useTLS()` after an implicit
TLS connection and on its own are left out.

### `PassiveMode`

The running operation is a transfer or a `list()`. `rest` and `candidates` are the
loops of `_enterFirstCompatibleMode` and `list()`, the candidate being tried
first; `prepareTransfer` is `"search"` until a strategy has worked. `StrategyThrows`
stands for every exception of a strategy. The context is reduced to the address
its control socket is connected to. An address has its numbers and whether it is
written in the form mapped to IPv6; `PasvTarget` is what both variants of
`enterPassiveModeIPv4` do with the server's. `_write` and `ListingTooLong` are
`StringWriter`. `worked` and `failed` are history variables.

### `Listing`

Pure operators: `parseList`, the choice of the parser by the last line, the entries
each parser skips, the types, and `transformList` of the MLSD parser. A line is a
record of what the text says, tagged with its format; that the regular expressions
accept lines of one format only is assumed. `TakenForFile` is where the parsers'
types differ: the DOS parser only knows directories and files, and the Unix parser
takes block and character devices for files.

### `DirectoryOps`

`remote`, `cwd` and `style` are the server: a tree with links (which it enters, being
then in the target), devices and special files (which it does not send on RETR), the
working directory, the format of its listings. `todo` is what the running operation has
still to do, and so stands for the nested loops and calls of the code: `ForEachListed`
replaces the task that lists a directory by the commands for its entries, `Enter` is
"cd, recurse, cdup", and `Excursion` is `_exitAtCurrentDirectory` with its `finally` as
the last task. Each command has an action with the server's condition for accepting it;
`Fails` lets any of them fail, also without reason; `Closes` closes the client in
between. After a failure `todo` shrinks to the return (`Finally`) unless the command was
one of those whose error is ignored (`Ignored`).

A server drops a blank at the beginning of an argument (`ServerPath`), and
`protectWhitespace` puts the working directory before it. The names of entries are
single parts; a link's target in a listing of `OS.unix=symlink` is a path and
therefore has several.

`before`, `start`, `goal` and `astray` are history variables: the tree and the
directory when the operation began, what it is about, and whether the server
refused the way back.

### `LocalFile`

`files` is the disk, byte by byte, where a byte is known by the call that received
it and its position; `descriptors` is the process's table. A call opens a
descriptor, its stream reads or buffers, flushes through the *number* of the
descriptor, the call settles, examines and removes the file of a failed download,
and closes the descriptor, as separate actions (`Opens` to `Closes`). A stream
whose source had ended goes on after its call was rejected, as nothing destroys it:
the pipeline is done with it and the descriptor was opened with `autoClose: false`.

### The environment

The server answers each command once, with any of the codes that the handlers
tell apart, 120, 125, 150, 2xx, 331, 332, 350 and 5xx; it may never answer, and
the connection may break at any time. `Quirks` switches on what a run studies
beyond that; without them the caller sends valid commands, local streams keep up,
and nobody closes the client during a dial.

| quirk | meaning |
|---|---|
| `badCommand` | a command contains control characters, so `send()` throws |
| `delayedGreeting` | 120, later 220 |
| `unsolicited` | a 421 nobody asked for |
| `slowLocalStream` | the destination finishes or fails after the data socket has ended |
| `localAbort` | the destination closes before its end (or `StringWriter` refuses more bytes) |
| `abandonedDial` | the client is closed or reconnected during a dial |

## 3. Running it

    tlc -config transfer_orderly.cfg MCTransfer
    tlapm FtpContextProofs.tla      (and TransferProofs, AccessProofs, PassiveModeProofs, LocalFileProofs,
                                     ControlResponseProofs, DirectoryOpsProofs, SequenceLemmas)

The `MC*` modules define the constants' values. All runs check deadlock except
those of `ControlResponse`, where the text comes to its end, and of `DirectoryOps`
and `LocalFile`, where the program may have made its last call.

## 4. The runs

### Passing

| run | instance | distinct states | shows |
|---|---|---|---|
| `transfer_orderly` | 3 tasks, no quirks, 1 piece, no symmetry | 60 593 | commands and transfers in every order of events; refinement and liveness |
| `transfer_quirks` | 3 tasks, all quirks, 1 piece | 666 047 | a closed context stays dead, whatever happens |
| `response` | up to 2 of 7 replies, limit 17 | 119 420 | parsing, chunks that end anywhere |
| `access` | 2 calls, quirks `badCommand` and `delayedGreeting` | 94 682 | connection, encryption and login |
| `passive` | 8 hosts, listings of 2 bytes | 84 111 | strategies and list commands |
| `directory` | 2 operations, 4 remote and 4 local trees, 5 formats | 467 233 | whole directories, listings |
| `local_files` | 2 calls, 2 files of up to 3 bytes, 2 descriptors | 506 107 | descriptors, ranges, resumption, removal |

`transfer_orderly`, the core and its transfers with an orderly server:

- `InSync`: an idle open connection has no reply owed, in flight or half handed
  over, so the next task starts clean. This holds because a timeout closes the
  connection rather than only rejecting the task; the mutant keeps it open.
- `ResolvedByOwnReply`: no promise is resolved by another command's reply; a
  transfer whose reply came first is resolved by the end of its bytes.
- `PartialIsOfArrivingReply`: no piece of an older reply precedes a new one.
- `PendingIsTracked`: a pending promise is always the tracked task's.
- `ClosedIsDead`: a closed context has no socket, timeout, task or pending promise.
- `OneTimerPerTask`: a pending task is watched by exactly one socket's timeout.
- `ResolvedMeansComplete`: resolved only after the bytes and the confirmation.
- `DataSocketIsOfTransfer`: outside a transfer there is no data socket.
- `NoBytesAfterSettling`: bytes only flow while the promise is pending.
- `ProgressIsOfFlowingTransfer`, `NoPollIsLost`: a poll belongs to the transfer
  whose bytes flow, and is never replaced while running.
- `KeepsContract`: all of `SingleFlight`, liveness included.

`transfer_quirks`, with every quirk on: `ClosedReleasesAll` (a late dial or callback
leaves nothing behind on a closed context) and `ReasonIsKept` (only a `connect()`
changes the reason it was closed for). The other transfer properties do not hold
there, for the reasons given under the violations and observations below.

`response`:

- `EachReplyIsOneMessage`: as long as chunks end after lines (`whole`), the messages are
  the server's replies. What happens otherwise is `doc_incomplete_response`.
- `PartialIsBounded`, wherever chunks end. The parser puts a line break after the last
  line of an open group, also when the line was only cut, so what is remembered of a
  text of the greatest length may be one character longer than that. TLC finds this
  case: the bound cannot be lower.

`access`:

- `SecretsAreEncrypted`: when encryption was asked for, nothing but AUTH is owed an
  answer on a socket without it.
- `HandshakeOnQuietLine`: the handshake begins when no reply is under way.
- `AccessIsComplete`: a resolved call has done every step of its plan, with TLS the
  protection of the data channel among them.
- `AccessSettlesOrShakesHands`: every call settles, unless it comes to wait for the
  handshake.

`passive`:

- `SettlesOnWhatWorked`: `prepareTransfer` and a single list command have worked.
- `GivesUpWhenAllFailed`: the errors that say so come only after every strategy, or
  every list command, has failed in this operation.
- `DialsReachableHost`: the host dialled is that of the control connection, or with
  `allowSeparateTransferHost` at least no private one for a public server.
- `ListEndsWithConnection`, `OperationsEnd`: no further command on a closed client,
  and an end to every operation.

`directory`:

- `ListingIsFaithful`: in every format, each entry once, with its type and, for a
  link, a path that leads to the link's target, and nothing else. The type is the
  entry's own, but for a device in a Unix listing, which is given as a file
  (parseListUnix.ts:126-128).
- `ActsWhereListed`: a command for an entry is sent in the directory it was listed
  in, after all the entering and leaving in between. An upload that meets a link with
  the name of one of its directories is excepted; the trees of this run have none.
- `ChangesOnlyItsOwn`: at every moment, failed or not, only what the operation is
  about has changed, and nothing through a link. An upload adds the directories its
  path leads through and the ones uploaded, and otherwise changes only what has the name
  of something uploaded. For a directory with a leading blank MKD, which is not
  protected, may add one without the blank (Client.ts:757). Excepted (`NoDetour`) are
  uploads and `ensureDir` that enter a link, see `doc_unrelated_files`.
- `ReturnsHome`: back in the directory it was called in, if there still is one, the
  server accepts and the client is open.
- `SuccessIsComplete`: an operation without error has done all of it.

`local_files`:

- `LocalTypeOK` contains that only the running call has an open descriptor.
- `ResolvedIsComplete`: a resolved download has written what it received, where it
  belongs, and nothing else in a resumed file; a resolved upload has sent its range.
- `ResumeKeepsBytes`: a resumed file is never removed nor changed before its offset.
- `NoEmptyRemains`: a failed download leaves no empty file.

**Bounds.** `Transfer`: a hazard needs a connection, the task that goes wrong and
the task that suffers or collides: three tasks, the first of them necessarily a
`connect()`, so there are two on one connection or one on each of two. Handlers
differ only in what they do with a reply, so each task choosing any of them covers
their combinations. `MaxPieces` makes a reply arrive whole, in pieces, and too
long. The server announces a shutdown (421) only when nothing else is in flight.
Tasks are interchangeable, which is used as symmetry in the run without liveness.

`response`: the replies include groups whose lines look like other replies or like a
closing line, one with blank lines, and one longer than the limit. The text may be cut
between any two characters; some sequences of chunks pass the limit of 17 and others do
not.

`access`: two calls are one that hangs or fails and one that follows on the same
client. `passive`: the hosts are public, private at the borders of a range,
loopback and `::1`, some in both forms; a chunk has 1 or 2 of the 2 bytes allowed;
the number of operations and reconnects is not bounded.

`directory`: names are `a`, `b` and `b` with a leading blank, paths have up to three
parts, and there are five formats: DOS, Unix, MLSD with `OS.unix=slink`, MLSD with
`OS.unix=symlink`, and one that no parser knows. The remote trees are one with
nested directories, a link, a special file and blank names; one with a file where a
directory is wanted; one with a device; and an empty one. The local ones are a nested
directory with a file, one whose files are in the way, one with a directory whose name
begins with a blank, and one that is not there. All links lead to one directory outside
of the subtrees the operations are about. `ensureDir` is called with an absolute path
and with `a/../ b`. DOS listings are
used for trees without links and without blank names. `MaxOperations` is 2, so that
the second meets what the first left half done. A failed upload or download leaves
new content in part, the old one, or locally nothing.

`local_files`: 3 bytes allow a resumption at 1, a range that ends before the file
does, and a hole; two calls let the stream of the first meet the second, and two
descriptors a different number for each. `Reuse = FALSE`: a descriptor's number is
not handed out again while a late stream still has bytes for it; what happens
otherwise is `doc_reused_descriptor`.

**Fairness.** `ControlTimeout` and `DataTimeout` are weakly fair: a timeout that
stays set fires. The default timeout of `Client` is 30 seconds; with `timeout = 0`
there are none and nothing is promised. `_passToHandler` and `PassToTransfer` are
weakly fair because they are iterations of a synchronous loop. `AccessFairness`
adds that continuations of settled promises run, `PassiveFairness` that a wait for
the server or for a dial fails at the latest with its timeout. Nothing is assumed
of the server, the network, the handshake, the local streams or the program.

### Violations: where a doc and the code disagree

Each run checks one sentence of the repository. What TLC finds is a behaviour of
the code, listed with quotations under `findings`.

| run | what happens |
|---|---|
| `doc_stale_callback` | A download's bytes have ended; the server reports an error; the caller goes on with the next task; now the slow destination fails. Its `onError` rejects the old task, whose resolver stops tracking *whatever* task is current. The new task's promise is never settled and its timeout is gone. |
| `doc_incomplete_response` | A chunk that ends in the middle of a line splits it. |
| `doc_tls_handshake` | The server answers AUTH and then says nothing: `access()` waits for ever, on an open connection without a timeout. |
| `doc_unrelated_files` | `uploadFromDir` of a directory `a` and a file `b` to `b`, where `b/a` is a link to `/a/a` on a server that enters links and takes CDUP for the target's parent: `a` is entered and left, and the file overwrites `/a/b`. The call is resolved. |
| `doc_reused_descriptor` | A download fails when its data has ended but not all is written; its descriptor is closed, the next download is given the number, and the old stream writes into the new file. |

### Observations without a run

Met while modelling; a property that denied them would not hold, or the case is
kept out of the instances:

- `send()` throws after the task was tracked and the timeout set: a dead task stays
  behind, the next call collides with it or the idle client times out. An invalid
  user name in `access()` does this to the next `access()`.
- A refused greeting rejects `connect()` and leaves the connection open; with 120
  the 220 that follows is taken for the answer to the next command.
- `connect()` during a running task rejects both and closes the *new* connection
  too (`ConnectDuringTask`), as `reset()` keeps `_task`.
- A data connection dialled before a reconnect opens after it and is attached to the
  new connection; one that opens on a closed client still pins its strategy.
- A destination that closes early rejects the download and the client stays open, or
  closes, depending on which callback comes first (src/test/downloadSpec.js:99
  accepts both).
- `prepareTransfer` stays pinned across reconnects to another server: if the pinned
  strategy does not work there, no other is tried.
- The quotes a server doubles in its answer to PWD stay doubled, so the way back to a
  directory with a quote in its name silently fails.
- The DOS parser takes blanks before a name for a separator.
- `ensureDir(" b")`: `_openDir` sends MKD unprotected, so the server makes `b`; CWD is
  protected, asks for ` b` and fails (Client.ts:757-758). The stray `b` is allowed for
  in `ChangesOnlyItsOwn`.
- `downloadToDir` sends RETR for a device that a Unix listing shows, since its parser
  calls it a file; the server refuses, and the download ends with that error.
- `downloadToDir` of an empty directory onto an existing local file succeeds.
- A download from the start truncates its file when it is opened, so one that fails
  before the first byte removes a file that existed.

## 5. What is proved

The proofs are in modules of their own beside the modules they are about. They hold
for any sets of tasks, calls, hosts, files and descriptors and any sizes; what a
theorem needs of the environment is a hypothesis on `Quirks` (or `Reuse`), and each
hypothesis holds in a run.

### `FtpContextProofs`

| theorems | hypothesis |
|---|---|
| `TypeCorrect`, `NoTaskForgotten`, `ClosedForGood`, `ReasonKept`, `PartialIsOfArriving` | none |
| `TimerOnlyDuringTask` (the timeout is set exactly while a promise is pending), `ImplementsContract` (steps map to steps of `SingleFlight`) | no `badCommand` |
| `NoReplyLeftOver`, `OwnReplyOnly` | no `delayedGreeting`, no `unsolicited` |

`Safe` is the type invariant with `PendingIsTracked`, `ClosedIsDead` and
`ConnectionIsUsed` (the call that installed the control socket has been made, so
a later `connect()` is a different one). It holds for every environment. None of
the parts is inductive alone: that closing leaves no promise pending needs that
only the tracked task's could have been, and that a call on a closed context
forgets nothing needs that a closed context tracks nothing.

`Orderly` adds `OneReplyDue`: the replies being handed over, in flight and still
owed are together at most one, and it is the tracked task's. `InSync` follows for
an idle connection, and `ResolvedByOwnReply` because the only reply there is to
settle a task with is its own. A delayed greeting or a 421 is a second reply, hence
the hypothesis. An invalid command does no harm here (nothing was sent), but leaves
a task tracked and watched whose promise is settled, which is what the timeout and
the contract are about.

These theorems are about the context with commands alone (`Spec`).

### `TransferProofs`

The same and more for the context with transfers (`TransferSpec`), in four layers,
each inductive invariant containing the one before it:

| invariant | theorems | hypothesis |
|---|---|---|
| `Contained` | `TransferTypeCorrect`, `ClosingReleasesAll`, `NoLeftOverSocket`, `BytesOnlyWhilePending`, `TransferReasonKept`, `TransferPartialIsOfArriving` | none |
| `Remembered` | `NoTransferForgotten`, `TransferClosedForGood` | no `slowLocalStream` |
| `Watched` | `ExactlyOneTimer`, `TransferImplementsContract` | nor `badCommand` |
| `InStep` (on `Remembered`) | `ResolvedIsTransferred`, `ProgressIsPolledInTime`, `TransfersLeaveNoReply`, `PollsAreStopped`, `TransferOwnReplyOnly` | no `delayedGreeting`, `unsolicited`, `slowLocalStream`, `localAbort` |

- `Contained`: that a data socket belongs to a transfer in progress is only kept
  by every step if a pipeline that still holds the socket is the tracked task's
  (`PipesAreOfTask`) and that task is pending (`TransferIsPending`); otherwise a
  callback would settle one task and leave the socket of another.
- `Remembered` adds `NoneEnded`: without a slow destination no pipeline outlives its
  data socket, so no callback stops the tracking of a later task. The run
  `doc_stale_callback` is what happens with one.
- `Watched` adds `TimersShared`, that the control socket's timeout is set exactly when
  the data socket's is not, and `DestroyedIsClosed`, without which a lost connection
  could leave a task nobody watches.
- `InStep` says which replies may be due: a debt, the start, the outcome, or both in
  this order, and always to the tracked task, whose outcome has not yet been taken.
  That both can be under way at once, in one chunk or two, while the bytes pass or
  have passed, is what makes a transfer harder than a command; `Marked` relates the
  marks that `tryResolve` looks at to the pipeline.

### `AccessProofs`

`AccessTypeCorrect`, `SecretsStayEncrypted`, `AccessIsThorough`,
`HandshakeStartsQuietly` and `AccessKeepsContextSafe`, for any set of calls and every
environment. `StepsOfContext` shows each step of `access()` to be a step of
`FtpContext` or to leave it alone, so that the context's `Safe` carries over. The
invariant `Accessing` adds that the tracked task is the step the call has reached
(`TaskIsStep`), that before the encryption only the greeting and the answer to AUTH
can be owed (`BeforeTLS`), and that replies are in step with the calls as long as
`connect()` was not refused (`InStepWithReplies`): a server that says 120 has another
greeting coming, but `access()` has given up by then.

### `PassiveModeProofs`

`PassiveTypeCorrect`, `SettledOnWhatWorked`, `GivesUpAfterAll`, `DialedIsReachable` and
`ListEndsOnClosedClient`, for any hosts and any limit on a listing. The invariant
`Searching` relates the loop to its history: what is left of the strategies is all of
them, or PASV with EPSV failed, or the pinned one (`SearchIsDue`), and every list
command not left has failed (`UntriedAreCandidates`).

### `LocalFileProofs`

| invariant | theorems | hypothesis |
|---|---|---|
| `Handling` | `LocalTypeCorrect`, `NoEmptyFileRemains` | none |
| `Keeping` | `ResumeKeeps`, `ResolvedTransfersAreComplete` | `~Reuse` |

`Handling` relates descriptors to calls: one call at a time, its descriptor refers to
its file unless that was removed (`HoldsItsFile`), no other is open (`OpenIsBusy`),
and what a stream holds lies within what was received (`WithinReceived`). `Keeping`
describes the contents: a call that is over writes nowhere (`OverIsClosed`); what a
download has written and holds is what it received, and the rest of a resumed file
is the original (`Downloaded`); an upload has sent the file from where it started
(`Uploaded`). `~Reuse` is needed for `OverIsClosed`: with a number handed out again,
the late stream of `doc_reused_descriptor` writes into another file.

### `ControlResponseProofs`

`ResponseTypeCorrect`, `RepliesAreMessages` and `PartialStaysBounded` hold for any
number of replies of any length, in chunks that end anywhere; `EachReplyIsOneMessage`
itself speaks of the time until a chunk ends within a line (`whole`). That what is
remembered stays bounded follows from `RestIsNoLonger`: the remainder is made of the
lines of the text, each with a line break, so it is longer than the text by at most the
break the text's last line did not have. The invariant `Resuming` says that, while
`whole` holds, the remainder ends after a line, and that what was passed along and what
remainder and coming text still yield together are the replies sent. A step keeps it
because the parser can be stopped: a text that ends after a line has no line begun, so
its lines and those of what follows can be read apart (`LinesOfParts`); the remainder is
read as the lines of its group (`RestIsRead`), which open that group again
(`GroupReopens`); and what was parsed before does not matter (`ParseAfter`).
`ParseGoesOn` puts this together. That a chunk boundary changes nothing for a reply that
is cut within its lines is what no bound of a run could say.

`SequenceLemmas` is what these proofs, and the next, rest on: a fold appends,
concatenates and keeps relations, for an operator and two sets that its instances
substitute; and what a sequence of sequences flattens to, or is when one member is
replaced, which is what the open calls of a directory operation are. `SetInduction`
and `SeqInduction` state induction over a set that holds 0 or the empty sequence,
without an operator as a parameter, from the well-foundedness of < on the numbers;
`FoldIsRun` shows that the recursive function behind `FoldLeft` exists and is the last
value of a run through the sequence; `FoldInto` that what the operator keeps, the fold
keeps. `FoldLeft` and `FlattenSeq` are written out in it, as every instance repeats what it
extends. The last lemmas are on sequences of any kind: their parts, what they hold
(`HeldIs`), and a flattened sequence that takes the place of its first element
(`FlattenInto`).

### `DirectoryOpsProofs`

The terms of these proofs, such as the sets that tasks are in and the parts of the
invariants, are in `DirectoryOpsInvariants`, which has no theorem.

`OperationsReturnHome`, for trees, links and operations of any kind and every format of
a listing. The invariant `HomeInv` has two parts. `Homing`: an operation that enters
directories has as its first task PWD, asked in the directory it was called in, or
knows that directory already; and as its last task, and nowhere else, the return. A
failure anywhere leaves just that one. `Placed` types the state and the tasks; it
needs that the files read from a listing have the parts of names
(`FilesType`) and that the tasks for all of them, flattened to one sequence, are again
tasks without a PWD or a return (`FlattenType`), by induction over the listing.

`DirectoryTypeCorrect`, `RemovesAndDownloadsWhereListed` and `ActsWhereItListed` follow
from a second invariant, `DirectoryInv`, which relates the tasks to the server:

- `Located`: where the server is when each task of `todo` begins, as a fold over the
  tasks. `Leads` says where one task leads: into a known directory, to the parent, or
  somewhere unknown; the place is wrong when a task that names its directory, or
  leaves or removes one, begins anywhere else. Nothing in `todo` may begin in a wrong
  place. A step that puts a list of tasks in the place of one keeps this if the list
  leads where the task did, or better known (`StaysLocated`, `BetterKnown`).
- `RoundTrip`: the tasks that take the place of one for a directory begin and end
  there. For one entry this is CWD, the work inside and CDUP, and CDUP undoes CWD only
  if what was entered is no link to elsewhere; for a whole listing it follows by
  induction over the files (`FlattenIsRoundTrip`).
- `OwnFile`: that what `list()` returns names entries of the directory that is listed,
  and that no directory among them is a link. It is shown through the server's
  formats, the choice of lines, each parser's reading of a line, the links that MLSD
  resolves by the target's identity, and `transformList` (`LinesAreOwn` to
  `FilesAreOwn`). The listing is read at all only if a parser fits its last line
  (`Understood`, a guard of the step), and `list()` rejects otherwise.
- `Based`: the server's files are a tree, the working directory is a directory, and
  the paths in `todo` are of the kinds their tasks need.

Nothing is assumed for removals and downloads. An upload does not look at what is on the
server, so `ActsWhereItListed` has the hypothesis `[]NoLinkInTheWay`: no directory that
is uploaded has the name of a link where it is uploaded to. It holds in the run
`directory`, whose local trees avoid the link's name, and it is needed: with a link in
the way `ActsWhereListed` fails, as it does in the trace of `doc_unrelated_files`.
`Typed` and `Based` need no such hypothesis, so `DirectoryTypeOK` (the server's files
stay a tree, whatever an operation that has lost its way removes) is proved
unconditionally.

`RemovalsChangeOnlyTheirOwn` is `ChangesOnlyItsOwn` for every operation but uploads and
`ensureDir`, again with nothing assumed of the environment. Its invariant `Owned` says
what an operation may still do:

- A removal is on its `Way` to the directory, with nothing removed yet and its path
  leading to `goal`, or it is `Inside`: every task that names a directory names `goal`
  or one below it, an absolute RMD is for `goal` alone, and what has changed
  (`OnlyRemoved`) is gone, lies at or below `goal`, and for `clearWorkingDir` is not
  `goal` itself. A directory is cleared only right after it has been entered (`Led`),
  so a CWD that fails takes the clearing with it.
- That the directory entered is the one below is what `DirectoryInv` shows: the files
  listed are the directory's own, and no directory among them is a link.
- A download, `cd()` and what follows an operation consist of tasks that change nothing
  (`QuietTask`).
- `ServerFinds` is about `protectWhitespace`: an argument with blanks in front leads to
  the same place however it is sent; `PrefixIs` that a path below a directory is one
  that begins with it.

`ListsWhatIsThere` is `ListingIsFaithful`: the converse of `FilesAreOwn`, that nothing
of a directory is left out or listed twice.

- A listing is read in several passes: each entry becomes lines, lines become records
  or none, MLSD's directories and unresolved links are dropped, `transformList` drops
  dots. Every pass replaces each element of a sequence by a sequence. `Flat` is that
  replacement, as a fold; two passes are one (`FlatTwice`), so the whole of `list()` is
  one replacement of the entries (`StepsReplace`, `ReadIsFlat`, `KeptIsFlat`,
  `ListedIsFlat`).
- It is then enough to know what one entry becomes: exactly one file, of its type (of
  type file, for the devices of a Unix listing; `AsStated`), whatever the format
  (`EntryIsRead`, `FilesAreListed`); for a link the target comes out of the line, or out
  of the line MLSD adds for it, and leads to where the server says (`LinkIsResolved`).
- A server that lists in DOS format can show neither links, devices and special files
  nor leading blanks. The invariant `Plain` says that while the format is DOS there are
  none: it has to follow both file systems and the names in `todo`, as an upload or
  `ensureDir` could bring some.

`OperationsAreComplete` is `SuccessIsComplete` for all operations, put together from
`RemovalsAreComplete` and `DownloadsAreComplete`, which assume nothing,
`EnsuringIsComplete` and `UploadsAreComplete`. What an operation has not done yet must
still be among its tasks, and only a failure drops a task (`GoesWell`: a step that has
not failed replaces the first task and nothing else).

- Removals: every entry left in the directory is removed by a task that is still to
  come, and begins in that directory (`Emptying`, `Covers`), or the whole directory is
  (`Leaving`). The tasks made of a listing cover the directory because the listing is
  faithful (`ListingCovers`); RMD succeeds only in an empty directory, and in a tree
  an absent or empty directory has nothing below (`NothingBelow`).
- Downloads: every path wanted is there locally (`Fetched`), or one of the tasks to come
  fetches it (`Fetches`, `Fetching`): the file itself, or a directory the path lies in.
  A directory's task is replaced by one for each of its entries, and what lies below the
  directory lies at or below one of them (`EntriesFetched`, from `ListingHolds` and
  `AncestorIsThere`). Local names are remote names (`JoinNames`), and no later task
  overwrites what was fetched, since the server's tree does not change and the path
  decides the content (`FetchedOn`).
- Where these tasks work is again known from `Located` and `Inside`, which both kinds
  of operation share: until the directory is entered the path leads to `goal`, and from
  then on all tasks name `goal` or a directory below it.
- `ensureDir`: the tasks left lead to `goal` from where the server is (`Reaches`, a fold
  over the tasks), and each one that is done goes where it leads (`ReachesOn`). MKD,
  whose error is ignored, does not matter to this: the CWD after it fails unless the
  directory is there.
- Uploads: every local file and directory (`Due`) is on the server with its content
  (`Stored`), or one of the tasks to come stores it (`StoresIt`, `Storing`). It is
  the argument of downloads with the local tree in place of the listings. A file is
  stored at its own path below `goal` and MKD only adds what is missing, so what was
  stored stays (`StoredOn`). The task for a directory is replaced when the server is
  in it, which is when it counts as stored, by one for each local entry
  (`EntriesStored`). Before all that the tasks of `ensureDir` lead to `goal`
  (`UploadApproaches`).

Two hypotheses are needed, and TLC finds both to hold in the run `directory`.
`[]NoLinkOnTheWay`, for `ensureDir` and for uploads that name a directory: a CWD that
a MKD or another CWD follows does not enter a link. The server would go on at the
link's target, while `goal` is where the path leads by its parts. `[]NoLinkInTheWay`,
for uploads, is the one above. Both are about the server's files; nothing in the client prevents such
links. That a file lies in a directory is assumed of `LocalTrees` as of `RemoteTrees`;
that it stays so during downloads is `LocalTree`.

### Assumptions and limits

The proofs use the named ASSUMEs of the modules, and no other: `None` (and `Gone`) is
none of the values it is told apart from, paths and their absolute forms among them, a
link's target is a path, `Quirks` is a set of known quirks,
`MaxPieces` is positive, `Size` and `MaxListingBytes` are numbers, `Hosts` are
addresses, `Params` are records of the parameters' types, `Disks` are files of up to
`Size` bytes, `Replies` are well-formed, paths are finitely many, names are neither
empty nor dots and the blanks before them can be told from the names, the remote trees
are trees, local files lie in directories, an operation's argument is made of names,
slashes and `..`, a path has at least one part (the empty string is one empty part)
while `clearWorkingDir` takes none, and the tasks of `Access` are the pairs of a call
and a step. TLC evaluates all of them.

**Only model-checked:**

- Liveness: `NoPromiseHangs` within `KeepsContract`, `AccessSettlesOrShakesHands`,
  `OperationsEnd`. Fairness and ENABLED are out of the prover's reach. The safety
  part of `KeepsContract` is proved.
- `ChangesOnlyItsOwn` of `DirectoryOps` for uploads and `ensureDir`, on small trees. Its
  exceptions are named in `NoDetour`; a proof has to relate each MKD to the local tree
  or to the path, also after a failure.

## 6. Not modelled

- `send`, `rename`, `size` and `lastMod`: one or two commands and a reply, no state;
  uploads with APPE differ from those with STOR in what the server does.
- Regular expressions and text: the formats of lines, EPSV and PASV answers (that a
  PASV port may be 0 or that EPSV fails to parse is `StrategyFails`), sizes, dates,
  permissions, socket descriptions and logging.
- The byte counters of the progress tracker, which only reach the program's handler.
- A password or path with control characters that makes `send()` throw inside an
  event handler (`login`'s PASS, `downloadTo`'s RETR after 350): the exception
  leaves the event loop.
- Tasks launched while `useTLS()` waits for the handshake: the socket set at its
  end has no timeout, so such a task is not watched. `Access` models a program that
  awaits its calls, or abandons one and calls `access()` again.
- A socket that is still connecting when `reset()` replaces it: both local ports are
  undefined, so it is taken for one being upgraded and not destroyed. Sockets are
  modelled from the time they are installed.
- A server that answers 331 for ever, each time restarting the inactivity timeout.
- Other clients that change the server's or the local files meanwhile, and lines a
  server lists that do not describe its files.
- What Node itself does inside a pipeline: of the orders in which a failing
  pipeline reports, both are allowed (`DestinationFails`, `DataError`).

## 7. Plan

`DirectoryOps`: `ChangesOnlyItsOwn` as a theorem for uploads and `ensureDir` too, where
`NoDetour` holds.
