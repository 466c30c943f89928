# Formal model of the Astral CLI

TLA+ modules, TLC configurations and TLAPS proofs for the parts of the Astral CLI
(`src/src/`) whose correctness depends on the order of things: the session that several
processes share through one file, the event stream that is cut and resumed, registration
and the polling of a device flow, documents and tasks that several clients write under
optimistic revisions, creations that may be run again, directories bound to workspaces, and
an executable that replaces itself. Three parsers on which these depend are modelled as well.
The server is not in this repository; where the code's correctness depends on it, it is
modelled from how the client uses it and from the contract snapshot the client is built
against (`protocol/snapshots/v2/MANIFEST.json`), and those definitions are marked external in
`PROJECT.json`.

## 1. Inventory

| component | source | state it keeps | operations | what is hard |
|---|---|---|---|---|
| human session | `auth/session.cpp`, `commands/login_cmd.cpp` | the pair of tokens of one server, in memory of each process | load, login, refresh after 401, replay of the call, logout | refresh tokens work once; a spent one revokes the family; processes share the pair; crashes and lost answers between rotation and save |
| credential store | `platform/credential_store.cpp`, `platform/atomic_file.cpp` | one JSON file for all servers | loadSession, saveSession, eraseSession as read-modify-write, temp file and rename | the mutex is per process; whole-file writes; malformed or half-written files |
| SSE frame parser | `client/sse.cpp` | the unfinished line, the unfinished event, the last id | feed, takeEvents | chunks end anywhere; control blocks move the id without an event |
| event listen | `events/listen.cpp`, `commands/event_cmd.cpp` | cursor, count of printed events, backoff | connect, sink, reconnect, sleep | cut frames, expired cursors, limits inside a chunk, flapping servers |
| device flow | `auth/device_flow.cpp` | elapsed time, interval | authorize, sleep, poll | two clocks (sleeps here, seconds there), SLOW_DOWN, slow requests |
| registration | `commands/register_cmd.cpp` | none; the account on the server and the session in the file outlive a run | create the account, device flow, save | the account exists although the login failed; what the user is told |
| documents | `commands/document_cmd.cpp` | none of its own; fetched base and idempotency key during a command | push, delete, conflicts resolve, reads | races between fetch and write, lost answers and re-runs, tombstones, remembered answers |
| todo | `commands/todo_cmd.cpp` | revisions read during a command | add, add-tree, claim, release, done, update, move, dep, tag, listings | read-then-write revisions, batches, cycles, keys built by joining fields |
| tags | `commands/tags_cmd.cpp`, `commands/tag_ref.hpp` | none; a proposal on the server between two runs | create, rename, delete in two runs; lookup by name or id | the second run is a line that the first one printed |
| messages | `commands/msg_cmd.cpp` | none | send under a key, list | lost answers and re-runs |
| API session and paging | `auth/api.cpp`, `commands/paging.hpp` | the query of a listing | choice of the target, request building, cursor following | repeated cursors in one query, rows that move between pages |
| workspace binding and init | `workspace/*.cpp`, `commands/init_cmd.cpp` | the binding file of a directory | init in six steps, nearest file upwards, parsing of targets | renamed workspaces, reused names, a file that changes between two steps |
| profile, doctor | `commands/profile_cmd.cpp`, `commands/doctor_cmd.cpp` | none | one request; a report | which server they reach, malformed bindings |
| self-update | `platform/self_update.cpp`, `commands/update_cmd.cpp` | the executable on disk, a backup of it | look up, download, verify, replace | crashes between two renames, several updates at once, a path read too late |
| semantic versions | `core/semver.cpp` | none | parse, compare | pre-release order, numbers that do not fit |
| HTTP client | `client/http_client.cpp` | none between requests | send, stream | the streaming half drops headers |
| dispatch, output, platform glue | `app/`, `output/`, `platform/`, `core/` | none | parsing, printing, exit codes | nothing stateful |

**Interactions.** Every authenticated command loads the session through the credential
store and runs its requests inside `withLazyRefresh`; `event listen` does the same once
per connection attempt and keeps the pair it loaded for as long as it runs. Login and
register end a device flow with `saveSession`. The listener owns a frame parser per
connection and is called back by the HTTP client with chunks. Commands on a workspace find
it through the flags, the binding file or the environment, and `init` writes the binding.
A tag is resolved in the dictionary before a task command uses it. Processes of one user meet
in three places: the credentials file, the binding file and the server's view of their token
family. Clients of different users meet in the rows of the server.

**What makes each component correct.**

* Sessions: a pair is in the file before the next request uses it; a stored pair can be
  refreshed, or a nameable accident explains why not; only dead pairs are erased; one
  server's login never disturbs another's; the file is never torn.
* Parser of frames: the events are those the blocks of the stream define, however it was chunked.
* Listener: no event missing between two printed ones; the limit stops it
  exactly; an expired cursor is not presented again; retries slow down; it catches up.
* Registration and device flow: an approval in time counts; no early deadline; SLOW_DOWN
  takes effect; what a run reports of account and session is so; every run ends.
* Documents: nothing unseen is replaced; no conflict artifact without a race; a re-run has
  no second effect; a pinned push that reports success took effect at its pin.
* Tasks and tags: no lost update and no half a batch; no conflict without a cause; the
  printed confirmation works.
* Collections: a re-run creates nothing twice and names its own row; a listing has what stayed,
  once if the server takes the last of its cursors, and then ends.
* Workspaces: a binding is replaced only with leave, leads to the workspace that was
  verified, and a name is called taken only for a reason.
* Self-update: an executable is always left, in place unless something died between two
  renames; nothing unverified is installed.
* Versions and URLs: parsing and order are SemVer's; the key of a server is its address in
  lower case, however a target is written.

`PROJECT.json` lists 40 hazards with their lines and the properties that cover them; four have
no property, and a note says why. Where a property covers only part of a hazard, the note says
which part it leaves.

## 2. Modules

```
Tokens ── TokenServer ─┐
  └────── CredentialFile ─┴─ Sessions ── MCSessions                               (TLC)
SessionRegister ·················┘  └─ SessionsProofs                              (TLAPS)
  (abstract, by INSTANCE)
DeviceFlow ── Registration                    RegistrationProofs
Documents ── MCDocuments                      DocumentsProofs
Tags ── Tasks ── MCTasks                      TasksProofs
Collections ── MCCollections                  CollectionsProofs
Workspace ── MCWorkspace                      WorkspaceProofs
SelfUpdate ── MCSelfUpdate                    SelfUpdateProofs
FrameParser ┬─ EventListen ──────┬─ MCEventListen
            └─ FrameParserCheck ─┴─ EventListenProofs
SemVer ······· SemVerCheck
ServerUrl ···· ServerUrlCheck
```

Lines are EXTENDS, dots INSTANCE. A module of proofs extends the component beside it.
`SemVerCheck` is extended by `MCSelfUpdate` and `SelfUpdateProofs`, `ServerUrlCheck` by
`MCWorkspace` and `WorkspaceProofs`.

### Sessions (`Tokens`, `TokenServer`, `CredentialFile`, `Sessions`, `SessionRegister`)

A token pair is the n-th generation of a family (the chain of pairs one login begins), and
a family belongs to one server URL. `TokenServer` is the external server: `current[f]` is
the generation that still works, `revoked` the families that do not, and presenting an
older generation revokes the family, as the snapshot's `token_refresh` says.
Families are revoked from outside too.

`CredentialFile` is the file: a function from URL to pair, or `Malformed`. An absent file
is the empty function, and an unreadable one is `Malformed`, because both branches of the
code then act alike for a single entry. Saving and erasing are two steps, as in
`saveSession`, `eraseSession` and `writeFileAtomic`: `StoreWritten` reads the root and puts it,
changed in one entry, into this process's temporary file, `StoreRenamed` replaces the file, and
`StoreFailed` gives up at either. The mutex is per process and serialises
nothing here, because a process runs one command.

`Sessions` is the processes. Each has a program counter, a command, a URL and the pair in
memory (`pc`, `cmd`, `at`, `mem`); the actions follow `withLazyRefresh`: the call, the 401,
the refresh with all its answers (rotated, rejected, answer lost, network failure), saving,
replaying. Crashes are possible at every step. A request and the handling of its answer is
one step: the server acts at one instant, and the client does nothing while it waits. An
expired access token is not state; a 401 may come at any call, which is at least as much
as expiry allows. `lost` and `contested` are history variables: families whose newest pair
never reached the file, and families held by two processes at once or set back by a
whole-file write. The constant `Overlap` says whether a command may start while another one
runs.

`SessionRegister` is what a user may expect of the file: one independent register per
server, each step of which reads nothing and writes one entry.

### Event stream (`FrameParser`, `EventListen`)

`FrameParser` is `client/sse.cpp` as operators over tokens: what the parser tells apart (line
feed, carriage return, a leading colon, a field name) and pieces of text. A chunk may end
between any two tokens, between CR and LF too. `FrameParserCheck` states the reference:
which events the blocks of a stream define, without any chunking.

`EventListen` composes the parser with `runListenLoop`: a server that writes events and
control frames and remembers the later part of them, a connection that delivers chunks cut
anywhere, the sink with its count, and the loop with its outcomes (normal end, network
failure, 401, 429/503, other status). Text is a model value; what `emitLine` prints is the
event itself.

### Registration and the device flow (`DeviceFlow`, `Registration`)

In `DeviceFlow` time is two clocks: `now`, which everything advances, and `elapsed`, which only
the sleeps advance, as in `device_flow.cpp:86`. A human approves, denies or does neither; the
server answers APPROVED, PENDING, SLOW_DOWN or an error; requests take one of `Latencies`, at most
the timeout `MaxLatency`. The interval may be any number, 0 included. A grant whose `actor_id` is
not a string ends the flow with the JSON library's error (`GrantGarbled`). `slowBefore` is a
history variable: how often SLOW_DOWN had come when the human decided.

`Registration` runs `register`, `register` without login, and `login` on top of it, one run after
the other. `stage` is where the run is, `account` and `stored` name the runs that made the account
and the session in the file, `report` is what the user was told. A step throws one of the
program's own errors (`Throws`, to which `HintedAt` adds the hint) or the JSON library's, which
passes the catch and ends as INTERNAL (`Escapes`). Every request may lose its answer, the process
may die at any step, and somebody else may use up the code. The variables of the flow are reset
when a run ends (`Rests`), since they are locals of `runDeviceFlow`.

### Documents (`Documents`)

One path of one workspace, the server's row as the sequence of its versions (a tombstone is
a version), the conflict artifacts, and the answers it remembers per actor and idempotency
key. `push` (fetch, gate `requireBaseAgreement`, PUT with its key) and `delete` are modelled in
full, with `conflicts resolve` as a third writer. A command may lose its answer, and may be
run again with the same arguments. `--force` and `--base-revision` are part of the command.
`Forget` is the end of the server's 24 hours.

### Tasks and tags (`Tags`, `Tasks`)

`Tasks` is the commands of `todo_cmd.cpp` that change tasks which exist. Those that carry an
`expected_revision` (`claim`, `done`, `update`, `move`) read it first, one task after another,
unless `--revision` gives it: `base[c]` is what client c has read, `Read` is one GET, and the
write (`Claim`, `Done`, `Update`, `Move`) is one request, all or nothing, also for the batch of
`done`, which the server refuses if a task is named twice. The others (`Release`, `DepAdd`,
`DepRemove`, `AttachOrDetach`) are blind; the server answers them idempotently, gives both ends of
an edge a new revision and refuses cycles. `moved` is a history variable: which tasks changed
since c read them.

`Tags` is the dictionary and the proposals. A command line of `astral tags` resolves its tag
(`ResolveTarget`, shared with `todo tag`), then proposes or confirms (`Propose`, `Confirm`,
`SubmitRefused`); `HintLine` is what a shell makes of the line that `printProposalHints` prints: no
command at all if a name is not one word, and otherwise one that reaches its workspace by the
directory it is run in, never by `--server` and `--workspace`. A proposal keeps, as
history, its command line and whether the dictionary is still what that command found.

### Collections (`Collections`)

Rows in order of position, created by `todo add`, `todo add-tree` and `msg send` under a key made
from the arguments, and listed page by page. `Key` is the join of the fields with their separator,
as `deriveIdempotencyKey` gets it; the hash is taken to be injective. Texts are sequences of
characters, one of which is the separator. The server replays the first success of an actor,
endpoint and key until `Forgets`. A listing is the loop of `fetchPageItems`: the query grows by
every cursor (`Followed`). The contract has one cursor and does not say which of several counts,
so a server takes the first or the last (`taken`). A page is the set of the first `Limit` rows
behind the place its cursor names. Rows leave and change places meanwhile.

### Workspaces (`Workspace`)

`init` in its steps (look up, create, verify, read the binding, write it), by processes that may
overlap, on directories that lie in each other; the servers with workspaces that are made, renamed
(a slug stays, and a lookup finds either) and hidden; binding files that are removed or spoiled.
`WorkspaceReached`, `ServerReached` and `Diagnosed` are what the other commands, `profile` and
`doctor` make of flags, nearest file and environment. Files change only by `init` and by `Edited`;
a binding that is copied or written by hand is not a state of the model.

### Self-update (`SelfUpdate`)

Several executions of `astral update` on one of three platforms, each run once and named like
the file it extracts. The steps are those of `UpdateCommand::execute`: start from
whatever the target is, look up the release, read the own path and clean up, download,
verify, extract, replace. POSIX replaces by one rename; Windows by two moves and a
best-effort move back. Two facts of operating systems are modelled because the code depends
on them: Windows does not delete or overwrite a file that is running (but renames it), and
`/proc/self/exe` of a process whose file was overwritten reads `<path> (deleted)`. A process
may crash between any two operations.

### Pure algorithms (`SemVer`, `ServerUrl`, the `Check` modules)

`SemVer` is `parse` and `operator<=>` over tokens (separators, runs of digits, words); the C++
`int` is scaled to `MaxInt`. `ServerUrl` is `normalizeServerUrl`, `splitAtPath` and
`parseTargetSpec` over tokens. `FrameParserCheck`, `SemVerCheck` and `ServerUrlCheck` state the
references (the events of a stream's blocks; the grammar and order of SemVer; one key per server
whichever way it is written), each with the inputs it speaks of. The run of the component that uses
the algorithm has their bounded inputs as further initial states.

## 3. Runs

Bounds are constants named in the modules. The MC modules give the constants their sets and,
where it is sound, their symmetry.

| run | what it checks | bounds, and why they are enough | states |
|---|---|---|---|
| `sessions_exclusive` | non-overlapping commands: `ErasedPairIsDead`, `PersistedBeforeReplay`, and `RegisterSpec`: the detailed file implements the abstract registers | 2 URLs, 3 families (two of them on one URL: a re-login), every family rotated twice: a replay, a stale pair and a lost rotation all happen | 391 k |
| `sessions_overlap` | any interleaving of 2 processes: `TokenAtHome`, `ReplayHasCause`, `StoredPairUsable`, `NeverTorn` | as above, with one rotation of one family on each server: one rotation makes a spent pair, two processes make every race over a file of whole-file writes | 4.1 M |
| `event_listen` | type, no holes, whole lines, the limit, cursor expiry, slow-down, catching up; `EventsAreTheBlocks` over all streams and chunkings | 3 events, at most 3 troubles, backoff 1 to 4: cut, expire and resume in one behaviour, and the backoff reaches its ceiling. 4 lines over the kinds of field the parser tells apart, chunks to 8 tokens: two events fit, or an event before or behind an id-only block, with every cut; `BlocksBecomeEvents` is proved for any length | 117 k |
| `event_listen_retry_after` | violated: `RetryAfterHonoured` | same | |
| `registration` | approval in time, no early deadline, SLOW_DOWN converges, truthful reports, termination | expiry 40 against interval 3, penalty 5, wanted gap 10: room for several polls and SLOW_DOWNs; latencies 0, 1 and 4, the last above the interval; 2 runs: a second one after every way the first can end | 314 k |
| `registration_tells` | violated: `TellsOfAccount` | same | |
| `documents` | `ReplacesOnlyWhatItSaw`, `NoPhantomConflict`, `RerunChangesNothing`, `PinnedPushTakes` | 2 clients, 2 contents and the empty one, 3 revisions and 1 artifact: create, replace, delete and revive, with a race at each | 3.0 M |
| `tasks` | `WritesOnlyWhatItRead`, `ConflictHasCause`, `HintCompletes` | 2 clients, 2 tasks, 3 revisions: a write between every read and write, a batch of both tasks, a cycle through two. 1 tag with 3 spellings, one of two words, and 2 proposals: the dictionary changes between proposal and confirmation, and within one run. Where there is a proposal each task has changed once at most, and the second is made only before the tasks change (`FewProposals`), which keeps the product of the two halves small; they meet in one proposal | 1.6 M |
| `collections` | `CreatedOnce`, `AnsweredWithOwn`, `ListingComplete`, `ListingEnds` | 2 clients of one actor, 3 rows and positions, pages of 1: a listing of three pages, whose third query repeats a cursor, with rows coming, going and moving between pages, and a server of either kind | 800 k |
| `workspace` | `ReachesVerified`, `ReplacesOnlyWithLeave`, `TakenHasCause`; `KeysOfServer` over all targets | 2 processes, 2 servers of which one has both workspace ids and the other none, 2 names, 2 directories one in the other: a race of two inits on one file, reuse of a name, shadowing of a binding. An init without `--rebind` creates at the top, one with it looks up below. Up to 2 path segments in either case, with and without a slash at the end | 1.2 M |
| `self_update` | `ExecutableSurvives`, `MissingHasCause`, `OnlyVerified`; `VersionsAreSemVer` over all pairs of versions | 3 executions: one can start from what a second installed while a third still runs the first file, so clean-up, an older backup and a move meet. Versions with up to 2 pre-release identifiers of every kind, int scaled to 4, so numbers that do not fit occur | 451 k |
| `self_update_reports` | violated: `InstallsWhatItReports` | same | |

`CHECK_DEADLOCK FALSE` is set where the program really stops (a listener at its limit or after a
fatal status, the last run of `register` and `login`, a history at its bound). In the other
models a process can always start another command, so deadlock is checked there.
Most modules also state a `TypeOK` that no configuration names: it is proved (section 4).

### Fairness

Three specifications state liveness.

* `EventListen.CatchesUp`: weak fairness of the server's writes, of chunk delivery on an
  open connection, of a connection opening, of a connection that is being cut closing, and
  of the sleep ending. Each is something the code waits for in a blocking call that returns
  (`sleepMs`, `client.stream`), or the network doing its work. Failures are not fair and are
  limited by `Trouble`: the property promises nothing to a listener whose network never works.
* `Registration.RunEnds`: weak fairness of every step of a started process (post, authorize, tick,
  wake, poll, the end of the flow, the save). Every request has a timeout in the HTTP options, so
  it ends, and time passes. No fairness is assumed of the human, and a death of the process ends
  the run too. An interval of 0 is excepted: time then does not count.
* `Collections.ListingEnds`: weak fairness of the next request of a listing, for the same reason.
  Nothing is fair about the rows.

### Violated properties

Three runs show a disagreement between a text of the repository and the code. `findings` in
`PROJECT.json` quotes each.

1. The listener's Retry-After branch never runs, because the streaming client keeps no
   headers (`http_client.cpp:219`).
2. On Linux an update that reads its own path after another update replaced the file
   installs to `astral (deleted)` and reports success (`self_update.cpp:77`).
3. A register that created the account fails without saying so, when an answer of the login has a
   field of the wrong type or the save of the session fails (`register_cmd.cpp:277`).

### What else modelling showed

These have no run of their own. Most are consequences of a design that the model accepts as it is.

* Sessions. With overlapping processes a rejected refresh erases whatever is stored by then,
  which may be another process's live pair (`session.cpp:186`): `ErasedPairIsDead` is checked
  without overlap only. `RegisterSpec` fails too: processes that write at once lose updates of
  each other's servers (`credential_store.cpp:172`).
* Listener. Without a cursor a new connection starts at the present and skips what happened
  in between (`listen.cpp:89`).
* Device flow. Only sleeps are counted, so with slow requests it polls a little past the expiry
  (`device_flow.cpp:86`): `TimesOutLate` says that it does not stop early, and nothing that it does
  not stop late. With an interval of 0 from the server, which the contract allows and the unit tests
  use, no deadline comes and a server that says pending for ever keeps the loop running; `RunEnds`
  excepts it.
* Registration. A register whose 201 is lost reports a failure, and when run again the code is
  rejected, though the account exists.
* Documents. `push --force` of a content pushed within 24 hours is answered from memory and
  overwrites nothing (`document_cmd.cpp:441`). It is the same key that makes
  `RerunChangesNothing` hold: the server cannot tell a re-run from a wish to overwrite again.
  `conflicts resolve` sends no base.
* Tasks. `--revision` is ignored by a `done` of several ids. `move` has no `--revision`. An id
  that is given twice is sent twice, and the contract (`openapi.yaml:2293`, `2311`) refuses the
  batch.
* Tags. A confirmation carries the code and the name but not the action, so a line can confirm a
  proposal of another kind. A proposal is made for the id that was looked up before: the printed
  line works only if the dictionary is still what the proposing command found, which
  `HintCompletes` therefore assumes. The comment at `tags_cmd.cpp:166` calls the line complete and
  copy-pasteable; names are printed without quotes, though, and `--server` and `--workspace` are
  not printed, so it is a command only if the names are single words, and reaches the workspace
  only from a directory that leads there. `HintCompletes` is restricted to that. `tags delete`
  with an id sends an empty name, which the contract (`minLength: 1` of `TagProposalRequest.name`)
  refuses, so a tag can be deleted by its name only (`tag_ref.hpp:26`, `tags_cmd.cpp:158`).
* Collections. The fields of a key are joined by a separator that may occur in them, so two
  different lines can share a key and the second is answered with the first row
  (`todo_cmd.cpp:497`); `AnsweredWithOwn` excepts such lines. A message sent twice on purpose
  within 24 hours, or a task that was deleted and is added again, is answered with the old row.
  Every cursor stays in the query (`api.cpp:274`). A server that takes the last of them is asked
  for what it should be; one that takes the first answers the third request with the second page,
  whose rows are then listed again, and may do so for ever. `ListingComplete` and `ListingEnds`
  say which of their promises are left then.
* Workspaces. The binding is read before the flags are looked at, so a malformed file stops a
  command even when both flags are given (`api.cpp:52`). `doctor` reports such a file at line
  154 and then fails on it at line 170 unless `ASTRAL_SERVER` is set. `init` writes the file even
  when it is bound already.
* URLs. Only the slash of the root is dropped, so `https://host/astral --workspace ws` and
  `https://host/astral/ --workspace ws` are two keys of the credentials file, and the second is not
  that of `https://host/astral/ws` (`target.cpp:46`; `target.hpp:27` speaks of "a trailing slash").
  `KeysOfServer` says that this is the only way to a second key.
* Versions. A number that does not fit an `int` compares as 0 (`semver.cpp:88`). `update` compares
  for equality only; the order is used by tests.

## 4. Proofs

TLAPS proves these for every value of the constants that satisfies the named assumptions.
The assumptions are evaluated by TLC in the runs.

**`SessionsProofs`** assumes `UrlAssumption`, `HomeAssumption`, `NoTokenAssumption`,
`MaxGenAssumption`, `ContentsAssumption` and `OverlapAssumption`: any number of servers,
families and processes. The invariant is the conjunction of

* `TypeInv` (type, and `Shape`: what a process in each phase has in memory and in its temp
  file; without it nothing is known of the snapshot a rename is about to install);
* `Provenance`: every pair anywhere belongs to the URL it is filed under and to a
  generation the server issued;
* `CauseInv`: `HeldPairUsable`, `StoredPairUsable`, `SharedIsContested` and
  `ReplayHasCause`. The last alone is not inductive. A spent token reaches a server
  because it was *held* spent before; it is held spent because it was *stored* spent, or
  because another process rotated it meanwhile; so the invariant has to follow the pair
  through the file and each temp file.

`TypeCorrect`, `StaysReadable` (only a rename changes the file, and what it installs is complete),
`Isolation`, `StoredPairs` and `ReplayCause` follow.

Under the further assumption `~Overlap` the module has the invariant
`ExclusiveInv`: one process is active (`Alone`), its memory is in step with the file
(`InStep`) except between a rotation and its save (`Pending`), and its snapshot is the
present file (`Snapshot`). From it follow `ErasesTheDead`, `PersistsFirst` and
`FileIsRegister`. The last is the refinement: initial states map to initial states, a rename
changes one entry of the file, and every other step is a stutter of the registers.

**`EventListenProofs`** assumes what `EventListen` does of its bounds. Any number of events may be
written, and chunks may end anywhere. Its invariant is `TypeOK` with

* `Account`: what was printed is the events up to the last one counted, and the cursor is its id;
* `StreamInv`: what the parser will hold when the rest of the wire has been fed (`Rest`) is a clean
  parser that has the events from the next one on ready, or the notice of the cut, whatever has been
  fed already and however it was divided;
* `RefusedInv` and `BackoffInv`: when a cursor was refused, and how the waits relate.

It rests on `ChunkingIrrelevant` (feeding two chunks is feeding their concatenation) and on what
the lines of a block that the server writes do to the parser. Both are inductions over sequences.
The provers have no induction rule they can use, but they know that `<` is well-founded on the
naturals, so a set of numbers has a least element; with it the lemmas `SetInduction` and
`SeqInduction` say of *sets* what an induction rule says of predicates. `NoHoles`, `NoMixing`,
`LimitHolds`, `NeverAskedAgain` and `WaitsGrow` follow.

Its last section is about the parser alone, for lines with any text, either line end, and any
cuts; it assumes `LinesAssumption` and `StreamAssumption` of `FrameParserCheck`. The invariant
`TakenAndHeld` says that the events taken, with what the parser holds, are what one `Feed` of all
that has been received makes. `After` is the parser after n complete lines, in the words of the
reference: it is followed line by line (`AfterBlank`, `AfterField`), and the tokens received are the
complete lines and part of the next (`Received`), which only goes to the buffer (`FeedInside`).
`BlocksBecomeEvents` follows. The reference's recursive functions (`Written`, `Values`) are shown
to exist by the induction above (`Recursion`) before anything is said of them.

**`DocumentsProofs`** assumes `DocumentAssumption` and `NoPinAssumption`. Its invariant is
`TypeOK` with `Aimed` (a pinned request carries its pin; a default one carries the revision
it fetched, or base 0 if that was not live, and has passed the gate), `Restored` (a
remembered push pinned to revision r made revision r + 1) and `Remembered` (the server
remembers exactly the commands that took effect). Its theorems are
action properties: `ReplacesSeen`, `NoPhantom`, `Rerun` and `PinnedTakes`.

**`TasksProofs`** assumes `TagAssumption` and `TaskAssumption`. Its invariant is `TypeOK` with

* `Fresh`: what a client has read is at most the task's revision, and is it exactly unless the
  task moved on or the revision was given by hand;
* `Reading`: only a command that reads has read anything, and one that sends has read all;
* `Found`: a command that uses a tag has resolved it, and confirms a proposal that exists.

All writes are brought under one lemma (`EndsInv`): a run that ends and changes some
tasks, each to its next revision, leaves the others' `moved` in step. `NoLostUpdate` and
`NoSelfConflict` follow. `HintsWork` needs the second invariant `Hints`: no two tags have the same
name but for case (`Unique`, so that an argument stands for one tag at most), a proposal whose
dictionary is unchanged is what its command line comes to now (`Standing`), and a run that
confirms holds the tag its line names (`Kept`). Attempting this proof
showed that the property was too strong as first stated, for a case that needs two
proposals; the property and the instance of the run were corrected.

**`CollectionsProofs`** assumes `CollectionsAssumption`. `Recorded` (every remembered answer is of
a row with the same actor, endpoint and key, whichever process computes the key) with
`CreatedOnce` itself is inductive; `NotTwice` follows. Forgetting has to go by age for it.
`OwnAnswer` needs `Answered` (the row of the answer has the line's endpoint and key) and
`OneKeyOneLine`: lines without the separator in a text, whose keys and endpoints are one, are one
line. That is `JoinedInjective`, by induction over the sequence of texts: the last separator of a
joined text is where its last text begins (`LinkedEqual`), and a text without one is not the link
of two others. `ListingsAreComplete` has the invariant `Collecting`: of the rows that have kept
their place, those up to the place where the next page starts have been collected, and as long as
no page can have come twice (`Exact`) those only and each once. It is kept because the rows of a
page are those up to its last place (`PageUpToLast`), and the last page is all that is left
(`LastPageIsAll`).

**`WorkspaceProofs`** assumes `WorkspaceAssumption` and `LineAssumption`. Its invariant adds to
the types `Certified` (a binding names what was verified for its file), `Working` (the target of
an init past its lookup exists on the server it asked), `Entitled` (one that is about to write has
read a binding it may replace) and `Expecting` (a name that is gone when it is to be created has
an excuse), and `NamesPaired` (a workspace has a name exactly if it has a slug). `ByIdOnly`,
`ReplacedWithLeave` and `TakenForAReason` follow.

`KeysAreKnown` is about `ServerUrl`, for any scheme, host, port, sub-path and name of which
`TargetAssumption` says only that no word is a separator. A URL is where it begins, up to the
port, and a path: `splitAtPath` cuts between the two (`UrlSplits`), `normalizeServerUrl` changes
the beginning and only a path that is one slash (`Normalized`), and of the path of a shorthand
`parseTargetSpec` keeps all but the last segment (`Cut`); where both spellings lead is then put
together (`Leads`). The attempt showed that the model of `splitAtPath` chose between two cases
that could both hold; they now exclude each other.

**`RegistrationProofs`** assumes `TimesAssumption` and `RunsAssumption`. `Timely` relates the two
clocks (what was slept has passed), `Spaced` the interval to the number of SLOW_DOWNs and the time
of the last poll, `Prompt` the clock to the decision (since then no more rounds have passed than
SLOW_DOWN added, and the one under way), `Informed` the stage, the account, the file and the
report. `TimeoutIsLate`, `Converges`, `ApprovalCounts` and `TruthIsReported` follow. The proof of
`ApprovalCounts` corrected the property: with room for two rounds, as it said first, it holds only
if one penalty reaches the gap.

**`SelfUpdateProofs`** assumes `NamesAssumption`. Its invariant adds to the properties
`Anchored` (on Windows every running execution runs from the target or the backup), `Atomic`
(the other platforms always have a target and never make two moves) and `Checked` (past the
check only with an intact archive; a file in place belongs to a finished execution). `Anchored`
is why no clean-up can remove the last executable: while the target is missing, whoever cleans
up runs from the backup and thereby locks it. `Survives`, `MissingCause` and `Verified` follow.

Its second half is about `SemVer`, for any number and length of the pieces, and assumes
`WidthAssumption` and `PiecesAssumption` of `SemVerCheck`: the latter says what tokens a piece is
made of, legal or not, and that leading zeros are alone in their piece, which is how a text is
divided into tokens. `Segments` gives back what was joined by dots (`SegmentsOfJoined`), the
separators divide a text where it was put together (`Undressed`, `Divided`), so parsing gives the
pieces back exactly when they are proper (`Reading`). Comparing is one idea three times, of the
three numbers, of the identifiers and of the letters of one: `ListOrder` says that the first
difference, and then the length, order two lists as the specification does, given that of the
elements. `VersionsOrdered` follows. `Segments` and `Joined` are recursive functions, shown to
exist as in `EventListenProofs`.

Every module's `TypeCorrect` is proved too, `Collections`' (which has no type invariant of its own)
excepted.

**Model-checked only.** Liveness (`CatchesUp`, `RunEnds`, `ListingEnds`), because the prover does not
handle fairness and ENABLED. Every invariant and every action property that a passing run checks
is a theorem.

## 5. What is not modelled

* Components marked `not_modelled` or `partly` in `PROJECT.json`, because the rest of them keeps
  no state: dispatch, output, most of the HTTP client, the probes of `doctor`, platform glue.
* Sessions: the `servers` slot of the credentials file, which no command writes; the temp
  files a crashed process leaves behind, which nobody reads; the `ASTRAL_TOKEN` path, which
  has no session to change.
* Listener: negative `--max-events`; the layout of lines.
* Registration: the prompts; `--bootstrap`, which is a registration without a code.
* Documents: reads; a resolve is a write without a base, because the protocol has none;
  collisions of the content hash. A delete of what is deleted already is a success if it carries the
  revision of the tombstone, which is what a default delete fetches, and a conflict otherwise.
* Tasks: deletion (no command does it) and actors with `task:override`; creation, which is in
  `Collections`; titles and descriptions, which are written like the other fields of `update`.
* Collections: filters of a listing and the tables printed; hash collisions; two listings at
  once, which do not disturb each other.
* Workspaces: bindings that were copied or written by hand.
* Self-update: names of assets, the JSON of a release, `--check`; that the work directory
  and the target lie on one file system.

## 6. Plan

Done, in this order: the session, because every command stands on it and its failures lose a
login; the streaming half; documents; self-update; then tasks and tags, collections,
registration, workspaces and the parsers, each with its proofs. Left: the three induction lemmas
stand in each of the modules that use them, which a module of their own could share.
