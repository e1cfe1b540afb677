# SilentVault in TLA+

SilentVault is a file vault: a C++ client and a C++ server that talk over TLS,
with the cryptography in Python. A user registers with a password, proves
knowledge of it with a Schnorr dialogue, and then uploads, lists, downloads and
deletes files that the client encrypts before it sends them. This directory
holds TLA+ models of the program, the TLC configurations that check them, and
TLAPS proofs of what can be said for every size. Paths below are relative to
the repository; `data.cpp`, `comms.cpp`, `resolver.cpp` and `server.cpp` are
those of `src/Server/src` unless the client is named.

## 1. The system

| Part | State it keeps | Operations | Where |
|---|---|---|---|
| File store of a user | an index file (a count, then the encrypted names), one body file per slot | `add_file`, `get_file`, `list_files`, `delete_file` | `data.cpp` |
| Registration record | a salt file and a public key file per user | `write_salt`, `write_pub_key`, `read_*` | `data.cpp`, `resolver.cpp` |
| Server process | `m_should_stop`, `m_sock`, `_active_clients`, one detached thread per connection | accept loop, `stop`, `stats`, `close_sock` | `server.cpp`, `comms.cpp` |
| Connection | what each side has read of a frame | `Comms::send`, `Comms::recv`, the read loop of `handle_client` | both `comms.cpp` |
| Dispatch | none | `interpret_payload`, `Resolver::solve` | `payload.cpp`, `resolver.cpp` |
| Client | the menu it is in, user, key and iv | `_register`, `_authenticate`, `_upload`, `_download`, `_see_list`, `_delete` | Client `client.cpp` |
| Payload codec | none | `serialize`, `deserialize`, one pair per message, each half written twice | both `payload.cpp` |
| Zero-knowledge proof | none | scalar of a password, commitment, response, verification | `src/CryptoService/zk_auth.py` |
| Key set-up | `setup_key.bin`, the key of the process | `_set_up_encryption_key`, `_check_encryption_key`, `set_up_secret`, `check_secret` | `server.cpp`, `data.cpp` |
| Connection set-up | attempts, `m_sock`, `m_ssl` | `tcp_conn`, `init`, `~Comms` | Client `comms.cpp`, `comms.hxx` |
| Python bridge | the interpreter, the GIL, references | constructor, destructor, one wrapper per Python function | `src/PythonWrapper` |
| AES | none | `enc`, `decr`, `pad`, `unpad` | `src/CryptoService/aes.py` |
| SHA, zip | none | library calls | `src/CryptoService` |

How they meet. The main thread of the server accepts connections and makes a
thread for each; the thread reads a frame, builds a payload, hands it to the
Resolver, and writes the answer if there is one. The Resolver calls `Data`, and
Python through the bridge. `Data` keeps nothing in memory: every request opens
the files anew, and no lock is taken anywhere between the threads. A second
thread reads commands from the terminal and shares `m_should_stop`, `m_sock`
and `_active_clients` with the acceptor and the handlers. The client is
sequential: menus send a request and, for some requests only, block in `recv`.
Before it serves, the server asks for a password, makes its key of it, and
either creates `setup_key.bin` or checks the key against it; what `Data` stores
is encrypted under that key. Both programs call Python through one
`PythonWrapper` each, from any thread.

What is hard here, and which properties each part needs:

* **File store.** Deleting renumbers: the bodies after the deleted slot move
  down one by one while the names are still being read, and the index is
  rewritten last. Count and names may come to disagree, reads of missing files
  use uninitialized variables, and an exception leaves the loop half way.
  Wanted: what was uploaded is what is downloaded, a delete costs one body at
  most, and a client that keeps to a stated discipline sees a plain map.
* **The same with threads and crashes.** Two sessions of one user interleave at
  every file operation, and the process may end at each. Wanted: no other
  file's content is lost by a crash; a reader beside a writer gets no foreign
  content; a handler that runs alone is atomic.
* **Registration and authentication.** Two files are written one after the
  other, and read by two different requests of a dialogue. Wanted: an honest
  client is accepted, and the client with another password is refused.
* **Threads of the server.** `stop` may come at any point of the accept loop,
  including before the socket exists. Wanted: the process ends, no client is
  left in the backlog, the count of clients is right.
* **Connection.** Frames arrive in pieces and may be cut; some requests have no
  answer; both sides refuse lengths over 10 MB. Wanted: requests are handled
  whole, in order and once, an answer belongs to the request it is taken for,
  and nobody waits for ever. Setting it up retries after refusals and failed
  handshakes: it must end, and leave one socket.
* **Payload codec.** Each message is laid out twice, by the program that writes
  it and by the one that reads it, and the lengths are ints of any `size_t`.
  Wanted: what is accepted is what was sent, nothing that was sent is refused,
  and no reader leaves the body.
* **Key set-up.** The file is created before it is written, the key is set
  before it is checked, and the process may end anywhere. Wanted: all data is
  under one key, and its password always opens it.
* **Python bridge.** Ten functions, each with several ways out, share one GIL,
  and the destructor takes it from under detached handlers. Wanted: whatever
  Python fails at, references and the GIL are given back, nothing is used after
  it was given back, every call ends.
* **All of it.** Uploads and deletes have no answer, so a client decides by
  what it remembers while requests are under way, and a delete renumbers.
  Wanted: it reads what it wrote, through restarts of the server.

## 2. Modules

| Module | Models | Builds on |
|---|---|---|
| `UserFiles` | the promise: a map from names to contents | |
| `FileIndex`, `FileIndexProofs` | an index: its count, its names, lookup and removal; lemmas about them | |
| `FileStore` | the four operations of `Data`, each handler one action | `FileIndex` |
| `FileStoreProps` | its properties | `UserFiles` by refinement |
| `FileStoreSteps` | the same operations, one action per file operation, several sessions, crashes | `FileIndex` |
| `FileStoreHistory`, `FileStoreStepsProofs` | history variables and properties of the steps; proofs | `FileStore` by refinement |
| `ServerThreads` | acceptor, command line, handler threads | |
| `ServerThreadsProps`, `ServerThreadsProofs` | history variables, properties; proofs | |
| `ZkAuth` | registration and authentication of a user | |
| `ZkAuthProps`, `ZkAuthProofs` | history variables, properties; proofs | |
| `Session` | connection set-up, client menus, framing on both sides, dispatch | |
| `SessionProps`, `SessionProofs` | a history variable and properties; proofs | |
| `Wire` | the payloads: what each side writes, what the other reads of it | |
| `WireProps`, `WireProofs` | its properties; proofs | |
| `Aes` | padding, encryption and decryption over opaque blocks | |
| `KeySetup` | the key of the server over its starts and ends | `Aes` |
| `EndToEnd` | client, connection, store and key together | `FileStoreProps`, `KeySetup` |
| `EndToEndProofs` | proofs about `FileStore`, about `Aes` and `KeySetup`, and from both about `EndToEnd` | `FileIndexProofs` |
| `Bridge`, `BridgeProofs` | the Python bridge, its threads and the GIL; proofs | |
| `MC*` | instances for TLC | |

A definition that starts with "Mutant:" in its comment is not part of a
specification: it is a variant of the definition below it with a plausible
mistake, used to show that a property would notice.

### FileStore

`index` is the file `<user>_files.dat`: whether it exists, the count it holds
and the names behind the count, which need not be as many. `body[i]` is
`<user>_file_<i>.bin`; `_get_index` returns -1 for an unknown name and the code
goes on with it, so slot -1 is a file like any other. `reply` is what the
session got. A name stands for its cipher text: key and iv are fixed for a
user, so equal names have equal cipher texts.

Each of `AddFile`, `GetFile`, `ListFiles`, `DeleteFile` is the whole handler.
The disjuncts of an action are its outcomes: a normal end, or a throw at each
place where the code can throw, with what the files hold by then. Uninitialized
reads are nondeterministic: a missing index has any count in `JunkTotals`, a
name past the end of the index makes the build throw or read zeros (`Junk`), a
missing body makes it throw or yield any bytes (`Garbage`).

Two environments send requests. `Spec` sends anything. `CarefulSpec` downloads
and deletes listed names only, and never deletes a name with a repeat at or
behind it. This is the exact discipline under which the store is `UserFiles`:
dropping either condition breaks it (section 4).

### FileStoreSteps

`job[s]` says where the handler of session `s` is and which locals it holds.
Opening an output stream truncates the file (`TruncateIndex`, `OpenBody`,
`OpenTarget`), closing it writes (`WriteIndex`, `WriteBody`, `WriteTarget`).
Two streams open on one index both write from offset 0 (`Overlay`). An index is
read in one step, because it is shorter than the buffer of the stream; `Crash`
ends every handler and keeps the files. Abstraction: after the last of two
overlapping writes the count is that of the later writer, and the tail is what
the longer one left.

### ServerThreads

`main` and `cli` are program counters; `conn[c]` is the life of a connection
from the backlog to the end of its thread; `socket` is the kernel's view of the
listening socket. `_active_clients` is a plain `int`, so `++` and `--` are a
load and a store. `m_sock` is 0 at first because `Comms` is a static object, so
`close_sock` may shut and close descriptor 0, which is not the socket. Each
fault in `Faults` can occur at its place. What a handler does while it serves
is in the other modules.

### ZkAuth

A point of the curve is its discrete logarithm modulo the order `n`; a
commitment, a secret and a challenge are integers. `salt` and `pub` are the two
files, `Missing` or `Blank` between truncation and write. A registration is
four actions, an authentication three, one per request. A secret computed by
`Secret` is the reduced key derivation, with 0 replaced by 1. The key
derivation itself is a constant function. Hashes and AES do not appear.

The dialogue is that of the repository's client, which commits before it asks
for the challenge and responds to the one it is sent (`AskSalt`,
`AskChallenge`). The server enforces neither: it forgets the challenge it drew,
and `Solve`, the handler of the last message, verifies the commitment, the
response and the challenge that this message carries (`resolver.cpp:71-73`).
What a peer that follows another program could send is not modelled, and no
property or theorem says anything of it. In particular the sentences of
`SilentVault.tex` on soundness (line 187) and on replays (line 228) are not
shown here: they speak of any peer, and the server keeps nothing of a dialogue
that they could be derived from.

### Session

The client begins in `tcp_conn`. `attempt` counts failed attempts; `links` the
sockets it has open; `ssl` says what `m_ssl` points to, which after a failed
handshake is an object that was freed. Each way out of an attempt is an action:
`Refused`, `HandshakeFails`, which go on to the next one, `NoSsl`,
`WrongCertificate`, `InitThrows`, which end the program, and `HandshakeDone`.
A client whose `connect` returned is "queued" in the backlog until the acceptor
takes it (`Accept`). `listener` is the server's socket while the client
connects: closed, open with the acceptor in its loop, or "left" open by an
acceptor whose `accept` failed. `Listen`, `AcceptFails` and `StopsListening` are
its steps; what leads to each is in `ServerThreads`.

`up` and `down` are the two directions of the TLS stream as sequences of units;
`in` and `got` are what the two readers hold: a length or nothing yet, and the
units read so far. One unit per read is the finest grain; whatever arrives in
larger pieces is a sequence of these. `Cut` and `Quit` end the connection and
lose any suffix of what is under way, as a `close` with unread data may. Which
requests have an answer is `AnswerTo`; whether a handler throws is open
(`HandlerThrows`). How long an answer is, `AnswerSizes` says: a list grows with
the store, a download is as long as an upload was, and an answer made of a file
that is missing or empty has a size nothing has set (`JunkSizes`,
`data.cpp:56-66`). User and file names are taken as short. The store is empty at
first. Out of step, a length is read from the middle of a body and can be
anything (`Lengths`), and a body that does not start where a payload starts is
`Garbled`, which the client may refuse or take for its answer. That requests and
answers in step are accepted is what `Wire` shows. On the server a `Garbled`
body would be dropped, and `HandledInOrder` would find the request missing.

### Wire

A body is a sequence of units, each of which knows which part of the message it
comes from; an int takes `IntSize` of them. `Serialized` is what the writer
makes of a message, `Framed` what arrives of it when `send` and `SSL_write`
have made an int of its size. The reader goes through its layout part by part:
`index` and the locals of `deserialize` are `index`, `todo` and `out`, each
`return false` is `Refuse`. `_payload[0]` picks the reader on the server, on
the client the request that waits does. An int read from the middle of
something else has any value. The opcode tables and the four tables of layouts
are the two headers and the two `payload.cpp`; the composition with `Session`
is by assumption only: it takes a body in step as accepted, and `Wire` checks
that it is.

### Aes and KeySetup

A block cipher is opaque: a cipher text is its key and its padded blocks
(`Enc`), and under another key it decrypts to other blocks (`Others`). `Pad` and
`Unpad` are those of `aes.py`, where `unpad` looks at the last byte only. In
`KeySetup` a key is the hash of a password folded in two, the iv that result
folded again (`Secret`): two passwords may have one key. `keyFile` is
`Missing`, `Blank` between creation and write, or a cipher text; `main` is
where the main thread is in `Server::start`; `written` is a history of the keys
under which data was stored. `End` is the end of the process anywhere.

### EndToEnd

`up` and `down` carry requests and answers; `Send` waits for an answer only
where the client does (`Awaited`). `views` is what the client takes its files to
be before each request under way and after the last. A client that connects
knows what is stored: it has seen the list, or remembers. It deletes and
downloads by `views`, never by the files of the server, and does not upload past
`MaxFiles` nor delete a name with a repeat behind it (`Sensible`). `Handle`
is one handler of `FileStore`, with the store's key. `Leave` is a client that
exits while its requests are under way, which are handled all the same;
`EndServer` loses them. Handlers are single steps, frames arrive whole and a
client connects when the handler of its last connection is done: what happens
otherwise is in `FileStoreSteps` and `Session`.

### Bridge

A function is a sequence of parts. A part is a record: the objects it uses, the
ones it makes, the result it owns if Python succeeds, what it drops then, and
what it drops besides on failure (`Part`, `Parts`, `Last`). `Ensure`, `Acquire`,
`Switch`, `Succeed` and `Fail` walk a thread through it; `refs` are the
references that the C++ side owns. `MakeFails` is an object that cannot be
made: nothing tests for `NULL`, so the process dies. The interpreter is
external: it may take the GIL from a thread inside a call and gives it back
later, and a call after `Py_Finalize` is fatal (`CallTooLate`).

## 3. What is checked

Runs that pass:

| Run | Question | Bounds |
|---|---|---|
| `file_store` | what survives any sequence of requests | 2 names, 2 contents, counts -2..3 |
| `end_to_end` | does a client read what it wrote, under one key | 3 names, 2 contents, 4 entries, 2 requests under way, 3 passwords of which 2 have one key |
| `steps_crash` | are handlers atomic, what does a crash cost | 1 session, 2 names, 2 contents, counts -2..3 |
| `steps_reader` | a reader beside an uploader | 2 sessions, 2 names, 2 contents, 3 entries |
| `server_threads` | `stop`, the backlog, the count | 2 clients, all faults |
| `zk_auth` | is the client with the right password accepted, and that with another refused | n = 5, 2 passwords, 2 salts, 2 registrations at once, challenges 0..6, crashes |
| `session` | set-up, framing, answers in step, no endless wait | 2 attempts, lengths of 2 units, bodies to 3, junk sizes 1 and 3, limit 2, 6 requests |
| `wire` | do the two halves of the codec agree | ints of 2 units modulo 64, limit 19, parts of 0 to 2 units, contents to 65, lists of 0 to 2 names, foreign bodies to 7 |
| `bridge` | are references and the GIL given back, do calls end | the main thread with all functions, two handlers with three and one |

* `file_store`: `UploadIsReadBack` (an upload that did not throw is what the
  next download of its name returns, from any state of index and bodies),
  `DeleteSparesEarlier` (names in front of the deleted one keep their
  download), `DeleteLosesOneBody` (every body but one stays in its slot or
  moves down one, also when the loop throws).
* `end_to_end`: `AnswerAsExpected` (an answer is what the client's earlier
  requests make it expect, and none of its requests makes a handler throw),
  `ViewsAgree` (handling what is under way leads to what the client remembers),
  `Paired` (the inductive relation between index and bodies), `KeepsVault`
  (refinement of `UserFiles`), `OneKey` (all data is under one key, the one of
  the server that serves), `PasswordOpensData` (a password under whose key data
  is stored is never refused).
* `steps_crash`: `HandlersAreAtomic` (refinement: the steps of a handler that
  runs alone have the outcomes `FileStore` gives them, between and after
  crashes), `OtherBodiesSurvive` (at every instant each other body is complete
  in its slot or the one before).
* `steps_reader`: `DownloadsOwnFile` (a download beside an uploader gets a
  content of the file it asked for, or what a missing body yields).
* `server_threads`: `CountIsExact` (as long as no two updates overlapped),
  `OneLateAccept`, `NotLeftBlocked`, `StopEndsServer`, `QueuedClientIsTaken`.
* `zk_auth`: `HonestIsAccepted`, `OtherSecretIsRefused` (a client whose secret is
  not the one of a record with an owner is refused, for every commitment and
  every challenge that is not zero modulo `n`).
* `session`: `HandledInOrder`, `AnswerIsCurrent`, `StoredFilesFit` (what was
  accepted as an upload is never refused as a download), `WaitEnds`,
  `HandlerEnds`, `OneLink` (one socket and one live SSL object while the client
  talks, none when it is done), `ConnectEnds` (it reaches its menu or ends, unless
  it is in the backlog of an acceptor that has left).
* `bridge`: `Balanced` (a thread back from a call owns nothing and not the GIL,
  whatever failed), `UsedIsOwned`, `CallEnds`, `ExitEnds`.
* `wire`: `AcceptedIsSent` (what a reader accepts is the message part by part,
  to the last byte), `SentIsAccepted` (what fits is not refused).

Each run has one type invariant besides, except `steps_reader`, whose model has
its own in another run.

Why the bounds are enough. Three slots give a delete with a body before it, one
at it and one behind it, four give two moves in one delete with a name before;
two names give repeats and unlisted names. The count goes one below and one
above what any single request needs: -2 is reached by two deletes on an empty
list, and `JunkTotals` has a negative, a right and a too large count. Two
registrations at once are what it takes to mix two records; five is the smallest
prime with a scalar that is neither 1 nor its own negative, the two passwords
and salts include a derivation that is 0 modulo `n` and two that are equal, and
challenges run past `n`. Two clients give every pair of updates of the count,
and the accept loop has no memory of earlier clients. In `session` a length of
two units can be cut in its middle, bodies of 1, 2 and 3 are below, at and over
the limit; junk has a size below it and one over it. Six requests are an
authentication, two uploads and a list over the limit, or one upload, a download
over it, and what comes after it out of step. In `wire` the longest request, a
response of five parts, has from 11 to 21 units: below the limit, at it and over
it. Contents of 60 and 65 units make the length of the frame wrap to a small
one, and that of the part to a negative and to a small one, as contents of about
2^32 bytes do. In `end_to_end` two requests under way and the one that is being
decided on are what it takes for a view to be two renumberings ahead of the
store; no client of it reads a missing index, so that `JunkTotals` is empty; one
starting password makes data, one opens it with another text, one is wrong; the
blocks of a wrong key have every kind of padding. Two attempts make every pair
of failures. In `bridge` every function runs beside another thread in another,
one that waits and one that calls while the destructor waits.

Deadlock. TLC checks for it except in the runs of `ServerThreads`, `Session` and
`Bridge`, whose systems really stop: after the process has ended, and after the
client has exited and its handler has returned.

Fairness. Safety runs assume none. In `ServerThreads` the three conjuncts are
weak fairness of the main thread, of the command line inside `close_sock`, and
of a handler that is on its way out: the scheduler runs every thread that can
run. Connecting, disconnecting, typing a command and every fault are not fair.
In particular `getline` may block for ever, and a client may stay connected. In
`Session` a reader goes on when there is something to read or the stream has
ended, which is what a blocking `SSL_read` does; the user need not choose
anything and the network need not fail. `Recv`, `RecvThrows`, `Take` and
`TakeThrows` are never a choice against waiting, so one conjunct for the client
and one for the server suffice. `connect` returns, and the acceptor takes a
client from the backlog as long as it is in its loop. `SSL_connect` has no
timeout, so it is fair only where somebody is there to end it (`Attended`): a
handler runs, which begins with `SSL_accept` and delivers its answer or visibly
ends, or the listening socket is closed, which resets what is in the backlog. In
the backlog of an acceptor that has left its loop with the socket open nothing
need ever happen. `ConnectEnds` exempts this state, as `QueuedClientIsTaken`
does in `ServerThreads`. No server must be started or stopped. In `Bridge` a
thread that waits for the GIL gets it in the end, however often others have it:
CPython asks the holder to let go and the holder then waits until another thread
has run. So `Acquire` and `Finalize` are strongly fair. A call of Python ends
although the GIL may be taken from it again and again, so `GoOn` is strongly
fair as well. No thread need call, and `main` need not return.

`HandlersAreAtomic` exempts handlers that start from an empty index or body
which a crash left: `FileStore` has no such files. `WaitEnds` exempts a client
after an answer over the limit: out of step it may read a length larger than
anything that will ever come.

## 4. What the code does not do

Three runs end with a counterexample. Each is a sentence of `SilentVault.tex`
that the code does not live up to.

* `delete_unlisted`: `_remove_index` writes the count less one although the
  name was not found, so the last name of the list is gone (`data.cpp:155`).
* `two_uploaders`: two sessions of a user read the same index, and the later
  rewrite drops the other's name (`data.cpp:90`).
* `torn_registration`: two registrations of a user leave the salt of one and
  the key of the other; the right password is refused (`resolver.cpp:57`).

Other weaknesses that the models contain and no run states as a property,
because no document says enough of them:

* uploading a listed name again appends a second entry that has no body;
  deleting at or before it meets the missing body, throws, and leaves moved
  bodies under the old index (`data.cpp:134`);
* deletes on an empty list make the count negative, and uploads are then not
  listed until the count is positive again;
* the body behind the last listed name is never removed, only cut off from the
  list, and a download of a new name in that slot that comes between the index
  and the body of its upload yields it;
* a crash between truncation and write of an index loses the list (the bodies
  stay);
* a crash between creation and write of `setup_key.bin` leaves a file that no
  password opens; nothing is stored by then, but the server starts no more until
  the file is removed (`data.cpp:170`);
* a list over 10 MB puts the client out of step for the rest of the session, and
  so does a salt or a file over it that is made of a missing file, whose size is
  read into a variable that nothing sets (`data.cpp:58`);
* a failed `accept` ends the acceptor though nobody typed `stop`; the socket
  stays open, and a client that connects then waits in `SSL_connect` until the
  operator stops the server (`comms.cpp:76`, Client `comms.cpp:69`);
* an increment and a decrement of `_active_clients` that overlap leave `stats`
  wrong for good (`comms.cpp:87`, `197`);
* a file of 2^32 bytes or more has lengths that wrap, and the server may store a
  prefix of it (Client `payload.cpp:95`);
* `m_ssl` and `m_sock` keep their values when an attempt to connect fails, and
  the destructor releases them a second time if no later attempt replaces them
  (Client `comms.cpp:69-79`, `comms.hxx:47-59`);
* the two strings that the bridge's constructor adds to `sys.path` are never
  released, an import or an object that fails is not tested for `NULL`, and a
  handler that calls after `Py_Finalize` brings the process down
  (`wrap.cpp:11-22`, `28-37`).

Not in the models: a C++ allocation that throws while the GIL is held, the
Python error indicator that a failed conversion leaves set, and the certificate
object that `verify_certificate` leaks when the host does not match.

## 5. What is proved

TLAPS checks, for every value of the constants that satisfies the named
assumption of the module (`FileStoreAssumption`, `ThreadsAssumption`,
`ZkAssumption`, `NoPassAssumption`, `BlockSizeAssumption`, `KeyAssumption`,
`EndToEndAssumption`, `BridgeAssumption`, `SessionAssumption`,
`StepsAssumption`, `WireAssumption`):

| Theorem | Statement | Argument |
|---|---|---|
| `TypeCorrect` | `Spec => []TypeOK` of `FileStore` | inductive as it stands; bodies after moves by `MovedType`, lookups by `LookupSlot` |
| `CarefulPairing` | `CarefulSpec => []Paired` | `Paired` is inductive under `TypeOK`; the delete needs that removing one name shifts every later first occurrence by one (`WithoutOne`) |
| `CarefulVault` | `CarefulSpec => KeepsVault` | initial states and each of the four operations map to the step of `UserFiles` of the same name; `Paired` gives a body for each listed name |
| `AnyUploadIsReadBack` | `Spec => UploadIsReadBack` | `add_file` and `get_file` resolve a name by the same first occurrence |
| `AnyDeleteLosesOneBody` | `Spec => DeleteLosesOneBody` | each outcome of a delete is `Moved(k, j)` for some j |
| `AnyDeleteSparesEarlier` | `Spec => DeleteSparesEarlier` | the moves of a delete begin at the slot of the deleted name, and removing it shifts no occurrence in front of it (`WithoutPrefix`); `Written` says that an index that lists a name is not missing |
| `StepsTypeCorrect` | `HSpec => []StepsTypeOK` of `FileStoreSteps`, any sessions | `TypeInv`: what the handler carries at each place: a slot, a round of the loop, a count above the least before it is lowered |
| `CrashLosesOwnBodyOnly` | one session: `HSpec => []OtherBodiesSurvive` | `AloneInv`: at each place of a handler the files are those it began with, so far changed (`Progress`) |
| `HandlersAloneAreAtomic` | one session: `HSpec => HandlersAreAtomic` | refinement of `FileStore` step by step: under `AloneInv` the last step of a handler is its action there, every other a stutter |
| `ReaderGetsOwnFile` | one uploader, any readers, no deletes or crashes: `HSpec => DownloadsOwnFile` | `ReaderInv`: each slot holds a content of the name that the index, or the one the uploader is about to write, has there |
| `ThreadsTypeCorrect` | `HSpec => []TypeOK` of `ServerThreads` | first conjunct of the invariant below |
| `CountStaysExact` | `HSpec => []CountIsExact` | `CountInv`: without overlap the one updating thread holds the current count |
| `AtMostOneLateAccept` | `HSpec => []OneLateAccept` | `LateInv`: a late accept has left the loop's test behind, and meets the flag next |
| `NeverLeftBlocked` | `HSpec => []NotLeftBlocked` | `SocketInv`: a listening socket with the flag set is still to be shut |
| `AuthTypeCorrect` | `HSpec => []TypeOK` of `ZkAuth` | first conjunct of its invariant |
| `HonestAccepted` | `HSpec => HonestIsAccepted` | `OwnerInv`, `ReadInv`, `RespInv`: with no registration since, the secret in hand is the one behind the key; then `ResponseVerifies` |
| `OtherSecretRefused` | `HSpec => OtherSecretIsRefused` | by `OwnerInv` the public key is that of the owner's secret P; by `ResponseVerifies` acceptance would give c(x - P) = 0 modulo n, and n is prime (`Cancel`) |
| `DecrUndoesEnc` | `Decr(key, Enc(key, plain), others) = {Returned(plain)}` | the last byte of a padded text is the length of its padding |
| `DataHasOneKey` | `KeySpec => []OneKey` | `KeyInv`: data exists only beside a whole key file, of the same key |
| `PasswordAlwaysOpens` | `KeySpec => PasswordOpensData` | `KeyInv` and `DecrUndoesEnc` |
| `ComposedKey` | `E2ESpec => []OneKey /\ PasswordOpensData` | every step of the composition is a step of `KeySetup` or none |
| `ReadYourWrites` | `E2ESpec => []AnswerAsExpected` | `E2EInv`, by one lemma per request (`UploadHandled`, ...): a handler takes the store from one view to the next and answers what is expected |
| `ViewsAlwaysAgree`, `E2ETypeCorrect` | `E2ESpec => []ViewsAgree`, `=> []E2ETypeOK` | the same invariant |
| `E2EKeepsVault` | `E2ESpec => KeepsVault /\ []Paired` | under `E2EInv` each handled request is one that `CarefulNext` allows; then as `CarefulVault` |
| `BridgeTypeCorrect` | `BSpec => []BTypeOK` | `BInv` |
| `GivenBack` | `BSpec => []Balanced` | `BInv`: a thread at part k of f owns exactly `Owned(f, k)`; `TableSound` shows part by part that every way out leaves nothing |
| `NothingUsedLate` | `BSpec => []UsedIsOwned` | `BInv` and `TableSound` |
| `RequestsInOrder` | `HSpec => []HandledInOrder` of `Session` | `SInv`: the unit the server reads next is the one behind the last it has read, and what is sent next follows what is under way |
| `LinkIsOne` | `HSpec => []OneLink` of `Session` | inductive with the places that the client can be at |
| `AnswersInStep` | `HSpec => AnswerIsCurrent` of `Session` | `AInv`: what the client has read, and behind it what is under way, is the beginning of the one answer it waits for |
| `StoredFitsClient` | `HSpec => StoredFilesFit` of `Session` | `AInv`: nothing stored is over the limit, and the answer in hand has a size that `AnswerSizes` allows its kind |
| `SessionTypeCorrect` | `HSpec => []TypeOK` of `Session` | `TInv` beside the other two: the sizes of what is sent, stored and under way, in step or not |
| `WireTypeCorrect` | `Spec => []TypeOK` of `Wire` | `WTypes`: each reader tests a length against what is left before it uses it |
| `HalvesAgree` | `Spec => []AcceptedIsSent` | `WInv`: after k parts the reader stands where part k+1 was written |
| `NothingIsRefused` | `Spec => []SentIsAccepted` | the same invariant |

Neither the properties of `ServerThreads` nor those of `ZkAuth` are inductive.
The invariant of `ServerThreads` is `TypeOK /\ SocketInv /\ LateInv /\
AcceptedInv /\ CountInv`: what the kernel's socket is at each place of the main
thread, that only the acceptor's current connection is accepted and not yet
served, and that a register holds the count. That of `ZkAuth` is `TypeOK /\
RegInv /\ AloneInv /\ OwnerInv /\ ReadInv /\ RespInv`: what a registration
alone has written by each of its steps, what the record holds while it has an
owner, and that a dialogue not disturbed since it read the salt still uses the
record's secret. Both were model-checked before they were proved. Primality of
`n` is assumed in the form that no two non-zero residues have product zero.

`KeyAssumption` says that a wrong key never decrypts the key file to the text in
it, which is what the server relies on. `OneKey` is not inductive: `KeyInv` adds
that the file is whole while anything is stored and that its key is the one of
the data. `E2EInv` is `E2ETypeOK /\ Paired /\ KeyInv /\ ViewsAgree /\ AwaitInv
/\ AnswerAsExpected`; `AwaitInv` says that the request the client waits for is
the last under way, or answered. `BInv` is `TypeInv /\ GilInv /\ RefsInv`: who
may hold the GIL in each phase of the process, and the exact references of every
thread. `SInv` has one part per sequence of `Session`: `SentInv`, `HandledInv`
and `GotInv` number the requests and place the reader, `UpInv` says that units
under way follow each other, `EndInv` that the next request follows them, and
`PhaseInv` that a closed connection holds nothing. `AInv` does the same for the
way back: `StoreInv` bounds the stored uploads by the limit, `QuietInv` says
that of the requests not yet handled only the last has an answer, the one the
client waits for, and `AnswerInv` that nothing is under way to a client that
waits for nothing. It holds until the client gives up on an answer over the
limit.

The atomicity of handlers needs an invariant that remembers. `AloneInv` ties the
files to `began`, the history of what they were when the handler began, by one
clause per place: `AddProgress` says which index was read and that the body is
empty between opening and writing, `DeleteProgress` that the bodies are
`MovedOf(began, k, i - 1)` after i - 1 rounds and what one half-done move adds
to that. `OtherBodiesSurvive` is read off it, and `HandlersAreAtomic` is the
observation that at the last place `Progress` is an outcome of `FileStore`. The
hypothesis of one session is what the property is about: two sessions break
both. `ReaderInv` needs none of this history, but has to look at the index the
uploader holds while the file is empty (`ListOf`): that is where a body whose
name is not on disk yet belongs, and that it is appended, never inserted, keeps
the slots of the others.

`WInv` is `WTypes /\ Agrees`. `Placed` gives the unit at which each part of a
message was written, `Stands` says that the reader is at one of these and that
what it has read are the parts before, `LooksFor` that what is left of its
layout is what is left of the message; the count of a list is where `todo` grows
to as many names. That such places exist for any number of parts is a lemma
about `FlattenSeq` (`FlattenStarts`): the operator is a recursive function, and
since induction theorems cannot be used the lemma takes a least counterexample
instead, as do those about `Without` in `FileIndexProofs`. The
modular arithmetic of an int of four bytes is used in one place only, that a
length up to the limit is its own `Int32`.

Each safety invariant and each action property of the passing runs is thus
proved. Only model-checked are the liveness properties `StopEndsServer`,
`QueuedClientIsTaken`, `WaitEnds`, `HandlerEnds`, `ConnectEnds`, `CallEnds` and
`ExitEnds`: the prover has no rule for fairness and `ENABLED`. Where a theorem
has a hypothesis, it is that of the run that checks the property.

## 6. What is not modelled, and what could follow

* The composition of `EndToEnd` has handlers as single steps and one connection
  at a time. Two connections of one user break it, as `two_uploaders` shows.
* Of `aes.py`, `enc_file` and `dec_file` are called by nothing. `sha.py` and
  `zip.py` are library calls on opaque bytes; a hash is a constant of `KeySetup`.
* Peers that follow another program than the client or the server of this
  repository. The messages of `Session`, `EndToEnd` and `ZkAuth` are those the
  client sends.
* TLS is taken as a reliable stream that may end anywhere; certificates as right
  or wrong.
* Formatting of the console, build files, certificate scripts and the vendored
  Python headers keep no state of the program.
* Proofs that could follow: the steps towards liveness that are safety, such as
  that a client that waits has an answer or a request under way; that what
  `Wire` accepts is what `Session` assumes of bodies in step, as a refinement.
