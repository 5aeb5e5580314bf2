# TLA+ models of ysqlite3

ysqlite3 is a C++ wrapper around SQLite with an encrypting VFS.  This directory
holds TLA+ models of its core, TLC configurations that check them on small
instances, and TLAPS proofs of the results that matter most.  `PROJECT.json`
lists the parts of the system, the runs, the mutations each property is known
to catch, the source lines behind every definition, the hazards the properties
are aimed at, and the disagreements between code and documentation found on the
way.  Paths below are relative to the repository.

## The system

| Part | State it keeps | Operations | Interacts with |
|---|---|---|---|
| Encrypting page file (`vfs/crypt_file.hpp`, `vfs/page_transforming_file.hpp`) | `_current`, `_transformation`, `_transform`; the stored pages | constructor (URI key and cipher), `PRAGMA key`, `cipher`, `crypt_transformation`, `read`, `write`, destructor | called by SQLite's pager through `vfs/file.cpp`; calls the parent file |
| SQLite's pager (vendored `sqlite3.c`) | page cache, dirty pages, rollback journal, requested reserve, version of the file, locks | read, write, spill, commit, rollback, hot-journal playback, `VACUUM` | reads and writes pages through the encrypting file, the journal around it; shares the file with other connections |
| `Database`, `Statement`, `Results` (`database.*`, `statement.*`, `results.*`) | raw `sqlite3*` and `sqlite3_stmt*`; bindings; the row | open, close, move, release, prepare, bind, step, finish, reset, column access, `set_reserved_size` | SQLite's handles; the connection's error code |
| `Transaction` (`transaction.*`) | the guarded database | constructor (BEGIN), commit, rollback, move, destructor | `Database::execute` |
| VFS objects (`vfs/vfs.*`, `vfs/sqlite3_vfs_wrapper.hpp`, the extension) | SQLite's VFS list, `_registered`, `_parent` | construct, register, unregister, destruction, nested `xOpen` | connections and wrappers keep raw pointers |
| File bridge (`vfs/file.*`, `vfs/sqlite3_file_wrapper.*`) | the `File` object behind a `sqlite3_file` | forwards every I/O method, converts exceptions and codes | parent file |
| Base64 codec (`base64.hpp`) | none; loops over iterators | encode, decode, decode in place | - |
| SQL functions (`function/*`) | the function object; compiled pattern as auxiliary data | registration, calls through `xfunc`, `regexp`, digests | SQLite's function table; the running statement |
| Errors, `finally`, `Span` | - | - | everywhere |

A connection belongs to one thread; what is hard here is

* **failure in the middle**: a commit, rollback, playback or `VACUUM` consists
  of many page writes, each through an encoder whose configuration may change
  between them, and any of them may be refused, fail or be the last thing the
  process does;
* **recovery in another process** with whatever key is set at that moment;
* **connections side by side**, each with its own key and cache, which only the
  forwarded locks and a change counter in the clear keep in step;
* **ownership**: handles, transactions, function and VFS objects pass through
  moves, forced closes, releases and `noexcept` destructors in any order, from
  inside callbacks too;
* **stale side channels**: the connection's error code is overwritten by any
  call and read to tell a NULL from a failure;
* **arithmetic at edges**: the 32 bytes of IV and tag in the reserve, the sizes
  of base64 buffers, indices that count from 0 on one side and 1 on the other.

What makes each part correct:

* the encrypted database: some single key the application knows reads it after
  any crash; no committed byte is overwritten by IV or tag; transactions are
  atomic; what the cache holds is what is stored; commits and rollbacks end;
  several connections together do no worse;
* handles: each has exactly one owner while it lives, none afterwards;
* guards: no transaction is open without a guard that will end it, unless the
  application has taken its connection away from the guard;
* function objects: deleted once, not under a running call, not leaked;
* VFS objects: no raw pointer dangles, a default VFS exists, every open ends,
  what is written through a stack of files is read back;
* binding and rows: what was bound is what runs and is matched, NULL is no
  error, an error is never lost;
* codec: decoding inverts encoding, accepts exactly the well-formed texts, and
  stays inside its buffers.

## Modules

### CryptFile, CryptDb, CryptDbProps: the encrypted database

`CryptFile` is `Crypt_file<SQLite3_file_wrapper>`: the variables `current`,
`transformation` and `transform` are the members of the same names, `disk` is
the parent file.  A page image is its content and the reserve it is laid out
with; a stored page also records the encryptor that sealed it.  AES-GCM is
ideal: a page opens under exactly the (cipher, key) pair that sealed it, with
no cipher the bytes are taken as they are.  Ciphertext taken this way (`Undecoded`)
is not a page image, but it is cached, journaled and written like one; encoded a
second time it is `Damaged`, as IV and tag of the first time are overwritten.
Key derivation and the textual key formats are reduced to "a key or rejected";
a rejected value changes nothing, as in the code.  `encode_page` turns content
laid out with less than 32 reserved bytes into `Damaged`.  Page 1 carries its
reserve byte in the clear, which `check_reserve_size` looks at on every read
and write of that page, and only there.

`CryptDb` puts SQLite's rollback-journal pager on top, as far as it meets the
file: cache, dirty pages, journal, which journal records are synced, commit in
ascending page order, rollback in memory and in the file, hot-journal playback,
`VACUUM`, the requested reserve and `set_reserved_size`.  Journal images bypass
`encode_page`, so restoring a page encodes it anew.  `Crash` keeps what is on
disk and the synced journal records.  Two kinds of application are modelled:
`Client = "careful"` keeps to the order of `examples/encryption.cpp` (configure,
then access; re-encrypt by transformation, key, `VACUUM`, end of transformation;
give up a connection whose re-encryption failed; remember both encryptors until
it has succeeded), `Client = "any"` sends every pragma at every moment, inside
transactions too.  `Setups` is the set of combinations an application may have of
a spilling cache (`spill`), re-encryption (`rekey`) and access to an encrypted
database while no cipher is set (`blind`); one is picked at the start and kept.
Of a page 1 cached as ciphertext only the header can be changed (`Changed`), by a
`PRAGMA user_version = N`, which needs no schema and dirties the page as it is;
other pages are reached through the schema (`SchemaRead`).

`AtomicStore` is the abstract specification: content that changes only by
atomic transactions.  `CryptDbProps!AtomicTransactions` instantiates it with
the content that would survive a crash (`Durable`) and the content the open
transaction sees (`View`): commit happens at the deletion of the journal.

### SharedDb: connections side by side

Several connections to one encrypted file.  Pages carry the key they are stored
under and the number of the transaction that wrote them; page 1 is the change
counter.  `pc` says what a connection does, and so which lock it has: `MayShare`,
`MayReserve` and `MayExclude` are the rules of the locks that `file.cpp` and
`sqlite3_file_wrapper.cpp` forward.  A connection keeps its cache when it unlocks
and drops it if the change counter has moved (`FreshCache`); any connection may
find a hot journal and play it back, with its own key.  A transaction may
re-encrypt, as `VACUUM` under `crypt_transformation` does (`writeKey` is the key
`encode_page` uses, `key` the one `decode_page` uses).  Commits may fail at any
page and be rolled back under the same lock, and connections may die at any
point.  A read that fails to decode (`ReadFails`) ends the transaction as it does in
autocommit mode; in an explicit transaction it ends the statement only, which the
model has as a step that changes nothing.  `known` is what the users have told each other: the one key, or the two a
re-encryption under way leaves possible.  Users use no key they know to be out of
date (`MayAccess`); with `Reopen` they also reopen their connections while two
keys are possible.  Content, reserve sizes, spilling and the pragmas are
`CryptDb`'s business and left out here.

`SerialTransactions` instantiates the same `AtomicStore`, now for all connections
together.

### Handles, SqlFunctions: ownership of SQLite handles and function objects

`Handles`: connections and statements by handle, `Database` and `Statement`
objects with the pointers they hold, and the handles an application released.
`sqlite3_close_v2` leaves a zombie that goes with its last statement.  Handles
are never reused, which keeps a dangling one visible.  A connection whose open
failed is `"leaked"`.

`SqlFunctions` extends it with the function table of each connection and the
owner of each function object.  A step may be inside the `run()` of an object
while everything else goes on: the function may close its database, prepare and
step other statements, or register functions.

### Rows: binding and column access

One statement: status, its own error code, the connection's error code, bound
parameters, the cells of the row.  A failed conversion sets both codes;
`Results::text`, `blob` and `size_of` compare the connection's code before and
after.  `OtherUse` lets any other call leave any code.  `asked`, `call`, `hurt`
and `told` are history variables: what the application knows to be bound, the
outcome of the last call, whether a conversion of the run failed and whether a
call threw for it.

`Regexp` extends `Rows` with the SQL function `REGEXP`, called by every step with
the first parameter as pattern.  `auxdata` is what SQLite keeps for the argument
until the statement halts; `matched` is a history variable.  When
`sqlite3_set_auxdata` has no memory it destroys the pattern at once, `run()`
matches with a destroyed pattern (`Freed`), and the step fails; `MatchedAsBound`
speaks of rows and does not claim that this cannot happen.

### TransactionGuard

Guards, the `Database` objects they point to, and SQLite's connections, which may
outlive their `Database`: `database` says which connection a `Database` has,
`statements` which connections have statements that are not finalized, `inTxn`
which are in a transaction.  Closing by force a connection with statements makes it
a zombie; its transaction ends with the last statement.  `COMMIT` may fail and leave
the transaction open or rolled back; SQLite may end a transaction by itself after
an error; `Careless` lets the application nest guards, and close, reopen and move
databases under them.  `terminated` records an exception that leaves a `noexcept`
function.  `release_handle` is, for the guard, a move to a `Database` that has no
guard.  A `BEGIN`, `COMMIT` or `ROLLBACK` that the application executes itself
beside a guard is left out, except that `StatementFails` ends a transaction behind
the guard's back just as such a `COMMIT` or `ROLLBACK` does.

Two history variables: `disturbed` holds the databases whose transaction began or
ended, or whose guards were nested, behind the back of a guard; `severed` holds the
connections in a transaction whose `Database` was closed or moved away from them.
Nothing in the library can end a severed zombie's transaction before its last
statement is finalized: the guard's `ROLLBACK` throws, as the database is closed,
and ends the program.  This is why `NoOrphan` excludes them.

### VfsRegistry, VfsFiles

`VfsRegistry`: SQLite's VFS list (the first entry is the default), the owning
pointers (`held`, `registered`) and the raw ones (`parent`, `using`).

`VfsFiles` opens databases through these objects: `frames` is the stack of nested
`xOpen` calls, one for each wrapper down to the platform's VFS; on the way out
each puts a `Crypt_file` on the file below.  Other threads change the registry
between the calls.  Key and cipher come with the URI, which every layer reads, or
by `PRAGMA`, which only the outermost layer sees.

### Base64

The encoder's loop, one group at a time, then the decoder's loop, one character
at a time, in place.  Characters are ASCII codes.  Texts that no encoder made
are decoded as well.  `ReferenceDecode` is an independent definition: the text
as one string of bits, cut into bytes.

## Runs

| Run | Shows | Distinct states |
|---|---|---|
| `careful` | 3 pages, spilling cache or re-encryption interrupted anywhere: `OneEncryptor`, its inductive form `KeyInv`, `NothingOverwritten`, `CacheCoherent`, the refinement `AtomicTransactions`; every commit, rollback and playback ends (`TransactionResolves`, under `FairSpec`) | 445,360 |
| `any` | pragmas at any time, no spilling: `NothingOverwritten` unless the application is `blind`, `Bookkeeping` in any case | 1,845,474 |
| `shared` | 2 connections, 3 pages, 2 keys, users who reopen: `OneKey`, `NoStaleCache`, the refinement `SerialTransactions` and, under `FairSpec`, `CommitsNotStarved` | 176,480 |
| `functions` | `Ownership`, `StatementsHaveConnection`, `RunningFunctionLives`, `FunctionsAccountedFor` and, under `FairFuncSpec`, `ZombiesEnd` | 203,287 |
| `guard` | `NoOrphan` with everything that can go wrong, for the connections the application left to their guards; `GuardsMatch` for the databases nothing has gone wrong for; `TypeOK`: zombies included, only connections that exist are in a transaction | 53,080 |
| `vfs` | `NoDanglingVfs`, `DefaultExists`, `PagesReadBack` and, under `FairFilesSpec`, `OpenEnds` | 262,794 |
| `base64` | `RoundTrip`, `MatchesReference`, `AcceptsExactly`, `BuffersSuffice` | 202,757 |
| `rows` | `NoFalseAlarm`, `NoSilentRun`, `BindingsAsAsked`, `MatchedAsBound` | 16,386 |

These runs are expected to end with a counterexample; each states what a
comment, document or test of the repository says and the code does not do:

| Run | What TLC shows |
|---|---|
| `rekey_spill` | a re-encrypting `VACUUM` that spills and is interrupted leaves pages under two encryptors |
| `shared_stale` | a re-encryption that fails leaves the file under the new key with its old change counter; another connection keeps its cache and its old key, and would go on to write with it |
| `function_twice` | a function SQLite refuses to register is deleted twice |
| `guard_terminate` | after an automatic rollback the guard's destructor ends the program |

The passing runs `careful` and `any` leave out two combinations: spilling with
re-encryption, which is `rekey_spill`, and spilling with settings changed at
will.  In the latter the model (`any.cfg` with a spilling setup) breaks
`NothingOverwritten`: the reserve size is only checked in the write of page 1,
and a page that spills before it loses its last 32 bytes.  `NothingOverwritten`
itself leaves out the unrestricted client that is `blind`, for which the code
breaks it without any spilling: `PRAGMA user_version` before the cipher is set
caches page 1 as ciphertext (`decode_page` does nothing, and `lockBtree` only looks
at the plain header); then key and cipher are set, the cache stays valid as the
change counter has not moved, `PRAGMA user_version = N` dirties the page, and the
commit passes the reserve check and overwrites the page's IV and tag.

More behaviours of the code were met on the way.  They are in the models or
follow from them, and no run is spent on them:

* a moved `Statement` (`statement.cpp:19` and `:204`) takes `_statement` along and
  leaves `_database` behind, so that its next row throws `bad_arguments`
  (`MoveStatement`);
* a failed `open` (`database.cpp:88`) forgets the handle that `sqlite3.h:3371`
  asks to be closed (`OpenConnection`, state `"leaked"`);
* key and cipher in a URI reach every layer of stacked crypt VFSs, and the inner
  layer's IV and tag overwrite the outer one's: `PagesReadBack` excludes this case
  and is stated for keys given by `PRAGMA` and for single layers;
* a constructor that throws in `SQLite3_vfs_wrapper::open` leaves the parent's
  file open (`WrapThrows`);
* a connection that has not been told of a new key and accesses the database when
  there is a hot journal plays it back with the old key, which leaves two keys in
  the file; `MayAccess` rules it out for users who tell each other;
* `sha2` and `sha3` (`digest.cpp:52`, `:65`) know the lengths 226, 256, 384 and
  512; 226 stands where 224 is meant;
* pages reach the journal as plain text (the journal case of
  `page_transforming_file.hpp:90` is commented out), so a hot journal that is
  played back before the right key is set is stored under whatever is configured
  at that moment, while `sqlite3.c:55033` assumes that journaled data "was
  encrypted before it was written to the journal file";
* `fetch` is forwarded to the parent file (`sqlite3_file_wrapper.cpp:111`), so a
  page SQLite memory-maps after `PRAGMA mmap_size` is not decoded;
* `unregister_vfs` (`vfs.hpp:109`) does not reset `_registered`, so
  `is_registered()` stays true and the object cannot be registered again.

### Bounds

* Pages: three where the order of writes matters (page 1, one written or
  restored before and one after it), two in the runs with the unrestricted
  client, whose many settings dominate the state space; a page other than
  page 1 and page 1 itself is what the code tells apart.
* Keys and ciphers: the zero key and one other, one cipher and none: enough for
  a wrong key, a wrong cipher, and an old and a new encryptor, also a plain one.
* Contents: two, so that old and new differ; one in `any`, whose properties do not
  compare contents.  Reserves: 0 and 32; the check compares for equality with 32,
  so any other size behaves as 0 does.
* Handles: two connections and statements over two objects of each class, so
  that an object outlives a handle and a second one holds what the first lost;
  one function object and a plain function that compete for one name.
* Shared database: two connections, of which one does to the other what any
  number of others could; three pages, so that a transaction writes page 1 and
  another page and leaves one alone; `MaxVersion = 2` transactions, the one
  artificial counter: enough to commit, to re-encrypt and to come back with the
  cache of the state before (three give 698,596 states and the same result).
* Guards: three over two databases and three connections, so that two guards swap
  while a third one nests, and both databases can be reopened beside a zombie.
* VFS objects: three, so that wrappers stack,
  and one connection, as connections share nothing but the registry.
* Base64: all byte sequences up to length 4 over five bytes that exercise every
  sextet boundary and both special characters, all texts up to length 4 over
  nine characters.  The decoder's state has period four.
* Rows: two parameters and columns, so that an index off by one is seen; two
  patterns, so that a stale one is seen, and a malformed one.

Every passing run exhausts its state space.

### Fairness

`CryptDb!FairSpec` assumes weak fairness of `LibraryStep`, the steps by which
the library works off a commit, rollback or playback it has begun: they happen
inside one call of SQLite and the caller gets control only when they are done.
Nothing is assumed of the application.  `SharedDb!FairSpec` assumes the same of
`Proceed`, which includes that an application whose `COMMIT` was busy tries again
or gives up, and that every read transaction ends.  `FairFilesSpec` assumes that
the nested calls of an `xOpen` return.  `FairFuncSpec` assumes that SQL functions
return (weakly fair) and that each `Statement` object is destroyed, as the end of
its scope does; as a function may be running in it again and again, this is strong
fairness of `DestroyIdle`.  `ZombiesEnd` is stated for applications that stop
moving statements around, for otherwise a statement could evade its destructor
forever.

### Deadlock

`guard`, `base64` and `rows` may stop: after `std::terminate`, when the
text is decoded, when the statement is destroyed.  Elsewhere deadlock is checked.

## Proofs

Every safety property that a passing run checks is proved for every value of the
constants: any number of pages, keys, connections, handles, VFS objects,
parameters, and texts of any length.

| Module | Theorems and the properties they state |
|---|---|
| `CryptDbProofs` | `TypeOKAlways`: `TypeOK`; `TypeCorrect`: `Bookkeeping` with it; `KeyInvariant`: `KeyInv`; `KeyNeverLost`: `OneEncryptor` |
| `CryptDbContentProofs` | `NeverOverwritten`: `NothingOverwritten`; `CacheAlwaysCoherent`: `CacheCoherent`; `CryptRefinesStore`: the refinement `AtomicTransactions` |
| `SharedDbProofs` | `SharedTypeCorrect`: `SharedTypeOK`; `OneKeyAlways`: `OneKey`; `NeverStale`: `NoStaleCache`; `SharedRefinesStore`: the refinement `SerialTransactions` |
| `SqlFunctionsProofs` | `FuncTypeCorrect`: `FuncTypeOK`; `OwnershipAlways`: `Ownership`; `StatementsAlwaysConnected`: `StatementsHaveConnection`; `RunningFunctionAlwaysLives`: `RunningFunctionLives`; `FunctionsAlwaysAccountedFor`: `FunctionsAccountedFor` |
| `RegexpProofs` | `RegexpTypeCorrect`: `RegexpTypeOK`; `NeverFalseAlarm`: `NoFalseAlarm`; `NeverSilentRun`: `NoSilentRun`; `AlwaysBoundAsAsked`: `BindingsAsAsked`; `AlwaysMatchedAsBound`: `MatchedAsBound` |
| `TransactionGuardProofs` | `GuardTypeCorrect`: `TypeOK`; `NoOrphanAlways`: `NoOrphan`; `GuardsMatchAlways`: `GuardsMatch` |
| `VfsFilesProofs` | `FilesTypeCorrect`: `FilesTypeOK`; `NeverDangling`: `NoDanglingVfs`; `DefaultAlwaysExists`: `DefaultExists`; `PagesAlwaysReadBack`: `PagesReadBack` |
| `Base64Proofs` | `BuffersAlwaysSuffice`: `BuffersSuffice`; `AlwaysMatchesReference`: `MatchesReference`; `AlwaysAcceptsExactly`: `AcceptsExactly`; `AlwaysRoundTrips`: `RoundTrip` |

### Assumptions

The modules name what they assume of their constants, and TLC evaluates it in
the runs: `CryptAssumption` and `SentinelAssumption` (page 1 exists, the
reserves include 0 and 32, sentinels are no ordinary values), `ClientAssumption`,
`SharedAssumption`, `HandleAssumption` (handles of connections and of statements
are different things, as they have different C types), `FunctionAssumption`,
`RowsAssumption`, `RegexpAssumption`, `GuardAssumption`, `VfsAssumption`,
`Base64Assumption`.

Some theorems have a hypothesis about the application; each is the condition
under which a run checks the property, and a violating run or the text above
shows what happens without it:

* `KeyInvariant`, `KeyNeverLost`: a careful client, none of whose `Setups`
  combines spilling with re-encryption (else `rekey_spill`).
* The theorems of `CryptDbContentProofs`: `SpillsCarefully`, that is, where the
  cache may spill, the client is careful and does not re-encrypt.  Without spilling
  the client is unrestricted, with every pragma at every moment, except that it must
  not access an encrypted database while no cipher is set, unless it is careful:
  this is part of `NothingOverwritten`, and a hypothesis (`SightedSetups`) of the
  other two.  The runs `careful` and `any` each check one half of this.
* `OneKeyAlways`, `NeverStale`: `Reopen` (else `shared_stale`).
  `SharedRefinesStore` does not need it: wrong keys make reads fail, but they do
  not mix transactions.

### Invariants

* **Keys** (`KeyInv`).  `OneEncryptor` is not inductive: it says nothing about
  which encryptor the next write uses.  `KeyInv` adds where the pager stands.
  Outside of commits all pages are stored under the current encryptor; during a
  commit or playback the pages already done are stored as `encode_page` would
  write them and those left are in the synced journal; and while the application
  knows two encryptors, the synced journal holds all pages or none, so that
  restoring it leaves one.  `ClientInv` ties this to what the application has done
  so far.  The step fails exactly where `SpillPage` meets a running
  transformation: it syncs some pages and writes them under the new encryptor,
  which is what `rekey_spill` shows.  All this is `StoredKeys`; the other half,
  `Legible`, says that a careful application changes no page that it has not decoded:
  it meets ciphertext only in page 1, before it has found the right key.
* **Content** (`ContentInv` of `CryptDbContentProofs`).  The check of the reserve
  size only looks at page 1, so the proof needs that page 1 speaks for the
  others: all pages that a crash leaves have one reserve, which only a `VACUUM`
  raises (`Layout`); a commit writes page 1 first and stops if it is refused.  With
  spilling, which writes other pages alone, the known encryptors must fit all
  pages.  `Coherent` relates cache, journal and file during commits, rollbacks and
  playbacks, `Undamaged` extends the property to the open transaction.  The
  induction is for the set-ups that are `Sighted`, in which what is dirty or
  journaled is decoded (`Decoded`); the set-up never changes.
* **Refinement** (`CryptRefinesStore`).  From `ContentInv`, each step leaves the
  content that survives a crash alone, or is the deletion of the journal, which
  replaces it by the open transaction's.  A write maps to `Put`, a crash, rollback
  or failure to `Abort`, and everything between, re-encryption included, to
  stuttering.
* **Connections** (`SharedInv`).  `Locks`: who has EXCLUSIVE is alone.  `Caches`: an
  idle connection's cache is the committed content if its version is the
  committed change counter, and its version is never ahead of it; this is what
  makes a comparison of counters enough.  `Keys`: while two keys are in doubt a
  journal holds all pages or none.  The part without `Keys` carries the refinement.
* **Handles and functions** (`FuncInv`).  The properties count owners; the
  invariant says instead that no two owners have the same handle and that
  exactly the usable handles have one, from which the counts follow (`Counted`).
  `Calling`: the statement a function runs in is on a row and its connection has
  the function in its table, which is why SQLite refuses to replace it.
* **Statements** (`RegexpInv`).  `Pending`: a failed conversion that was not
  reported stays in the code of the statement until the run ends, whatever the
  code of the connection has become.  `AuxData`: a compiled pattern lives as long as
  the run whose argument it is.
* **VFS objects** (`FilesInv`).  All raw pointers are taken from SQLite's list,
  what is listed was registered, and `_registered` is never reset (`Registry`).
  Only the outermost layer of a stack differs from what the URI said, and only
  after the open (`Layers`); calls descend through registered objects to the
  platform's VFS (`Descent`).  That `OpenEnds` holds for stacks of any height would
  also need that parents form no cycle, and is left to TLC.
* **Guards** (`GuardInv`).  `NoOrphan` and `GuardsMatch` are inductive together with
  the types, which say that no two databases share a connection and that a
  connection in a transaction has a database or a statement; `GuardsMatch` is what
  shows that a `noexcept` rollback only fails on a disturbed database.
* **Codec** (`BufferInv`, `CodecInv`).  `BuffersSuffice` needs the bits not yet
  written: `8 * write + bits <= 6 * read`, from which both bounds on the writes
  follow, and for the encoder that whole groups have been read unless the input is
  at its end.  The same count, which is an equality in the first loop, says at which
  bit of the text the next byte begins, so that each byte written can be
  compared with `ReferenceByte`: the loop does the induction.  `Made` says that a
  text consists of the encoder's groups; `GroupBits` and `EncodedText` show that the
  reference gives the bytes back, so `RoundTrip` follows from the other two.

### Only model-checked

The liveness properties `TransactionResolves`, `CommitsNotStarved`, `OpenEnds` and
`ZombiesEnd`: they need fairness and `ENABLED`, which are out of the prover's reach.
The counterexamples of the violating runs are TLC's as well.

## Not modelled

* WAL, savepoints, other journal modes, files that grow or shrink: the pager is
  modelled as far as a deleted rollback journal meets the encrypting file.
* SQLite itself (`sqlite3.c`, `sqlite3.h`, `shell.c`), which makes up 98% of the
  lines of the repository, is third-party code: of it only the functions of the
  pager, the VFS list, `VACUUM`, the function table, auxiliary data and the
  handles are modelled, where the wrapper depends on what they do.  Of the
  repository's own C++ code outside of declarations, most of what keeps state is
  modelled; the rest forwards, converts or declares.
* Cryptography, key derivation and key formats: ideal, see `CryptFile`.
* The answers of the pragmas and the texts of errors: no state of the models.
* The forwarding of `access`, `full_pathname`, `dlopen`, `sleep`, randomness,
  time, file and sector size, which have no state here; shared memory, which only
  WAL uses; memory mapping, which SQLite uses after `PRAGMA mmap_size`.
* The digest functions, which are single calls into OpenSSL, and `execute`.
* `function/base64_encoder.*`, which is commented out.

## Plan

1. *Liveness by ranking*: the safety core of the liveness arguments, as theorems:
   every step of a commit, rollback or playback lowers `Cardinality(todo)`, and the
   parents of VFS objects lead to the platform's VFS without a cycle.
2. *Files that grow and shrink*, and databases created under the crypt VFS: page 1
   written before any reserve is known, truncation by `VACUUM`.
3. *Memory-mapped pages*, with the run that shows what the code does.
