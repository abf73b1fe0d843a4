# A TLA+ verification of btps-node

`btps-node` implements BTPS, a protocol in which a server accepts signed
JSON documents ("artifacts") over TLS from senders that its user trusts.  This directory
holds TLA+ modules of the SDK's stateful parts, the TLC configurations that
check them on small instances, and TLAPS proofs about all of them.

`PROJECT.json` indexes it: which definition models which lines (`map`), what
each run checks (`runs`), how each property can be broken (`mutants`), what is
hard to test (`hazards`) and where code and documentation disagree (`findings`).

Check a model with `tlc -workers 2 -config MCBtpsClient.cfg MCBtpsClient.tla`, a
proof with `tlapm BtpsClientProofs.tla`.

## 1. Inventory

| Component (under `src/src/`) | State | Operations | Hard part | Correct when |
|---|---|---|---|---|
| `BtpsClient` (`client/btpsClient.ts`) | socket, flags `isConnecting`, `isConnected`, `isDraining`, `isDestroyed`, send queue with one timer and resolver per entry, backpressure queue, retry counter | `send`, `update`, `end`, `destroy`, `resolveIdentity`; handlers of the socket | every await and socket event interleaves with every call; retries; timers against answers | each call settles exactly once; flags agree with the connection; nothing is written after `destroy()` |
| `BtpsTransporter` (`client/btpsTransporter.ts`) | pool of clients per receiver, TTL timers, connection locks, limit | `registerConnection`, `transport`, `deregisterConnection`, updates, `setMaxConnections`, `destroy` | registrations waiting for one lock; timers outliving a client; clients that destroy themselves | no client is lost; the limit holds; every call ends |
| Server connection (`server/btpsServer.ts`, `server/libs/middlewareManager.ts`) | per connection: shared request and response contexts; per line: the local constants of its handler | `handleConnection`: parse, verify, trust, deliver, forward, answer, with middleware | pipelined lines run concurrently over one context | only what was verified and trusted is delivered; an answer follows its line |
| `JsonStorageStore` (`core/storage/`, `core/trust/storage/`) | file; per process a Map, `dirty`, debounce timer, remembered mtime | `getById`, `create`, `update`, `delete`, flush, exit handlers | several processes on one file, lock, crash | an acknowledged change is not lost; locks are exclusive and released |
| `BtpsAuthentication` (`core/authentication/`) | token store, trust records with key history; on the device the session | create/validate auth and refresh tokens, `createAgent`, `validateAndReissueRefreshToken`, cleanup | three stores written one after the other, any may fail; overlapping exchanges; lost answers | one valid refresh token per agent; an issued token is an accepted agent's; a device is not locked out |
| `BtpsDelegator`, signature verification (`core/delegation/`, `core/crypto/`, `server/btpsServer.ts`) | identity, selector, keys; DNS | `init`, `delegateArtifact`; `verifySignature`, `verifyDelegation`, `verifyAttestation` | keys rotate between signing and the lookups of the verification | what an honest party signed is valid; what is valid was authorised |
| Trust policy (`core/trust/`, `verifyTrust` of the server) | a record per direction at each of the two servers | `isTrustActive`, `validateTrustRequest`, `validateTrustResponse`, `canRetryTrust`, `computeTrustId` | requests, answers and documents that are lost, repeated or late; a verdict and what follows from it are steps of their own; boundaries in time | a document passes only on its receiver's word; requests keep their distance; an answer settles a request once |
| `BtpsAgent` (`client/btpsAgent.ts`, `client/libs/schema.ts`) | a client, a key pair | `command`, `destroy` | lookups between checks and use; two signatures, one inside the other; `destroy()` on the way | what it sends can be read as it was commanded, server and client agree on it, every command ends |
| Schemas (`core/server/schemas/`, `core/server/constants/`) | - | `validateAgentDocument`, the artifact schemas, the type guards | client and server read them at different stages of an artifact | they agree (a property of `BtpsAgent`) |
| Cryptography (`core/crypto/`) | - | sign, verify, encrypt, decrypt, `signEncrypt`, `decryptVerify` | the order of signing and sealing, absent and unreadable keys | what was signed and sealed is read back (`BtpsAgent`, `BtpsTrust`) |
| Server life cycle (`server/btpsServer.ts`, `server/libs/middlewareManager.ts`) | middleware, listening or not, connections and their identities | `start`, `stop`, `loadMiddleware`, `updateIdentityInfo` | overlapping `start()` and `stop()`; the identity is shared by the lines of a connection | it listens only with its middleware in place |
| Rate limiter (`server/libs/btpsSimpleRateLimiter.ts`, `defaultMiddleware.ts`) | a counter and a window start per key | `isAllowed`, `cleanup` | window boundaries, cleanup against counting, whose line it is | less than twice the limit in any window; nothing passes uncounted |
| `InMemoryAuthSessionStore` (`core/authentication/storage/`) | sessions, index by identity | store, get, remove, cleanup | `remove()` deletes the index entry of an identity though a newer session of another agent may own it (lines 71-78) | not modelled |
| Factories, registry, `InMemoryQueue`, errors, metrics | - | - | - | not modelled |

How they interact:

    application -> BtpsTransporter -> BtpsClient ~~TLS~~> BtpsServer -> JsonTrustStore -> file
         |                                                  |  |
         +-> BtpsDelegator (signs)                          |  +-> DNS (keys of signers)
         +-> BtpsAgent -> BtpsClient                        +-> BtpsAuthentication -> token store

A call (`send`, `transport`, a store's operation) is a promise; what happens
between two awaits is atomic, since Node runs one callback at a time.  So **a step of
every module is the code between two awaits**, and a program counter says at
which await each activity is.  Sockets, timers, DNS, files and the application's own
callbacks choose nondeterministically among what they can do.

## 2. Modules

Order of work: the client (everything else sends through it), then the server's
connection, the store, the transporter, authentication, delegation; then the
agent with the schemas and the cryptography below it, the server around its
connections, and the trust between two servers.

| Module | Models | Used by |
|---|---|---|
| `RequestReply` | abstract: a call is refused, or accepted, perhaps written, then fails or is answered once | `BtpsClient`, `BtpsAgent` |
| `BtpsClient` | the client over several sockets | `MCBtpsClient`, its proofs |
| `BtpsServerConnection` | one connection of the server | `MCBtpsServerConnection` |
| `JsonStorageStore` | stores in several processes on one file | `MCJsonStorageStore` |
| `BtpsTransporter` | the pool; a pooled client is what `BtpsClient` promises of it | `MCBtpsTransporter` |
| `BtpsAuthentication` | tokens, agents and devices over two stores | `MCBtpsAuthentication` |
| `BtpsDelegation` | signing and verification with symbolic signatures | `MCBtpsDelegation` |
| `BtpsSchemas` | which fields artifacts, commands and documents may have; no state | `BtpsCrypto`, `BtpsAgent` |
| `BtpsCrypto` | signing and sealing over symbolic keys; no state | `BtpsAgent`, `BtpsTrust` |
| `BtpsAgent` | the commands of an agent, the lookups they make, the answers | `MCBtpsAgent`, `BtpsArtifactProofs` |
| `BtpsRateLimiter` | counter and window of a key; no state | `BtpsServerNode` |
| `BtpsServerNode` | the server around its connections: life cycle, middleware, limiter, identities | `MCBtpsServerNode` |
| `BtpsTrust` | the trust between identities, at both servers | `MCBtpsTrust`, `BtpsArtifactProofs` |
| `BtpsClientProofs`, `BtpsServerConnectionProofs`, `BtpsTransporterProofs`, `JsonStorageStoreProofs`, `BtpsAuthenticationProofs`, `BtpsDelegationProofs` | theorems about the modules they are named for | - |
| `BtpsArtifactProofs` | theorems about `BtpsTrust`, `BtpsAgent` and `BtpsCrypto` | - |
| `BtpsServerNodeProofs` | theorems about `BtpsServerNode` and `BtpsRateLimiter` | - |

**BtpsClient.**  `queue` is `sendQueue` (Map entries in insertion order),
`timer` the entry's timeout, `outcome` what its promise resolved to,
`backpressureQueue` the second queue, `conn[s]` the phase of each socket ever made,
`pc[r]` the await inside `send()`/`dispatch()`, `verifying` the answers whose
signature is being checked, `retryTimers` the pending `setTimeout`s of the
retries.  Actions are the public methods and the socket's handlers (`OnError`,
`OnEnd`, `OnClose`, `Drain`, `Data`, `Verified`, `ConnectionTimeout`); each
includes `cleanupQueue()`, `DestroyClient` and the rest of what the handler
calls.  `ConnectThrows` is a `tls.connect()` that throws at once.  The server
answers each written copy at most once.

**BtpsServerConnection.**  A line's handler `h` moves through `pc[h]`, the
pipeline's stages.  `ctx` is the request context that all lines of a connection
share, `data[h]` the artifact the pipeline took from it, `verified[h]`, `trusted[h]`,
`delivered[h]` are histories of what was checked and emitted, `answers` what
was written and to which line it was addressed, `responded` the lines that
middleware or a listener has answered.

**JsonStorageStore.**  The file is `file` with an `mtime`; a process has its
Map `recordMap`, `dirty`, `armed` and `lastChangedMtime`.  Calls, debounced flushes and
the exit flush are activities with a `pc`.  Every stat, read, write, lock and
release may fail.  `unsaved` are the stores whose last write has failed, `history`
what has disturbed the taking of turns.  The lock (`proper-lockfile`) is
external: exclusive, and released as stale when its holder has died.  Taken
for granted of the file system: a single `writeFile`, `rename` or `readFile` is one step,
and two writes get two modification times, although within its clock's
granularity they might not.

**BtpsTransporter.**  A pooled client is abstracted to what its calls see of it: it settles
each once, or is destroyed and settles none (`BtpsClient`'s `PromiseSpec` and
`EveryCallSettles`).  The client of a receiver connects to that receiver: per-call
`clientOptions` that name another `to` (`btpsTransporter.ts:74-75` spreads them last) are left out.
`connectionLock`, the TTL `timer`s, `isActive` and `connections` are the code's.

**BtpsAuthentication.**  The token store acts when it is called, the trust store
before its caller resumes; every call may fail, and an answer to the device may be
lost.  `session` is the token the device holds, `answer` the one on its way to it.

**BtpsDelegation.**  A signature is the pair `[key, of]` of the key and the
exact content signed: a field added later makes it invalid, as canonical JSON
does.  DNS publishes keys by selector; domains rotate and retire them.  Several `init()`
calls may be under way, since the constructor does not await its own
(`BtpsDelegator.ts:42-43`) and the documentation has the owner call it too: `asked[k]` is the
selector whose key call `k` awaits, while `delegator.selector` is whichever was found
last.  The artifacts in `Others` come from other implementations: they name and sign
what they like, in another order, with another key or with a delegation taken from
another artifact, so that what the server accepts does not follow from
how `BtpsDelegator` makes it.

**BtpsSchemas, BtpsCrypto.**  An artifact is a record in which an absent field is
`None`, a document the set of its fields.  `Fits`, `Present`, `Absent` are what a zod
object or a type guard demands, one operator per schema.  A key is a value, `Garbled`
a PEM that cannot be read; a signature and a ciphertext hold what they were
made of, so that they fit that content and that key only.

**BtpsAgent.**  `place[c]` is the await of a `command()`: the host's record (`host`), the
receiver's key (`key`), the temporary socket of `resolveIdentity()` (`socket`), `send()`
(`made`, `sent`).  `payload[c]` is the artifact, `published` and `hostSelector` the DNS.
`send()` below it is `RequestReply`'s: its checks, its settling by an answer, a
timeout or an error, and `destroy()`, which leaves queued calls open.  That
socket is destroyed before it can write (`btpsClient.ts:927`), so its handler of
`data` never runs and the model has none.

**BtpsServerNode.**  `start[s]` is the await of each `start()` (loading, hook), `middleware`
the manager's sorted list, `counters` both limits of `createDefaultMiddleware`,
`identity[c]` the `identityRef` of a connection, `context[c]` and `responseSent[c]`
what its lines share.  `Cleanup` is the limiter's timer, `allowedIn` a history: the requests
of a key that were allowed in the window's length after each time.  The sorted middleware is
given by the rank of each definition (`Place`), as a stable sort leaves it.

**BtpsTrust.**  Each party has a store with a record for every direction.  An
application asks (`AskForTrust`, if `canRetryTrust()` lets it), decides and answers
(`Decide`), or sends a document.  The set `sent` never shrinks: an artifact may be lost,
come late and come again.  Its server judges it (`Verify`, the code up to the verdict), and the
application acts on it in a later step (`HandleRequest`, `HandleResponse`,
`HandleDocument`).  What an application does with the store is not in the repository: the model takes
it from what `canRetryTrust()`, `create()` and the documents of trust ask for.
`decision`, `seen`, `doneAt`, `decidedSince` and `raced` are histories.

## 3. Runs

| Run | Instance | Shows |
|---|---|---|
| `client` | 2 calls with ids of their own, 2 sockets, 1 retry, queue limit 1..2, writes that return true or false | flags are true to the connections, `isConnecting` has an attempt under way, backpressure drains, nothing is written after `destroy()`, what is written is awaited |
| `client_live` | the same id used twice, 2 sockets, fairness | the client implements `RequestReply`; each call settles once and eventually; `isConnecting` ends |
| `server` | 2 lines of every kind, pipelined or in turn; no middleware, or some before parsing and on errors | only what was verified and trusted is delivered; success means forwarded; at most one answer; a line without an answer has a cause; lines in turn get their own answers |
| `storage` | 2 processes, 2 ids, 2 calls, 2 flushes, file missing or not, failures, crashes | the lock is exclusive, a change that is not in the file is under way or still in the Map, a clean cache is the file, stores that take turns lose nothing |
| `storage_lost` | 1 process, 1 id | **violation**: the exit handler loses a change whose flush waits for the lock |
| `transporter` | 2 calls, 2 clients, 2 receivers, limits 1..2, fairness | no client leaves the pool undestroyed, the limit holds, a call gets its receiver's client, every call ends |
| `authentication` | 1 agent, 1 auth token, 3 refresh tokens, 2 keys, 3 requests | an issued token is accepted, one token per agent, sessions stay good, key history is complete, an auth token is good once - each outside the exceptions below |
| `delegation` | 3 identities in 2 domains, 2 `init()` at a time, 2 artifacts of which another implementation makes one, one rotation of the delegator's domain | what this library signs is valid while its keys are published; what is valid was authorised, whoever made it |
| `delegation_attested` | the same, with no other implementation | **violation**: a delegation with an attestation is refused with every key in place |
| `agent` | 2 commands of 7 kinds, keys that rotate once, a queue of 1, usable and unreadable key pairs, fairness | what is sent can be read as commanded and is nowhere in plain; the server takes what the client lets out; the agent implements `RequestReply`; every command ends |
| `server_node` | 2 `start()`, 2 connections, 3 lines, 4 middleware files, limits 1 and 2, a window of 2 instants, 3 instants | listening means ready; the limit holds in any stretch of a window; nothing passes uncounted |
| `trust` | 2 parties, 3 spellings, 5 decisions, 3 artifacts sent, 3 handled, 2 instants | documents are wanted, requests keep their distance, answers settle |

*Why the bounds are enough.*  Two calls are what it takes for one to disturb
another (same id, answer to the wrong one, limit reached between check and
use); two sockets for a late event of an old connection; one retry for a retry
to race with `destroy()`, and for the counter to reach its limit.  Two lines share
one context (the proofs cover any number).  Two processes race for one file; two flushes for one store overlap; the theorems cover more calls.
Two clients and two receivers reach a limit of 1 and leave one of 2.  Three
requests are the onboarding and two exchanges of the same token.  One rotation
separates "signed with" from "published", and two `init()` calls are one
that comes between the other's steps.
A command that needs lookups and one that does not are what it takes to fill a
queue of 1 while another is on its way; the commands are one for each way through
`command()`.  A limit of 1 on a key and 2 on the address are reached on one
connection and over both; three instants hold two windows.  A date
of a trust is ahead, reached or past within two.  Three artifacts are a request, its
answer and a document or a repetition of one; the theorems of section 5 cover any
number of them, and any times.  Larger instances of authentication (four requests,
two agents) take more than five minutes and are not part of the runs.  Counters in guards (`N`, `MaxSelector`, `maxRetries`, the sets
of calls, clients, sockets) bound behaviours and are named at their declarations.

*Deadlock* is not checked: every instance makes finitely many calls and rightly
stops when they are done.

*Type invariants* are proved for the client and the server's connection (section 5); the other
modules' variables keep their shape by their actions, and `BtpsTrust`'s is part of
`Basics`, the store's of `StoreInv`.  No run spends a property on them.

### Fairness

`client_live` assumes what Node's event loop and the kernel provide: timers
fire, awaiting code is resumed, DNS answers or fails, a connection is
established or fails, and an error or end is followed by its events.  Nothing is
assumed of the server (it need not answer) or of the application.  The
transporter's run assumes that waiting code resumes and that a client settles
a live call, which is `BtpsClient`'s `EveryCallSettles`.  `agent` assumes the same of
its client (a call that is queued has a timer, until `destroy()`), that a DNS question is
answered or fails, and that a destroyed socket closes; nothing of the server.  The
other runs are safety only.

### What the properties leave out, on purpose

Several properties name an exception. Each is behaviour of the code that no
document, comment or test promises otherwise, recorded so that a reader can judge it:

- `EveryCallSettles`, `EveryCallEnds`: calls of a client that was destroyed.
  `destroy()` clears timers without resolving the promises
  (`btpsClient.ts:987-1000`), so they stay open.  A connection removed by its TTL
  leaves its calls the same way.
- `TurnsKeepAcked`: stores that overlap, fail, die or have deleted their last record, and
  a `delete()` from a Map that is older than the file ("stale").
  An empty Map is taken for "not initialised" and read back from the
  file, unless it was flushed meanwhile.  All stores of the model write the same entity
  name; stores that keep different names in one file drop each other's records,
  since a write replaces the file.
- `OneTokenPerAgent`, `HistoryTraces`, `AuthTokenOnce`: exchanges of one token that overlap both
  succeed, a revocation between the read of a record and its update is undone,
  and a failed store of the new token leaves an agent without any.
- `SessionIsGood`: an answer that is lost, or a failed store of the new token,
  after the old one was removed, locks the device out until it onboards again.
- `HonestIsValid`: an artifact of a delegator that names a selector which is not its key's,
  because the domain has rotated and an `init()` was called again, or while another one awaited
  its key.  `verifyDelegatorIdentity()` stores the selector before it checks the key
  (`BtpsDelegator.ts:76`): that call throws, but the delegator is or becomes initialized, with
  the key of one selector and the name of the other, and every delegation it signs is
  refused.  The constructor's `init()` is not awaited, so an explicit one
  (`classApiReference.md:971-992`) is enough for an overlap.
- `AnsweredOnce`: a line of an agent, whose listener may answer after the pipeline
  has (`btpsServer.ts:965`), and a connection that fails.
- `SilenceHasCause` names three causes of a line's silence rather than excluding it: a lookup
  whose identity store throws is returned out of its `try` without `await`
  (`btpsServer.ts:342`), so nothing is answered; error middleware that throws does so out of the
  `catch`; and `responseSent` is never reset, so that once external code has answered a line, the
  later ones of the connection are dropped silently.
- `AckedIsUnderWay`: after a write that failed, the change is in the Map and
  nothing will write it until the next change (`JsonStorageStore.ts:95` clears `dirty` first); a reload
  or an exit in between loses it.  The property says that the Map has it until then.  What
  `TurnsKeepAcked` leaves out besides failures, a process that dies among them, is left out here too.
- `CleanCacheIsFile`: a store whose last write has failed, two jobs of one store at a time,
  and a file that `init()` has created over another process's.
- `ConnectingEnds`, `ConnectingIsUnderWay`: a `tls.connect()` that throws (`btpsClient.ts:130`) leaves
  `isConnecting` set for good and the call queued until its timeout.
- `WritesAreAwaited`: a `dispatch()` that was waiting for its socket writes its artifact although its
  call has timed out meanwhile (`btpsClient.ts:556`).
- `SequentialIsCorrelated` restricts to lines that wait for their answer: pipelined lines share
  one context, and the answer to one may carry the id of a later one.
- `ProcessedIsCounted`: lines of a connection that overlap may be counted as
  another's or not at all, for the same reason.
- `RequestsKeepDistance`, `AnswersSettle`: trusts in `raced`, of which a verdict, the writing
  after it and a decision overlap.  `verifyTrust()` checks, the application
  writes later and nothing holds the record in between, so a decision taken meanwhile may be overwritten.
- `CommandsEnd`: a call that is queued when its client is destroyed.

## 4. Findings

| Finding | Run, property | Kind |
|---|---|---|
| the exit handler does not wait for a flush in flight | `storage_lost`, `AckedIsKept` | documentation and code diverge |
| the delegation is signed before the attestation is added, and verified with it | `delegation_attested`, `AttestedIsValid` | code bug |

Behaviours met while modelling that no run is spent on.  Where a document says
otherwise it is quoted.

Client and transporter:

- `destroy()` does not touch a connection attempt that awaits the DNS or has no
  open socket yet: the connection is opened afterwards and kept
  (`btpsClient.ts:121-143`; `classApiReference.md:316`: "Destroys the client
  instance, closes sockets, and removes all listeners").
- A pooled client that destroys itself on its connection timeout has lost the
  transporter's listeners and counts as active until its TTL (`btpsTransporter.ts:442`).
- `resolveIdentity()` destroys its temporary socket as soon as the listeners are
  registered (`btpsClient.ts:927`): the server's answer cannot arrive.  `CommandsEnd`
  shows that the command ends all the same.

Storage:

- `delete()` does not look for changes of the file (`JsonStorageStore.ts:175-181`), unlike
  the other calls.  A store that has read the file, and then deletes a record after another
  process has deleted or changed one, writes the older records back over that change, though the two
  took turns (`classApiReference.md:1478`: "reloads the in-memory cache if the
  file changes externally, ensuring consistency").  It takes three calls; the
  proof of `TurnsLoseNothing` covers any number, and rests on this case being left out.

Agent:

- `getAgentArtifact` makes a whole transporter artifact the document of the agent artifact
  (`btpsAgent.ts:119-125`), while `validateAgentDocument` (`helpers.ts:65-104`) wants
  a plain document for these actions: a client refuses its own "trust.request" and
  "artifact.send", which `agent-artifact.md:65` and `:109` list as actions of an agent.
- "draft.create" is refused whatever its document; the "sentbox" actions are
  missing from `AGENT_ACTIONS` (`constants/index.ts:24-34`).
- `signEncrypt` with encryption asked for and no selector sends in plain (`signEncrypt.ts:43`);
  the agent always names one.  A document that was a string before it was
  sealed cannot be opened.

Server:

- Pipelined transporter lines: the answer to the first may carry the id of the second
  (`btpsServer.ts:309`; `responses.md:59`: "ID of the original request (for correlation)").
- `stop()` during `start()` does not stop it: the server listens afterwards.  `stop()`
  removes the emitter's listeners, and a restarted server has none.
- Nothing calls `createDefaultMiddleware()`, whose comment (`defaultMiddleware.ts:11-12`) says it is
  used if there is no file.  The example of `setup.md` exports an array, while
  `loadMiddleware` wants a default function.

Trust:

- `trustRecord.md:145` says "New trust requests are blocked if any trust record exists
  (regardless of status)"; `validateTrustRequest` lets requests through on records
  that are pending, rejected, revoked or expired.
- `canRetryTrust` refuses to ask again after an acceptance that has expired, which
  `validateTrustRequest` would let through (`RetryIsAllowed` proves the other direction).
- Once a record is not pending, a later TRUST_RES, even a revocation, is refused
  (`trust/index.ts:107`): the sender keeps its record as it was.
- An answer that was delayed over a new request answers that one: it names no request.
- `computeTrustId` ignores the case of letters, `trustRecord.receiverId !== senderId` (line 111)
  does not: an answer from a differently spelled identity is refused.
- An untrusted document is refused with the error for "already active".

## 5. Proofs

The theorems about `BtpsClient` hold for any sets of calls, ids and
sockets and any retry and queue limits, those about `BtpsServerConnection` for
any number of lines of any kind and any middleware, those about `BtpsTrust` for any
identities and spellings of them, decisions, cooling-off and number of artifacts, those about
`JsonStorageStore` for any number of stores, records, calls and flushes, those about
`BtpsTransporter` for any receivers, clients, calls and limits, those about
`BtpsAgent` for any commands, documents, identities, keys and answers, those about
`BtpsAuthentication` for any agents, tokens, keys and requests, those about
`BtpsDelegation` for any identities, domains and artifacts, those about
`BtpsServerNode` for any file, connections, lines, keys, limits and window.

They assume only the named `ASSUME`s of these modules, each of which TLC evaluates
in a run and the code justifies:

- `None`, the absent value, is none of the present ones: no call, socket, line,
  client, receiver, agent, token, key, record, counter, answer, date, identity or action;
  calls and flushes of the store differ.
- `IdOf` maps calls to ids, `WriteResults` are Booleans, options and limits are
  numbers, lines and middleware are among the kinds and stages there are; auth tokens
  and refresh tokens differ; each identity has a domain, and the delegator is one of them.
- `Lower` is idempotent, and choices are decisions with dates.
- In `BtpsServerNode`: what a file holds are definitions (those that are none count as
  invalid), `MaxPriority` is a number (the code's `Number.MAX_SAFE_INTEGER`, a constant so that the
  proof does not rest on its value), each line has a sender, no line without ends has two
  valid ones, and the keys that are counted are keys of the limiter.

`CommandsAreRead` has a hypothesis besides, `NoneIsNoFunction`: `undefined` is no record
and no tuple, hence no artifact, document or key.  It is about all functions, which is why
TLC cannot evaluate it, and it holds of the model value that the runs have for `None`.

The two lemmas about sizes of sets in `BtpsTransporterProofs` and
`BtpsServerNodeProofs` need finite sets; that the pool is finite is an invariant, and
what a file holds is finite since it is a sequence.

| Theorem | Module | Argument |
|---|---|---|
| `TypeCorrect` | `BtpsClientProofs` | `TypeOK /\ ConnectedHasSocket` is inductive; neither is alone, since a handler uses the socket because the flag says there is one |
| `BooksCorrect` => `CallsAreTimed`, `QueueUnsettled` | `BtpsClientProofs` | `CallBooks` relates queue, timers, outcomes and awaits; every path that settles a call strikes one entry or all, and `StrikeOne`/`StrikeAll` show that both keep the books |
| `WireInvariant` => `BackpressureDrains`, `DestroyedIsSilent` | `BtpsClientProofs` | a destroyed client is never draining, therefore `drain` finds nothing to write |
| `ConnectingUnderWay` | `BtpsClientProofs` | every exit of an attempt resets the flag or leaves a retry or lookup behind |
| `WrittenIsAwaited` | `BtpsClientProofs` | action property: what is sent again comes from the queue, which by `CallBooks` holds pending calls only, and after the answer that makes room for it has struck its own entry |
| `KnownInvariant` => `KeepsItsPromise` | `BtpsClientProofs` | what the client holds of a call determines what its caller may still see; with it each step is a step of `RequestReply` or a stutter |
| `TypeCorrect` | `BtpsServerConnectionProofs` | `TypeOK` is inductive |
| `ClearedInvariant` => `OnlyClearedDelivered` | `BtpsServerConnectionProofs` | a pipeline captures its artifact once; `OwnArtifact` says that what it has verified, trusted and delivered is that one, `Progress` what must be known at each stage. Nothing in either mentions the shared context, so no other line can disturb them |
| `OnlyForwardedAcked` | `BtpsServerConnectionProofs` | `AnswersChange` says who may append which answer; with `Cleared`, past the forwarding means delivered and forwarded |
| `OneAnswer` | `BtpsServerConnectionProofs` | `Once`: a handler that has answered is `Stopped` - done, or at a place where it looks at the shared flag that the answer has set, which is never reset |
| `SilenceIsExplained` | `BtpsServerConnectionProofs` | `DoneMeansAnswered` (a line that is done on an open connection has an answer, or found `responseSent` set) and `Attributed` (`responseSent` comes from external code that has answered; a rejected line is a lookup or failed in error middleware) are inductive; every other way to end needs a closed connection |
| `TurnsCorrelate` | `BtpsServerConnectionProofs` | `Turns`: while lines come in turn, all but the last are done, hence the context is that of the handler at work |
| `StoresAreSound` => `AckedChangesAreHeld`, `WritersHoldTheLock` | `JsonStorageStoreProofs` | `StoreInv`, from its part `Turns`: what the file lacks is with the one store that is dirty, writing or `unsaved`, and its flags say that a flush is ahead of it; the lock property is inductive given the shape of the jobs |
| `CacheFollowsFile` | `JsonStorageStoreProofs` | `Cached`: a time that is remembered is the file's last only if nobody has written since, so a store other than the writer's cannot remember it; a job that writes has the Map in hand until it is the file, since no other job of its store runs (`Alone`). `NothingBefore` covers the file that `init()` creates |
| `TurnsLoseNothing` | `JsonStorageStoreProofs` | `Turns`: the one store that works or is dirty has what was acknowledged in its Map, and the file has it when there is none; with `Cached` for the next call |
| `BasicsCorrect` | `BtpsArtifactProofs` | `Basics`: records and artifacts have their shape, an artifact is sealed for the one it names, handlings wait at the server it names; inductive, and what every other theorem of the module starts from |
| `OnlyWantedDocuments` | `BtpsArtifactProofs` | `DecisionsKept`: a receiver's record that is accepted is what its last decision said, since an answer never touches the record at the receiver (the two ends are swapped) and a request makes it pending |
| `AnswersAreFinal` | `BtpsArtifactProofs` | action property; `AnswersWait`: an answer that waits with the application was let through on a record still pending, or the trust has raced |
| `DistanceIsKept` | `BtpsArtifactProofs` | `RequestsInv`: handlings are in order, a block stays, a noted request holds the next one back until its date or a decision, and what passes in between has raced |
| `RetryIsAllowed` | `BtpsArtifactProofs` | the sender's check is at least as strict as the receiver's, on the same record |
| `CleanupIsInvisible` | `BtpsServerNodeProofs` | what the timer throws away is older than a window, and so starts a new one anyway, then and at any later time |
| `CountedIsBounded` | `BtpsServerNodeProofs` | by cases: a window starts at one, and a counter at its limit is not raised |
| `RateIsKept` | `BtpsServerNodeProofs` | `RateInv` speaks of each stretch of time by itself: one that begins within the counter's window has none of that window's first request in it, so fewer than the counter says; one that begins earlier has not seen the whole of an earlier window, so less than the limit and the counter together; where `cleanup()` removed the counter, there is room for a whole window.  Counting in stretches instead of a history of times is what avoids an induction over the requests |
| `AcceptsWhenReady` | `BtpsServerNodeProofs` | `ReadyInv`: a `start()` past its loading has the middleware in place, which another one can only put there again (`Configured` depends on the file alone); that the ranks of `ValidAndSorted` are an order is proved by counting (`BeforeIsAnOrder`, `PlacesAreInOrder`) |
| `LinesAreCounted` | `BtpsServerNodeProofs` | `CountInv`: without an overlap the line in flight is the last of its connection (`LastInFlight`), therefore the context and the identity are its own (`OwnContext`), and a connection that has named a sender keeps it (`SenderKept`) |
| `SealedIsRead` | `BtpsArtifactProofs` | the signature covers the artifact but itself, and is put on last: taking it off gives back what was signed; the sealed document opens with its receiver's key and no other |
| `BooksCorrect` => `PoolCorrect` | `BtpsTransporterProofs` | `Books`: a client that lives is pooled for the receiver its timer names, and one that is to be made is nobody's (`UnusedAreFree`) |
| `BoundHolds` | `BtpsTransporterProofs` | action property: a step adds one client at most, to a pool that has room (`Grows`), whatever waits for the lock |
| `ReceiversAreKept` | `BtpsTransporterProofs` | the client a call holds leaves the pool only by being destroyed (`PoolKeepsCalls`), and one that is made is put in for the receiver of the call that gets it (`PerformKeepsCalls`) |
| `CommandsAreRead` | `BtpsArtifactProofs` | `CommandInv` says for each place where a command waits what it has looked up and made; `MadeFrom` that the artifact is the one its parameters make, under the selector that is on it. What is made is then read: the outer signature covers the wrapped artifact, the inner one the sealed document (`SignedIsVerified`), and the schema of a command that is carried admits no text, which would not be opened (`CarriedIsDocument`) |
| `AgentIsKnown` | `BtpsArtifactProofs` | `CommandInv`: what is written has passed `BtpArtifactServerSchema`, and the fields of `AgentArtifact` exclude every other type guard (`WrittenIsAgents`) |
| `AgentKeepsPromise` | `BtpsArtifactProofs` | refinement: a command that is not sent is `idle`, and an answer is only to one that is written (`CommandInv`), so every step is one of `RequestReply` or a stutter (`StepIsClients`) |
| `AuthCorrect` => `RecordsComeFirst`, `TokenIsSole`, `SessionLasts`, `KeysAreTraced`, `TokensServeOnce` | `BtpsAuthenticationProofs` | `AuthInv` says for each await of an exchange what the stores already hold: the patch that waits to be written has the key history (`PatchTraces`), the record precedes the token (`RecordFirst`, `KeyFirst`), and from the removal of the old token to the storing of the new one the only token is in the exchange's hand (`OneToken`, `TokenLeft`, `AnswersGood`); what overlaps or fails is in a history that the properties name |
| `OnlyAuthorised` | `BtpsDelegationProofs` | `Checked`: what each await of the verification may rely on. What verifies as a delegation is over this very artifact and without an attestation (`DelegationIsOver`), an attestation that verifies is over the delegation's signature (`AttestationIsLater`); one of the two signatures was made first (`First`, `Second`), so an attested delegation fails on one of them, whoever made it and in whichever order |
| `HonestySucceeds` | `BtpsDelegationProofs` | `MadeInv`: each artifact of this library under way is what one of the two kinds of senders made (`Own`, `OfDelegator`), field by field, or is attested; selectors only go up and a retired one never returns (`KeysGoOn`), hence a key that is missing now was retired, which is the excuse.  `KeysShape`: unless `init()` calls have met, at most one is under way, for the selector that the delegator names.  `WithoutWith` shows that the delegation is verified over what was signed |

An invariant that alone is not inductive is strengthened as named; each step
lemma has one case per action, and the last step of a theorem is `PTL`.

Every safety property that a passing run checks is a theorem.  Only model-checked:
the liveness properties `EveryCallSettles`, `ConnectingEnds`, `EveryCallEnds` and
`CommandsEnd`, as fairness is out of the prover's reach.  No proof rests on a recursive operator.

## 6. Not modelled

- TLS and DNS: external; the outcomes of a lookup are chosen.  Cryptography is
  symbolic: that a signature or a ciphertext cannot be made without its key is assumed.
- The bytes of the protocol, JSON, and the formats of fields in the zod schemas.
- `onServerStop`, the emitter's listeners that `stop()` removes, metrics, `dispose()`.
- `unref()` and the process exit on the client.
- `destroy(true)` of an agent, which calls `end()`: to its commands it is a lost connection.
- In the run of `BtpsServerNode`, JSON of no known type (`btpsServer.ts:1040-1042`): the module has it and
  the proof covers it, the run's lines leave it out for its size.
- The forwarding of `forwardTo` and `onIncomingArtifact` beyond their place in the pipeline,
  agents' keys (`getAgentPublicKey`) in the server's verification.
- `InMemoryAuthSessionStore`: its operations have no await between their steps.  Its index holds one
  agent per identity, and removing an older agent's session removes it.
- Factories: overlapping `create()` calls build two servers of which the later stays.
  The registry and `InMemoryQueue` have no concurrency of their own.

## 7. Plan

1. A client composed with a server connection: does `RequestReply` hold end to end,
   with the trust between them?
2. `AuthSession`: index and map of `InMemoryAuthSessionStore`, renewals during a
   cleanup; composed with `BtpsAuthentication`'s device.
3. The agent's keys in the verification, and forwarding.
