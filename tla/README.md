# TLA+ models of aws-crt-cpp

aws-crt-cpp is a C++ layer over the aws-c-* libraries. The protocols (MQTT, HTTP,
S3, TLS, DNS) run in C; what the C++ layer adds, and what is hard to get right in
it, is **who owns what, which thread may call back when, and what happens when the
user lets go**. Almost every class follows one scheme: a C++ object registers itself
(or a heap block) as the user data of a C object, callbacks arrive on an event-loop
thread, any user thread, or a callback itself, may drop the last reference, and the
C object reports its own end asynchronously. The models are about that scheme, one
module per class or family of classes.

## 1. Inventory

| Part | State | Operations | What makes it hard | Modules |
|---|---|---|---|---|
| MQTT5 client (`mqtt/Mqtt5ClientCore.cpp`, `mqtt/Mqtt5Client.cpp`) | `m_client`, `m_callbackFlag`, recursive `m_callback_lock`, `m_selfReference`, data of pending operations | create, Start/Stop, Publish/Subscribe/Unsubscribe, 8 native callbacks, Close | Close against callbacks, destructor inside a callback, early termination, refused submissions | `Mqtt5ClientCore`, `Mqtt5Proofs` |
| Manual publish acknowledgement (same file) | the functor shared by its copies, the handle in it | publish callback, functor, InvokePublishAcknowledgement | late calls of copies from any thread | `PublishAcknowledgement`, `Mqtt5Proofs` |
| MQTT 3.1.1 connection (`mqtt/MqttConnectionCore.cpp`, `MqttConnection.cpp`) | core with two owners, weak reference to the connection, handler data | connect, subscribe, publish, SetOnMessageHandler, callbacks, Destroy | weak promotion against destruction, handler replacement | `MqttConnectionCore`, `MqttConnectionCoreProofs` |
| Streaming operation (`iot/MqttRequestResponseClient.cpp`) | read/write lock, `m_closed`, `m_stream`, two owners of the impl | Open, callbacks, Close, termination | the write lock is skipped on the event loop | `StreamingOperation`, `Mqtt5Proofs` |
| Request/response client (same file) | `m_client`, impl, `IncompleteRequest` | submit, completion, Close, termination | deletion by a callback, refused requests | `RequestResponseClient`, `Mqtt5Proofs` |
| HTTP connection manager (`http/HttpConnectionManager.cpp`) | pool, promise, `m_releaseInvoked` | acquire, setup, release, InitiateShutdown, destructor | a destructor that blocks, raw pointer in the shutdown callback | `HttpConnectionManager`, `HttpProofs` |
| HTTP connection, streams (`http/HttpConnection.cpp`) | callback data, self references, write data | connect, NewClientStream, Activate, WriteData, completion, Close | self-owning objects, refused steps | `HttpConnection`, `HttpProofs` |
| S3 (`s3/S3.cpp`) | client, shutdown bundle, config, wrapper, callback data | construct, MakeMetaRequest, callbacks, Write, Cancel, shutdown | reused config, ownership cycle, callback before the handle is stored | `S3Client`, `S3MetaRequest`, `TransfersProofs` |
| Asynchronous queries (`ImdsClient.cpp`, `auth/Credentials.cpp`, `auth/Sigv4Signing.cpp`, `io/HostResolver.cpp`) | argument blocks, wrapper, native object | Get\*, GetCredentials, SignRequest, ResolveHost | wrapper dropped in flight, refusal | `AsyncQuery`, `ServicesProofs` |
| ApiHandle (`Api.cpp`, `io/Bootstrap.cpp`, `io/EventLoopGroup.cpp`) | three static defaults, three mutexes, shutdown data | GetOrCreate\*, Release\*, destructor | nested locks, asynchronous teardown before clean-up | `ApiHandle`, `ServicesProofs` |
| Channel handlers (`io/ChannelHandler.cpp`, the client TLS handler in `Api.cpp`) | `m_selfReference`, the C handler inside the object, tasks | seat, vtable calls, ScheduleTask, shutdown both ways, destroy | the object owns itself until the channel is gone | `ChannelHandler`, `ServicesProofs` |
| Reference counting (`include/aws/crt/RefCounted.h`) | `m_count`, `m_strongPtr`, `m_mutex` | AcquireRef, ReleaseRef | the mutex is a member of the object that may die | `RefCounted`, `NativeObjectsProofs` |
| MQTT5 packets and client options (`mqtt/Mqtt5Packets.cpp`, `mqtt/Mqtt5Client.cpp`) | every member, the views the C library reads | With..., getters, constructors from a view, initializeRawOptions, will and connect packet | a view points into an object that may change | `Mqtt5PacketFields`, `Mqtt5Packets`, `ConfigurationProofs` |
| IoT builders (`iot/Mqtt5Client.cpp`, `iot/MqttClient.cpp`, `iot/MqttCommon.cpp`) | settings, TLS options, connect packet, user name | With..., Build, NewConnection | Build writes to what it builds from, fails half-way, is repeated | `IotUsername`, `Mqtt5ClientBuilder`, `MqttClientConfigBuilder`, `ConfigurationProofs` |
| IoT SDK metrics (`mqtt/IoTSDKMetrics.cpp`) | names, metadata, raw entries | copy, move, set, encode | raw entries point into their own object | `IoTSDKMetrics`, `IoTSDKMetricsEncoder`, `ConfigurationProofs` |
| TLS (`io/TlsOptions.cpp`) | C structs, shared C context, reported settings | construct, copy, move, assign, destroy | moved-from objects, failing copies | `TlsOptions`, `NativeObjectsProofs` |
| Streams (`io/Stream.cpp`) | position and state bits of the istream | read, seek, length, status | the bits one call leaves for the next | `InputStream`, `TransfersProofs` |
| JSON (`JsonObject.cpp`) | trees of C nodes, views | With..., copy, move, parse, views | deep copies, adopted nodes, dangling views | `JsonShape`, `JsonValues`, `JsonDocument`, `JsonDocumentProofs` |
| Crypto (`crypto/Hash.cpp`, `HMAC.cpp`, `SymmetricCipher.cpp`) | handle, `m_good`, `m_lastError` | update, digest, encrypt, decrypt, finish, reset, move | use after move, after the end, after a failure | `Crypto`, `TransfersProofs` |

What is left out, and why, is in section 8.

## 2. Conventions

* One **action per step between two points where another thread can act**: a lock, an
  unlock, a call into the C library that may let the event loop run, a call of user
  code. A whole handler between two such points is one action.
* A thread inside a destructor or a call has a place in `pc`; the event loop, which
  runs one callback at a time, has its place in `at` or `loop`.
* A `shared_ptr` count is the **set of its owners** (`holders`, `coreRefs`,
  `streamRefs`, ...): the object is freed when the set is empty.
* Payloads, topics, options and error codes are left out unless a guard reads them.
* The C libraries are external. Each module says what is assumed of them in its
  header comment; definitions for them are marked external in `PROJECT.json`.
* Definitions preceded by a comment "Mutant of ..." are single plausible bugs
  (a dropped guard, a missing reset, a swapped order). No specification uses them;
  each shows that a property would notice that bug.
* `TypeOK` (`SystemTypeOK` for S3) documents the state of a module. Where it is a part of an
  inductive invariant the proof module cites it, or has a form of its own without the
  bounds that only the model checker needs (section 5).
* Components that do not share state are put together by a module with a variable
  `subject` (`builder` for the two builders), chosen in the initial state: a behaviour is
  about one of them, and the others stay as they were created. These modules are `Mqtt5`,
  `Http`, `Services`, `Transfers`, `NativeObjects`, `Configuration` and `IotBuilders`. Their
  properties are those of the components, repeated under one name each; the definitions
  they refer to, with the comments that explain them, are in the components' modules. Runs
  and theorems are about the same specification of the same module, with two exceptions: the
  theorems about JSON are about `JsonSpec` of `JsonDocument`, whose steps are the json steps
  of `MCValues`, and those about MQTT 3.1.1 and the transfers are about `MqttSpec` of
  `MqttConnectionCore` and `TransfersSpec` of `Transfers`, whose steps are the steps of
  `MCTransfers`.
* The .cfg files give the constants small sets of model values. `MCConfiguration`,
  `MCIotBuilders`, `MCTransfers` and `MCValues` hold what a .cfg cannot say: records, symmetry,
  and the components that are checked beside others: for `MCTransfers` the MQTT 3.1.1
  connection, for `MCValues` the JSON documents, with a VIEW.

## 3. Modules and their correspondence to the code

**CallbackGate** is the abstract promise: a callback begins only while the object
is open, a foreign thread cannot close it under a callback, the callback itself can,
and the object is freed after it was closed with no callback running.

**Mqtt5ClientCore.** `callbackFlag`, `lockOwner`/`lockDepth`, `mClient` and `coreRefs`
(`m_client_core` of the user's object and `m_selfReference`) are the members of
`Mqtt5ClientCore`. Lifecycle, publish and handshake callbacks run user code under
the recursive lock (the *gated* callbacks). Completions check the flag under the
lock, drop the lock, and then call the handler. `Close()` is four steps, lock and
flag, release, unlock, reset, because the C client can terminate after the release.

**PublishAcknowledgement** follows the functor's shared state through the callback
and later calls of its copies: in the callback, in a later callback on the same
thread, or on another thread, where it answers nullptr.

**MqttConnectionCore**: a callback promotes `m_connection` and holds the connection
while user code runs; when it was the last owner, the destructor runs on the event
loop. `anyLive`, `onAny`, `cAny` follow the data of the handler for all messages: what
is allocated, what the core points to, what the C connection points to.

**StreamingOperation**: `readers`, `inCallback` and `writer` are the aws_rw_lock; the
write lock is taken only off the event loop. A callback of *another* object on the
same event loop may also drop the stream. **RequestResponseClient** has no gate:
handlers of accepted requests run after Close too. `incomplete` has the requests whose
IncompleteRequest is on the heap.

**HttpConnectionManager** has its two shutdown modes and its `promise`.
**HttpConnection** has the connection, its streams and their writes.

**S3Client** has constructors that read and write one shared config;
**S3MetaRequest** extends it with a meta request. When the C library shuts a request down is
its own affair; `ShutdownAwaitsWrapper` says whether it waits for the reference that the
wrapper has.

**AsyncQuery** is one state machine for five classes; `kind` selects what the
argument block owns and how refusal is handled.

**ApiHandle**: every thread is a stack of `GetOrCreate` calls, innermost last, since
creating the bootstrap fetches the group and the resolver with its mutex held.

**ChannelHandler**: `handler` is the C++ object, `m_selfReference` and `userHolds` its two
owners, `channel` how far the C channel is with its slot. A vtable call in progress is
`running`; a task has its wrapper and, when the application captured the handler, a
reference (`captured`). The start of the TLS negotiation is a task with a raw pointer.

**RefCounted** splits AcquireRef and ReleaseRef at the lock, the body, the unlock and the
return, where the local `tmpStrongPtr` is destroyed. References of C code are `cRef`, those
of C++ code `sharedPtr`; a thread may acquire a reference for another one.

**Mqtt5PacketFields** lists, class by class, the members, what sets and gets them, what a
constructor takes from a C view, and how the C library sees each: copied, pointed at,
by cursor, by a member that is only refreshed by initializeRawOptions(), or through an
array allocated there. **Mqtt5Packets** gives these lists their meaning: `member` is the
value an object has, `given` what the user or the C library gave, `view` what was filled,
`changed` the views whose object has changed since, and `stale` these and the views whose
object another thread has sent again, which frees the arrays. A behaviour follows one field
(`probe`) of one class, together with the user properties.

**IotUsername** is the text a custom authorizer needs in a user name, as a sequence of
tokens. **Mqtt5ClientBuilder** and **MqttClientConfigBuilder** have one action per
With... function and per outcome of Build(); `alpnList` and `userName` are the TLS options
and connect packet that Build() writes to, and `client`, `config` and `connection` record
what was returned together with the settings it was made from. The port and the proxy are
copied to the client as they were set; no property is stated of them.

**IoTSDKMetrics** has the objects with their raw entries as state, **IoTSDKMetricsEncoder**
the encoder as operators over feature lists; a token is an id and a value, or malformed.

**TlsOptions**: C structs and C contexts are identities with reference counts; an object
has a struct, or was moved from. Any copy in the C library may fail.

**InputStream**: `pos`, `eofbit`, `failbit` and `badbit` are the std::istream, an external
object whose device may fail in any operation; `wanted` is where the caller is.

**JsonDocument**: `node` is the heap of C nodes, `m_value` the root each JsonObject owns,
`m_view` the node a JsonView points to. An operation is written as in the code, as a sequence
of the calls of the C library it makes (`New`, `Duplicate`, `Destroy`, `Add`, `RemoveMember`),
each from one memory to the next; `Becomes` is its effect, and makes the views of freed nodes
dangle. Addresses are never used twice, `fresh` is the first that was not used. They are only
compared, so the run identifies states that differ in addresses alone (VIEW
`WithoutAddresses`): the number of operations is not bounded, only the number of nodes that
exist at a time. **JsonValues** is the abstract
specification, in which an object simply has a JSON value; **JsonShape** has what both
use.

**Crypto**: one state machine for Hash, HMAC and SymmetricCipher; `byo` says that the C
object is implemented in C++ and owns itself. A digest is the number of updates it covers.

## 4. Runs

| Run | Subjects and instance | Distinct states |
|---|---|---|
| mqtt5 | client: 2 threads, 2 operations, websocket; stream: 3 threads; request: 2 threads, 2 requests; acknowledgement: 2 publishes, 1 thread | 55 668 |
| http | managed: 2 threads, 3 acquisitions, pool of 2; unmanaged: 2 streams, 2 writes | 26 469 |
| transfers | s3: 2 clients, 1 request, 2 writes; stream: 3 bytes, 5 calls; crypto: 2 objects, 2 updates; mqtt311: 2 threads, 2 operations, 2 handlers | 378 668 |
| services | api: 3 threads, blocking shutdown; query: 3 queries of each kind; handler: 2 tasks | 14 681 |
| configuration | builders: 5 calls; packets: 2 threads, 2 values, lists of at most 1; metrics: 2 objects | 1 118 561 |
| values | refs: 3 threads; tls: 2 objects of each class; json: 2 objects, 1 view, 4 nodes | 77 642 |

What they show:

* **mqtt5.** `NoDanglingCore`: the core is there for every callback, lock and destructor
  that may touch it. `NoDataOutlivesCore`: no callback data is left when it is gone.
  `SkippedOnlyAfterClose`: a handler is skipped only because of Close(). `ImplOutlivesUse`:
  so for the implementation of streams and request clients. `ConditionalLockIsSafe`: not
  taking the write lock on the event loop is safe. `EveryRequestAnswered`: once if it was
  accepted, never if it was refused, and its data is deleted on either path. `NoAckIsLostOrDoubled`, `HandleYieldedOnce`: a publish is acknowledged by the client
  or by the holder of the handle. `ReleasedClientIsFreed`, `ClosedIsFreed`: nothing leaks.
  `ImplementsGate`, `StreamImplementsGate`: both classes implement `CallbackGate`.
* **http.** `EventLoopNotBlocked`: the destructor that waits never waits on the thread that
  would end the wait. `WaitedShutdownFindsManager`: the shutdown callback finds the manager
  of a user who waits. `StreamOwnership`: an active stream owns itself, a finished one is owned by users and writes
  only, and every stream keeps its connection and the data of its callbacks. `HttpIsFreed`.
* **transfers.** `S3CallbacksFindData`: callbacks of a meta request and the shutdown of a client
  find their data, and the wrapper its request. `ReadsContinue`: a stream that is read, sought
  and asked for its length in any order, on a device that fails now and then, delivers what is
  due. `CryptoIsSound`: one owner for each C object, digests that cover what was accepted,
  refusals that say why, after any moves and calls beyond the end. For an MQTT
  3.1.1 connection `CallbacksFindConnection`: nothing a callback follows dangles, and the
  connection outlives user code; `NothingLeaks`, `ReleasedConnectionIsFreed`.
* **services.** `DefaultsAreSafe`, `ApiCallsReturn`: static defaults are created once, no
  event loop outlives a blocking destructor, and the nested mutexes are taken in one order
  (`MutexesAreOrdered`), so that calls return.
  `CallbackFindsItsSubject`, `QueriesComplete`: for queries whose wrapper may be dropped in
  flight. `HandlerOutlivesCalls`, `ChannelHandlerIsFreed`: a channel handler is there for
  every call and task, and lives exactly as long as its channel, a task or the application
  refers to it.
* **configuration.** `FreshViewReadsAsGiven`: whichever owner was dropped, the object of a
  view is alive. A view shows the C library each field as it was given until its object is
  changed; when the object is sent once more meanwhile, each field but the lists.
  `ClientAsConfigured`: after any order of settings, failing and repeated builds, a client
  offers the protocol its endpoint expects, and its user name has exactly the parameters of
  its authorizer, once each. Two cases that repeated builds reach are excepted (section 6).
  `ConnectionAsConfigured`: so for a connection of the 3.1.1 builder.
  `RawEntriesAreOwn`, `EncodedAsDocumented`: the metrics point into their own object and are
  merged by the documented rule, stated without reference to the code's algorithm.
* **values.** `LivesWhileReferenced`: a counted object lives exactly while someone refers to
  it. `ImplementsValues`: a call changes the value of one JsonObject, and empties those it moves
  from, and the change is one that an operation on values makes. `NodesOwnedOnce`,
  `OtherViewsStayValid`: ownership of nodes, and which views an operation may invalidate.
  `TlsObjectsAreSound`: structs and contexts are freed once, by the last that has them, and
  valid options report what their context was made with. The options of the run come from
  InitClientWithMtls(); the theorem has those of every initialiser.

Six more runs end in a violation, one for each finding of section 6:
publish_ack_after, s3_client_reuse, s3_teardown, subscription_identifier,
authorizer_detection and end_of_file. Run one with, for example, `tlc -config Mqtt5.cfg Mqtt5`.

**Bounds.** Two user threads and the event loop are the fewest that show one thread
closing while another uses the object and a callback runs; three threads are used
where three can wait for one lock (stream, api) or pass a reference on (refs). Two
operations, streams, writes, tasks or publishes show one pending while another ends. Three
acquisitions on a pool of two make one of them wait. Two clients are enough for the
config that s3_client_reuse reuses; the third lets an unrelated client live between
them. Identities never repeat in these modules, so each element is one call of the
program. `MaxCalls` of the builders lets every setting precede a first Build() and another
change and Build() follow. Two values tell a field that was replaced from one that was
not; lists of at most one element distinguish empty, filled and refilled (`MaxList`).
`MaxNodes` leaves room for an object with a member and a copy of both; freed nodes are
used again. `MaxUpdates` of two shows a digest that missed an update, and objects of the C
library are used again. A stream of `Length` 3 with buffers of up to `Capacity` 4 is read in
parts, exactly, and past its end. Symmetry is declared for the threads and values of the
packets in the configuration run, which checks no liveness.

**Deadlock** is looked for in the first four runs; where a subject may simply have nothing
more to do, the module has an explicit final step. The classes of configuration and
values are sequences of calls that may stop anywhere, or reach their bound.

**Fairness.** Weak fairness on the event loop's step (the loop keeps running while it
has work), on a destructor or call that has begun, and on a user callback returning.
Strong fairness is used where steps of the same loop alternate: a released native
object's wind-down, a scheduled task and the shutdown of a channel are tasks in a queue
that runs in order, so a flow of other callbacks cannot starve them. Users are assumed to
complete a handshake they were given, to give back HTTP connections, streams and meta
requests, and a channel handler to complete its shutdown, as ChannelHandler.h asks; none of
the liveness properties claims anything for a user who never does. In s3_teardown the user drops the wrapper and the C library runs
the callbacks of a cancelled request as soon as nothing holds them up. `ApiCallsReturn` assumes
strong fairness of the mutexes, which few threads contend for, each a few times. The C
libraries are assumed to answer what they accepted and to report their shutdown.

## 5. Proofs

Every safety property of the runs is also a theorem, for **any** number of threads, operations,
objects, values and calls, except `ImplementsValues` and `EncodedAsDocumented`. A proof module
extends the module its run checks, or one which that module extends, and shows the
property of its specification, without the fairness that only liveness needs. Check one with, for example, `tlapm HttpProofs.tla`.

All proofs have one shape. Hardly any property is inductive by itself: it looks at an object
only while the object is used. An inductive invariant (`...IInv`) says in addition who keeps
the object until then. One lemma shows it of the initial states, one that every step keeps it,
with a step for each action, and a last one that it implies the property. In a module with a
`subject` this is done for each component alone; `Next` of the composition is then a step of
the component or leaves its variables alone.

**Assumptions.** Those of the constants are named and stated where the constants are declared:
model values such as "nobody", "no request" or "nothing" are no thread, request or value; the
event loop is no user thread, and operations are no threads; strings that name an owner are
no thread, stream or write; a JSON object without a value and a dangling view are no
addresses; numbers are naturals; a pool has room for a connection and a
connection manager has a user thread; the threads of RefCounted and the connection options of
TLS are finite sets, since they are counted. Otherwise nothing is assumed of the number of
elements, and `UseWebsocket`, `BlockingShutdown` and `ShutdownAwaitsWrapper` may have either value.

### MQTT5

`Mqtt5Proofs` has the client and the three classes around it. The safety part of the client
follows from `IInv`:

* `TypeOK`;
* `LockInv`: who owns the mutex and how deep, read off the places of the threads.
  It is why `GateHolds` is preserved: a thread in `Close()` owns the mutex, so no other
  thread is inside gated user code;
* `CloseInv`: at most one thread destroys the client, after the last owner is gone;
  while it does, `m_client_core` keeps the core; while the C client lives,
  `m_selfReference` does. It is what makes `NoDanglingCore` follow;
* `CallbackInv`: which callback runs and on which operation, and that a terminated C
  client has no operation left;
* `SkipInv`: a handler not called was skipped because of the flag;
* `GateHolds`.

From it follow `TypeCorrect`, `GateCorrect`, `CoreNeverDangles`, `DataNeverOutlivesCore`,
`OwnersSeeClient`, `SkippedAfterClose` and `CompletionsRunUnlocked`. `Refinement` shows
`Spec => Gate!Spec`: the initial states map to the open gate, and every action maps to
a step of the gate or a stutter. `GateHolds`, `OwnerSeesClient` and
`CompletionRunsUnlocked` are checked by proof only.

The three classes around the client:

* Streams. `StreamRefInv`: the C operation keeps the impl until it terminates, the
  StreamingOperation while it has an owner or a thread is in it. `StreamCloseInv`: one thread
  closes, after the last owner is gone, so that nobody is in Open(). `StreamLockInv`,
  `StreamLoopInv`: the lock is what the places of the threads say. Hence `ImplAlwaysOutlivesUse`,
  `ConditionalLockIsAlwaysSafe`, and `StreamRefinement`: the class implements `CallbackGate`
  although it skips the write lock on the event loop.
* Requests. `RequestCloseInv`, `RequestClientInv`: a released C client finds `m_client` cleared.
  `RequestAnswerInv`: a request is being completed or freed exactly when it has its answer,
  its data is on the heap from the submission to then, and a terminated client has no request.
  Hence `RequestsAreAnswered`, and the part of `ImplAlwaysOutlivesUse` about the impl's
  fatal assertion.
* Acknowledgements. `AckLoopInv`: which functor is in use. `AckHandleInv`: where the handle of a
  publish is - in the functor, with the user, or freed - and that a handle that was taken is
  acknowledged by nobody else. Hence `AcksAreNotLostOrDoubled`, and `HandlesAreYieldedOnce`, an
  action property: no step yields the handle of a publish a second time.

### MQTT 3.1.1

`MqttConnectionCoreProofs`. `OwnerInv`: an owner of the connection keeps every thread out of its
destructor, and `m_self` keeps the core until the C connection terminates. `MqttCallbackInv`,
`DataInv`: no callback and no operation is left by then. `AnyInv`: core and C connection have
the same handler. Hence `CallbacksAlwaysFindConnection` and `NothingEverLeaks`.

### HTTP

`HttpProofs`.

* Manager. `DestroyInv`: who destroys the manager found nobody who refers to it. `ReleaseInv`,
  `PromiseInv`: with a blocking shutdown the last release comes after InitiateShutdown(), so the
  destructor does not wait. Hence `EventLoopIsNeverBlocked`, `WaitedShutdownAlwaysFindsManager`
  and `IsDestroyedOnce`, the last checked by proof only.
* Connection. `SelfInv`: a stream has its self reference exactly from Activate() to the end of
  its completion callback. `WriteInv`: a write owns one stream, no longer than its callback
  runs. `CallbackInv`, `ConnectionInv`: the callback in progress fits the state of its stream, and
  the owners of the connection are the user, a callback and the streams that have an owner.
  Hence `StreamsAreOwned`.

### Services

`ServicesProofs`.

* ApiHandle, in two parts. `ApiIInv`: until the destructor begins, an object exists exactly when
  its static pointer does (`RunningInv`); then the three are released in order and no call is in
  progress (`ReleasedInv`); and a C object keeps what it was made from until it ends
  (`KeepInv`), so that the join really waits for all three. `OrderIInv` is `MutexesAreOrdered`, which
  is inductive with the types of the stacks. Hence `DefaultsAreAlwaysSafe`.
* Queries. `QueryOwnedInv`, `QueryFlightInv`: the block of a query in flight owns what the callback
  will touch. `QueryDelegateInv`: a C provider with a query in flight does not shut down. Hence
  `CallbacksFindTheirSubject`.
* Channel handlers. `SeatInv`: the self reference is there exactly while the handler has a slot,
  and calls and tasks run only then. With `LivesWhileReferenced` of the same module it
  is inductive. Hence `HandlerAlwaysOutlivesCalls`.

### Transfers

`TransfersProofs`.

* S3. `BundleInv`: a pointer that an earlier construction left in the config is overwritten
  before the C library reads it. `CallbackInv`, `WrapperInv`: the callback data keeps the
  wrapper until the shutdown. Hence `CallbacksAlwaysFindData` and `BundlesAreFreedOnce`, both from
  the hypothesis that users do not clear the shutdown callback of a config
  (`~CallbackMayBeCleared`). The run s3_client_reuse violates `BundleFreedOnce` without it,
  so clearing the callback is the only way to the double free of finding 2.
* Streams, of any length, with buffers of any capacity. `StreamIInv` adds to `ReadsContinue` that a
  stream with its eof bit has nothing left to deliver: the caller is at the end. Hence
  `ReadsAlwaysContinue`.
* Crypto. `OwnerInv`: a C object in use is owned by one object, or by the temporary of a move.
  `GoodInv`: an HMAC that is good has a C object that takes input. `FedInv`: what an object
  accepted is what its C object was fed. Hence `CryptoIsAlwaysSound`.

### Native objects

`NativeObjectsProofs`.

* RefCounted. `CountInv`: `m_count` is the number of C references that were counted and not
  released, and `m_strongPtr` is set exactly while there is one. `MutexInv`, `CallInv`, `ArgInv`: the
  mutex excludes; a thread in a call has what it was called with; no two threads acquire the
  same reference. `ObjectInv`: the object is alive exactly while some shared_ptr to it exists,
  `m_strongPtr`, a user's, or `tmpStrongPtr` of a ReleaseRef that returns. Hence
  `LivesExactlyWhileReferenced`.
* TLS. `StructInv`: an initialised C struct has one owner, which reports its settings. `RefsInv`: the
  count of a C context is the number of connection options that use it, and one for the
  `shared_ptr` that the copies of a TlsContext have in common. `MadeInv`: what reports the settings
  of a context reports what it was made with. Hence `TlsObjectsAreAlwaysSound`.

The two counting arguments rest on lemmas about the cardinality of a finite set that gains
or loses an element.

### JSON

`JsonDocumentProofs`, for any number of objects and views, and documents of any size and depth.
`JsonIInv`: the heap is a forest (`Forest`) whose roots are the nodes that the objects have, one
each; all addresses are below `fresh`; a view that does not dangle is of a node that is there.
Ownership alone is not inductive: a step that frees or copies a tree must know that no other
object reaches into it.

In the middle of an operation there are nodes that no object has: a new value that is not yet
added, a member that was detached and is not yet freed. So there is one lemma for each call of
the C library (`NewSound`, `DuplicateSound`, `DestroySound`, `AddSound`, ...), and it says that
the call keeps `Sound`: the forest with the nodes in hand as further roots, and the nodes
outside the tree of the object the operation was called on as they were. An operation is then
a chain of these lemmas that ends with nothing in hand. Hence `EveryNodeIsOwnedOnce`, and the
action property `ViewsOfOtherObjectsStayValid`.

The tree at a node is not computed by recursion but is the least set that has the node and
the members of its nodes. What the proofs need of a tree (`TreeIsLeast`, and that the rest of
a forest without a tree is a forest) follows from that without an induction.

### Configuration

`ConfigurationProofs`.

* Packets. `ViewsAreHeld`: the object of a view is held by the operation that uses the view, by
  the packet the will was attached to, or by the options the connect packet was attached to.
  `FreshViewsAreCurrent`: a view that is not stale is what initializeRawOptions() would write
  now. `UnchangedViewsAreCurrent`: so is a view that was not changed, but for the lists. Hence
  `FreshViewsReadAsGiven`, for every class and field of `Mqtt5PacketFields`.
* Builders. `ClientIInv`: before the first Build() there is no ALPN protocol in the TLS options,
  over websockets there never is, without a custom authorizer none but that of port 443, and
  whatever Build() wrote to a connect packet, its user name has at most one "?".
  `ConnectionIInv`: no step sets a protocol over websockets, and one set for a custom authorizer
  stays. Hence `ClientsAreAsConfigured` and `ConnectionsAreAsConfigured`, after any number of calls.
* Metrics. `MetricsIInv`: `RawEntriesAreOwn`, which is inductive. Hence `RawEntriesAreAlwaysOwn`.

### What stays with the model checker

* Liveness: `ReleasedClientIsFreed`, `ClosedIsFreed`, `HttpIsFreed`,
  `ReleasedConnectionIsFreed`, `ApiCallsReturn`, `QueriesComplete` and `ChannelHandlerIsFreed`.
  Fairness and ENABLED are outside what the prover supports. `MutexesAreOrdered` is the part of
  `ApiCallsReturn` that is a safety property.
* `ImplementsValues`: the refinement mapping takes a tree to its JSON value, which is a recursive
  operator. That a copy has the value of the original takes an induction over documents.
* `EncodedAsDocumented`: the encoder folds over feature lists of any length, and what a fold
  computes takes induction over data.
* The six runs that end in a violation: a counterexample is one behaviour.

## 6. Where the code and its text disagree

Shown by a run:

1. `include/aws/crt/mqtt/Mqtt5Client.h:279` says of the acknowledgement functor "Calling
   it after the callback returns will return nullptr." The callback leaves the handle
   in the functor when it acknowledges the publish itself
   (`source/mqtt/Mqtt5ClientCore.cpp:92-103, 308-313`), and the functor looks only at the
   thread it is called on, so a call from a later callback yields a handle.
2. `source/s3/S3.cpp:973-1001`: the shutdown callback and its data stay in the
   caller's config. Reusing it with the callback cleared gives the next client the
   bundle of an earlier client, or of an earlier construction that failed. It is then
   freed twice, though the comment at 872-874
   says it "self-frees in the trampoline" and 986-991 clears other fields for exactly
   this reason.

3. `source/mqtt/Mqtt5Packets.cpp:1097`: SubscribePacket::initializeRawOptions() never reads
   the subscription identifier that `include/aws/crt/mqtt/Mqtt5Packets.h:2079` says is
   associated "with all subscriptions in this request". `FreshViewReadsAsGiven` excepts the
   field by name.
4. `source/iot/MqttClient.cpp:492` looks for a custom authorizer in the user name with
   find_first_of, which finds any single character of the parameter's name. Nearly every
   user name is taken for an authorizer's. The run stops there, on port 8883; on port 443 it
   follows that no ALPN protocol is set (500-508). `ConnectionAsConfigured` is stated for what
   the code takes for an authorizer.
5. `source/io/Stream.cpp:187`: asking for the length of a stream that was read to its end
   clears the eof bit and leaves the fail bit. The next read at the end returns false, though
   `include/aws/crt/io/Stream.h:109` says "Return true even if you read 0 bytes because the
   end-of-file has been reached."
6. `source/s3/S3.cpp:1077`: the callback data owns the wrapper, which owns a reference to the C
   request, whose shutdown callback deletes the data (862-870). With a C library that tears a
   request down when its last reference is gone the cycle is never broken: the shutdown callback of a
   cancelled request that the user has let go of does not run, though
   `include/aws/crt/s3/S3.h:1272` says "the finish and shutdown callbacks will still fire to
   signal final teardown". The run s3_teardown has `ShutdownAwaitsWrapper = TRUE`. With FALSE, a
   C library that shuts a request down although it is referred to, `CancelledRequestShutsDown`
   holds.

Noted while reading, without a run:

* Mqtt5Client.h:280 says the functor "Returns nullptr for QoS 0 messages."; the code
  leaves the `std::function` empty (Mqtt5ClientCore.cpp:264-293), so calling it throws.
* Api.h:186 says "The HostResolver will be set to have a maximum of 8 entries by
  default."; Api.cpp:404 passes 1 as the number of hosts and 8 as the time to live.
* A refused HTTP write keeps its data and stream (HttpConnection.cpp:392-397); a refused
  GetCredentials keeps its block and provider (Credentials.cpp:178); ImdsClient.cpp:204
  and Sigv4Signing.cpp:292 keep the block when the C call fails; HostResolver.cpp:111-116
  frees the block but not the host string. The properties that would fail name the refused call as
  their exception.
* A connection manager with blocking shutdown that is dropped after InitiateShutdown
  without waiting for its future is freed before the shutdown callback uses it
  (HttpConnectionManager.cpp:25-30, 142-150). `WaitedShutdownFindsManager` is about users
  who wait, as HttpConnectionManager.h:52-58 asks.
* The move assignment of Hash and HMAC calls itself without end (Hash.cpp:99). A refused
  Update() or Digest() of a finished or moved-from hash leaves no error, though Hash.h:151
  points to LastError() for the reason.
* Mqtt5ClientOptions does not initialise `m_port`. initializeRawOptions() writes to packets
  that threads may share, without a lock. A PublishPacket whose list of user properties was
  emptied after its array was made leaks the array (Mqtt5Packets.cpp:681; the arrays that
  objects own are not modelled).
* iot/Mqtt5Client.h:333 says of WithCustomAuthorizer "This function will modify the username,
  port, and TLS options."; the port stays as it was set: Build() only warns when it is not 443
  (iot/Mqtt5Client.cpp:526-531).
* The copy constructor of Mqtt5CustomAuthConfig leaves `m_passwordStorage` uninitialised
  when there is no password; its assignment keeps fields that the right-hand side lacks.
* Mqtt5ClientBuilder::Build() writes the user name back to the connect packet, so that
  repeated builds repeat the parameters (the exception in `AuthParametersOnce`), and ALPN
  protocols stay in the TLS options, so that a certificate client moved off port 443 still
  offers the protocol of that port (the one in `BuiltAsConfigured`). In the 3.1.1 builder
  `m_isUsingCustomAuthorizer` stays true once set.
* A failed copy of TlsConnectionOptions still takes the metrics of its source. TlsContext
  does not look whether its options are initialised.
* InitiateShutdown() called twice asks its promise for a second future, in a noexcept
  function (HttpConnectionManager.cpp:169). Two threads that construct S3 clients from one
  const config both write to it (S3.cpp:890). The resolve callback gets a reference to a
  resolver that nobody keeps alive (HostResolver.cpp:92). The instance-info callback converts
  its argument before it looks at the error code (ImdsClient.cpp:168). The adapter's
  handshake transform captures a local by reference (Mqtt5ClientCore.cpp:786).
* GetSlot() of a channel handler dangles after its channel is destroyed. SeekImpl returns
  true although seekg failed. `~ApiHandle` does not reset the SHA1 callback (Api.cpp:86).

## 7. Composition

S3MetaRequest extends S3Client: requests and clients shut down in one state space.
The modules with a `subject` (section 2) put components side by side; they do not interact.
StreamingOperation includes the callbacks of other objects on its event loop. ApiHandle
composes the three defaults with their nested creation. TlsOptions composes options,
contexts and connection options; Mqtt5Packets packets, will, connect packet and client
options. MqttClientConfigBuilder goes on from the configuration to the connection made
of it. The other components meet only through the C library.

## 8. Not modelled

* **HTTP messages and proxy strategies**: accessors of C messages; a proxy strategy is a
  sequence of user callbacks in an order that the C library decides.
* **PKCS#11, CBOR, checksums, endpoints, HKDF, random numbers**: each function is one call
  of the C library whose result is returned.
* **Variant, Optional, StringView**: templates about the lifetime of one object of any
  type, sequential and without states of their own beyond "has a value".
* **Value types** (dates, UUIDs, URIs, strings): formatting and parsing in the C library.
* **The MQTT5-to-3.1.1 adapter** (Mqtt5to3AdapterOptions): it hands the options of one client to
  the constructor of the other; what is hard in it depends on copy elision.
* **S3BufferTicket, options and results of S3, `SetWill`, `SetLogin` and the reconnect
  settings of MQTT 3.1.1, operation statistics**: data passed on to the C library.

The next steps would be a model of StreamingOperation and RequestResponseClient on one event
loop, where streams outlive the client they were made from.
