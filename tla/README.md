# A model of the remote object framework

The repository lets a client create C++ objects in a server process and call
them over a named pipe. This directory holds TLA+ models of that program, the
TLC configurations that check them, and TLAPS proofs about the models.

## 1. Inventory

| Part | State | Operations |
|---|---|---|
| `ObjectManager`, `ServerStub`, primitive objects (`Common/ObjectManager.cpp`, `include/ObjectManager.h`, `include/ServerStub.h`) | the stubs on the heap, `m_allObjects`, `m_csAllObjects` | `ProcessRequest`: create, delete, call |
| `Calculator` (`include/Calculator.h`, `include/CalculatorServer.h`, `Server/Calculator.cpp`) | none | `Add`, `ReverseName`, `LongOperation` through the dispatch table |
| `Marshaller` (`Common/Marshaller.cpp`, `include/Marshaller.h`, `Utils.h` `Tokenize`) | the vector of parameters of one message | getters and setters by position, wire text |
| `RPCClient`, `ClientStub<ICalculator>` (`include/RPCClient.h`, `Client/CalculatorClient.h`) | `m_remoteProxyObject`, `m_asyncMessageHandlers` | constructor, calls, destructor, primitive data, each also asynchronous |
| `ClientMessageHandler` (`Common/ClientMessageHandler.cpp`, `include/ClientMessageHandler.h`) | its end of the pipe, its thread | `SendRequest`, `SendAsyncRequest`, `HandleAsyncRequest`, `Stop` |
| `RPCServer` (`Common/RPCServer.cpp`) | `m_allMessageHandlers`, exit event | `MainServerThread`, `Run`, `Stop` |
| `ServerMessageHandler` (`Common/ServerMessageHandler.cpp`) | its instance of the pipe, its thread | `WaitForMessage`, `HandleMessage`, `HandleRequest`, `Stop` |
| `NamedPipe` (`Common/NamedPipe.cpp`) | a pipe handle | open, connect, read, write, flush, disconnect, close |

How they interact. `MainServerThread` makes a handler, waits for a client on the
handler's instance of the pipe and starts a message thread for it. The message
thread reads one request, calls `ObjectManager::ProcessRequest`, writes the
response, waits until it has been read and disconnects. A client opens the pipe
for every call, polling while it is busy or missing, writes one request and
reads one response. All message threads share `ObjectManager`; all clients share
the pipe's name. An asynchronous call does the same on a thread of the client
and reports through a callback. `Stop` ends the server from another thread: it
resets the pipes of all handlers and terminates the threads that do not end.

What is hard. Message threads interleave on one collection, part of whose use
is outside its critical section. Deletion keeps dangling entries, and addresses
are used again. Calls on a handle race with its deletion. The main thread races
with clients between `CreateNamedPipe` and `ConnectNamedPipe`. A caller can be
killed, give up, or be told of a failure after the server executed its call.
Threads can wait for each other across the pipe. `Stop` walks a vector another
thread changes, and closes handles other threads use. Callbacks run while their
client is being destroyed. The server can be started again under its clients.
What makes each part correct:

* *Object manager*: the collection is only changed under its critical section,
  contains every object a client owns, and every request is answered.
* *Clients*: a client's handle stands for its own object and nobody else's, and
  no sequence of synchronous calls makes the server touch freed memory.
* *Asynchronous calls*: a callback gets the result of its own call, and none
  runs after the destructor of its client.
* *Message exchange*: a call is executed at most once and reports what
  happened; no instance of the pipe and no handler is lost; every call returns.
* *Shutdown*: `Stop` returns, leaves no thread behind, and what callers have
  been told stays true.
* *Message format*: parameters come out of the wire text as they went in.

`PROJECT.json` lists all parts, the hazards with their lines, and the lines of
the source each definition stands for.

## 2. Modules

| Module | What it models |
|---|---|
| `Constants` | error codes and dispatch ids |
| `Marshaller` | a message as a sequence of arguments: positions, defaults, growth of the vector |
| `ObjectManager` | the message threads inside `ProcessRequest`, at the grain of accesses to shared state |
| `ClientStub` | `ObjectManager` composed with client programs that call synchronously |
| `AsyncClient` | `ClientStub` with asynchronous calls, killed clients and a restarted server |
| `RPCCall` | abstract: what one remote call promises |
| `Transport` | main thread, message threads, callers and pipe instances; refines `RPCCall` |
| `ServerShutdown` | `Transport`'s callers and pipe with a server that can be stopped |
| `MarshallerCodec` | wire text, `Tokenize`, the pipe's length limits and what the calculator computes |
| `ObjectManagerProofs`, `ClientStubProofs`, `AsyncClientProofs`, `TransportProofs`, `ServerShutdownProofs`, `MarshallerCodecProofs` | theorems about the module of the same name |
| `ServerShutdownCallProofs` | theorems about the callers in `ServerShutdown` |
| `MC...` | instances for TLC |

`Transport` and `ClientStub` split a call between them. `Transport` treats
`ProcessRequest` as one step and shows that a call is executed at most once and
that `ERROR_SERVER_NO_RESPONSE` means it was not executed; it also has the
calls no thread reads, because the server drops an early client or cannot
create a thread, which end in `ERROR_RECEIVE_FAILED`. `ClientStub` takes both
errors for requests that are not served and details `ProcessRequest`. It does
not have the failures `Transport` shows for messages that are too long.

### ObjectManager

A message thread (`pc`) runs

    idle -> process -> enterInsert -> insert -> done        creation
                    -> enterDelete -> delete -> done        deletion
                    -> enterFind -> find -> invoke (-> sleep) -> done   call

One action is the code between two accesses to shared state; everything local
to the thread is part of it. `Receive` is the read of a request, `done` the
response (`msg`) on its way to the client. `Enter` and the three actions behind
it are the critical section: nothing else runs inside, so each of the latter
also leaves it. `BeginCall` reads the size of the collection outside it, as the
code does; the read is taken as atomic. The iterator is followed (`Invoke`)
after the section has been left.

`heap` says what is at an address. An address is free again after a deletion,
so that a new stub can get the address of an old one, whose entry is still in
`allObjects`. Freed memory is undefined behaviour: freeing it again
(`Delete`) or calling through it (`InvokeFreed`) either ends the process
(`alive`) or goes unnoticed, and such a call may then run as any kind of stub.

Abstractions. What `Add`, `ReverseName` and `LongOperation` compute is one value
(`Computed`), set at the position of the out parameter; the other parameters
are written back as they were read and stay. `EmptyArgument` also stands for
the default an argument reads as when it is absent. The requests are those the
client library can make, plus a global dispatch id that does not exist. MSVC's
`unordered_set` keeps its nodes when it grows, so that insertions by other
threads do not move the node an iterator points at. A thread waits when all
addresses are used; failure of `operator new` is left out.

### ClientStub

`phase` is the life of a client's proxy: out, creating, ready, calling,
deleting. A request is given to any idle thread (`Deliver`) or refused
(`NotServed`, with either error); `Answered` reads the response and frees the thread. `orphaned`
is a history variable: objects whose deletion failed. `Workloads` bounds the
requests of the clients.

### AsyncClient

Extends `ClientStub`. `handlers[c]` is `m_asyncMessageHandlers`: one record for
each asynchronous call with the label of its thread, its request, the server
thread that has read it, and what `SendRequest` has returned. The thread runs
open -> read -> callback -> ended (`HandlerThread`); `InvokeAsync` keeps the
handler before the thread is created and keeps it when that fails. `Callback` is
the rest of `HandleAsyncRequest`: it takes the last parameter of the response
and the error of the transport. The callback of a creation stores the handle, as
`Client.cpp` does.

`~RPCClient` is `ClosePipe` and `WaitAndTerminateThread` for one handler after
the other. `Close` while a read is pending either makes the read fail or waits
for it; the second is `ClosePipe` being taken later. `Kill` ends a client program at
any point. `Crash` ends the server; `Restart` starts it again with an empty
collection and the same addresses, once all readers have noticed that their
pipe is gone. A reader that notices later changes nothing but its own state, so
that its step commutes with the restart. `stale` is a history variable: a handle
was in use when the server ended. With such a handle nothing can be promised,
because the new server may have another object at its address, and the
ownership properties say so.

Not in it: the lock of the process heap when a thread is terminated, the second
`CloseHandle` of a client's pipe, and the string the test driver's callback writes to,
which is destroyed before the stub that waits for the callback
(`Client.cpp:159`).

### Transport

A handler, its pipe instance and its thread have one number, the order of their
creation (`created`). An instance is listening, connected or gone; `toServer`
and `toClient` are the message in each direction, named by the call it belongs
to. A caller is in `open`, `wait`, `write` or `read`. Sizes of messages are
three: both fit, only the request fits, the request does not. Local steps
between two system calls are merged with the call before them; `Flush` includes
the `Reset` that follows it, and `Drop` the destruction of the handler, which
the code delays until the end of its `Sleep`. `Kill` ends a caller's program at
any point. `CreateNamedPipe` is assumed to succeed. `ERROR_SEND_FAILED` is never
returned, because `Read` fails as well and overwrites it: the model keeps both
assignments and shows it. Variables are reset when they are dead, to save
states. `RPCCall` has the same variables, but for `pending`, the set of callers
that are not idle.

### ServerShutdown

The callers and the pipe are `Transport`'s; the server is modelled anew in the
steps `Stop` can come between. The main thread tests the exit event, pushes,
creates the pipe, connects, creates the thread and only then stores its handle.
`NamedPipe::Reset` is three steps, because a message thread and `Stop` may run it on
one `NamedPipe`: `DisconnectNamedPipe`, `CloseHandle`, `m_pipe = NULL`. `closed`
are handlers between the last two, and `recycled` those that were there when the
newest pipe was created, whose handle may then have the same value: `Denotes` is
what the value stands for. Calls on one synchronous handle wait for each other
(`Busy`). `Stop` visits the handlers it has counted, lets a fake client connect,
resets, waits and terminates, then does the same to the main thread; `Destruct`
and `ExitProcess` are the end of the server's `main()`. All waits with a limit
take any time, so that a thread may be terminated at any point, inside
`m_csAllObjects` too (`csAllObjects`). An instance that `Stop` has disconnected
and not yet closed can listen again (`StartConnect`). A client that connected
before can only fail, and the model lets it do so first: nothing it may do in
between has an effect on the others.

Callers are not killed here, and messages fit: with a request that does not,
`Stop` can wait for ever in the same way as the threads of
`Transport_EveryCallReturns`.

### MarshallerCodec

One client makes one call after another. A parameter is a sequence of
characters; `GetWireFormat` joins parameters with the delimiter, `Send` applies
the pipe's two limits (`Write` compares the length, the copy needs room for a
NUL and stops at one), and `Tokenize` is one call of `StringUtils::Tokenize`,
with its position and `npos`. Numbers have their decimal digits (`Decimal`), and
`INT_MAX` is the largest int; the handle of an object has a fixed width, and is one
character. `LongOperation` puts a string of its own (`Greeting`) at the position
of the one it was sent. `RoomAssumption` says that the pipe takes every message
of numbers, handles and the greeting, as the 511 characters of the real one do.
How `std::stringstream` reads a number that other characters follow is left
out.

## 3. Runs

| Run | Instance | Shows |
|---|---|---|
| `ObjectManagerOpen` | 3 threads, 2 addresses, every request on them | collection and critical section are consistent, no matter what clients delete |
| `ClientStubSync` | 2 calculators, 1 primitive user, 3 requests each, 3 threads, 3 addresses, 2 values | ownership is kept and exclusive, nothing leaks, calls reach live objects, the server survives |
| `AsyncClient` | 1 + 1 clients, 5 workloads of up to 4 requests, 1 fault with the shorter ones, 3 handlers each, 2 threads, 2 addresses, fair | ownership with calls in the background, killed clients and restarts; callbacks get the answer to their own request and end with their client; calls, destructors and requests come to their end |
| `TransportSafety` | 3 callers, 1 call each, 2 polls, all sizes, threads may fail | handlers and instances are neither lost nor leaked; responses are not discarded; implements `RPCCall` |
| `ServerShutdown` | 1 caller, 2 calls, the fake client, 2 polls, messages that fit, threads may fail, fair | `Stop` at any point of two calls: outcomes stay true, at most the newest thread is left; `Stop` and callers return |
| `MarshallerCodec` | all strings of up to 4 characters over a letter, a digit, delimiter and NUL, and five of 5 to 9; ints from -4 to 3 in decimal; waits of 1 and 10; a pipe of 15 characters | which strings arrive, where a delimiter does damage, what `Add` returns, which calls outgrow the pipe |

Why the bounds are enough. *Objects*: two threads are at odds over one address
at a time; the third one creates, so that an address is deleted, used again and
called in one behaviour. Three requests let a client create, use and delete, or
create twice, while another client takes the address. Three addresses are as
many as the clients can hold or lose, so that no thread waits for memory that the real
program would have. The theorems of section 4 confirm both modules for any
size. *Asynchronous calls*: with one calculator, four requests create, have
two calls in the background and delete; one request of the other client, or a
restart, then takes the address. With three handlers two reads, or two calls
and the deletion, are under way at once, and the order of stopping them matters. What
the clients' requests are answered with differs, so that an answer in the wrong
place shows. One fault in the shorter workloads covers each point at which it can
come; two faults, such as a client killed while the server is down, are not
covered. *Transport*: every call is made by a `ClientMessageHandler` of its own,
so that callers with one call each stand for one caller with several; a third
caller takes the instance another one waits for. Polling more than twice
(`MaxPolls`, 10 in the code) repeats the first attempt. The number of handlers
follows from the number of calls. *Shutdown*: two calls give the vector an
element `Stop` visits first, one it finds while the main thread works on it, and
one it does not find. *Codec*: two delimiters and what is between and behind them fit
in four characters. Of the longer strings those of seven and eight make a
creation whose response does not fit, and that of nine a request that does not;
the greeting takes the place of shorter and of longer strings.

Definitions with a comment that begins with `Fault:` are faulty versions of the
definition after them; each property of a passing run fails when one of them
takes its place (`PROJECT.json`, `mutants`). They are part of no specification.

Deadlock checking is off in all runs: threads and callers end, and workloads
are finite, so that every instance stops.

### Where code and documentation disagree

Each of these runs checks a sentence of a comment or of `src/README.md`, and TLC
finds a behaviour of the code that contradicts it.

| Run | What happens |
|---|---|
| `AsyncClient_ServerSurvives` | the destructor of a stub overtakes its asynchronous call (`ObjectManager.cpp:78`) |
| `AsyncClient_CallbackHearsTheOutcome` | a callback is told of success when the response carries an error (`ClientMessageHandler.h:103`) |
| `ServerShutdown_StopEndsThreads` | the main thread starts a message thread `Stop` does not know of (`RPCServer.cpp:73`) |
| `MarshallerCodec_CallbackGetsResult` | the callback of a creation is told of success and given a piece of the value for a handle (`ClientMessageHandler.h:115`) |
| `Transport_ConnectedClientGetsThread` | a client that is early is disconnected (`NamedPipe.cpp:73`) |
| `Transport_EveryCallReturns` | a request that is too long blocks caller and server thread for ever (`ClientMessageHandler.cpp:42-49`) |

Seen while modelling, without a run: the error code for an unknown class is
overwritten by `ERROR_DISPID_INVALID` (`ObjectManager.cpp:46`, `:127`); a call
while no object is registered comes back with the success code of the request
(`ObjectManager.cpp:67`); a caller that has waited for a busy instance gives up
when it becomes free, because nothing opens it (`NamedPipe.cpp:50-53`); a caller that is told `ERROR_RECEIVE_FAILED` because
the server stops may have its call executed afterwards.

Two exceptions are part of properties of `ServerShutdown`, because the code
leaves room for them. `WaitsForConnect`: `Stop` waits in `DisconnectNamedPipe`
when the main thread creates its pipe and enters `ConnectNamedPipe` after the
fake client has found nothing to open; nothing makes a client come. The comment
at `ServerMessageHandler.cpp:113-115` expects the main thread to fail because of
the reset, but the reset waits for it; `StopReturns` says that there is no other
reason not to return.
`HandleIsReused`: between `CloseHandle` and `m_pipe = NULL`
(`NamedPipe.cpp:176-178`) a message thread may use a value that has become the
handle of the next pipe.

### Fairness

Weak fairness for every thread: the operating system schedules them all, and
`Sleep`, `WaitNamedPipe` and the waits of a pipe end when their condition does.
The critical section needs no strong fairness in these instances: each thread
enters it a bounded number of times, so that it cannot be taken from a waiting
thread for ever. In `FairAsync` and `FairShutdown` a destructor or a `Stop` that
has begun goes on, and so does a call. Nobody is obliged to make calls, to stop
or to start a server, or to be killed. Two properties depend on a limit of the
code and not on the scheduler: the polls are counted, and the waits of
`WaitAndTerminateThread` end.

## 4. Proofs

Seven modules of theorems, for all values of the constants that satisfy the
named assumptions: any number of threads, clients, addresses, values, calls and
polls; any strings, ints and buffer size.

| Theorem | Property |
|---|---|
| `ObjectManagerProofs!TypeCorrect` | `TypeOK` |
| `ObjectManagerProofs!IteratorsStayValid` | `FoundStaysRegistered` |
| `ObjectManagerProofs!CriticalSectionExcludes` | `MutualExclusion` |
| `ObjectManagerProofs!NoObjectIsLost` | `LiveObjectsAreRegistered` |
| `ObjectManagerProofs!HandlesAreRegistered` | `CreatedHandleIsRegistered` |
| `ObjectManagerProofs!OnlyDeletionsDangle` | `DanglingOnlyByDelete` |
| `ClientStubProofs!ClientTypesCorrect` | `ClientTypeOK` |
| `ClientStubProofs!HandlesStayTrue` | `ProxyOwnsObject` |
| `ClientStubProofs!ObjectsAreNotShared` | `OwnershipIsExclusive` |
| `ClientStubProofs!NoObjectIsAbandoned` | `ObjectsHaveOwners` |
| `ClientStubProofs!ServerStaysAlive` | `ServerSurvives` |
| `ClientStubProofs!CallsFindLiveObjects` | `CallsReachLiveObjects` |
| `ClientStubProofs!CallsTellTheTruth` | `ServedCallsSucceed` |
| `AsyncClientProofs!AsyncTypesCorrect` | `AsyncTypeOK` |
| `AsyncClientProofs!HandlesStandForOwn` | `HandlesStandForOwnObjects` |
| `AsyncClientProofs!AwaitedCallsAreSafe` | `AwaitedCallsReachLiveObjects` |
| `AsyncClientProofs!NoObjectIsForgotten` | `ObjectsAreAccountedFor` |
| `AsyncClientProofs!CallbacksHearTheirAnswers` | `CallbackHearsItsAnswer` |
| `AsyncClientProofs!NoCallbackAfterClient` | `CallbacksEndWithClient` |
| `TransportProofs!TypeCorrect` | `TypeOK` |
| `TransportProofs!NoLeak` | `NoInstanceLeaks` |
| `TransportProofs!RunningKept` | `RunningHandlersAreKept` |
| `TransportProofs!ExecutedSucceeds` | `ExecutedCallSucceeds` |
| `TransportProofs!RefinesRPCCall` | `ImplementsRPCCall` |
| `ServerShutdownProofs!OnlyNewestSurvives` | `OnlyNewestThreadSurvives` |
| `ServerShutdownCallProofs!ShutdownTypesCorrect` | `ShutdownTypeOK` |
| `ServerShutdownCallProofs!OutcomesAreTrue` | `OutcomesHold` |
| `MarshallerCodecProofs!CodecTypesCorrect` | `TypeOK` |
| `MarshallerCodecProofs!NothingIsLost` | `TokensAndRestAreText` |
| `MarshallerCodecProofs!NewHandleArrives` | `HandleArrives` |
| `MarshallerCodecProofs!StringsArriveCut` | `StringsAreCut` |
| `MarshallerCodecProofs!SumArrives` | `AddIsSum` |
| `MarshallerCodecProofs!ResponsesFit` | `OnlyGrowingResponsesFail` |

Assumptions. `RequestsAssumption`: requests are those of the library.
`DistinctAssumption`: addresses, contents and the special values differ.
`ClientAssumption`: calculators are clients, workloads are functions to `Nat`,
and a calculator is not a primitive value. `TransportAssumption`: the sizes are
the three there are, the bounds are positive, the callers finitely many.
`NothingAssumption`: `Nothing` is no handler and no call. `FakeAssumption`: the
fake client is a client. `CodecAssumption`: the sizes are natural numbers, and
an absent argument reads as the empty text. `CharacterAssumption`: numbers and
the greeting are written without delimiter and NUL, and no two numbers alike;
strings are free. `RoomAssumption`: the pipe has room for the messages that
have no string of the client. TLC evaluates each of them in the runs of its module.

### ObjectManagerProofs

All theorems rest on `BaseInv`: types, what a thread knows of its message and pointer at
each label (`ThreadInv`), and `FoundStaysRegistered`. `TypeOK` alone is not
inductive: that `Construct` stores a content needs the message at `process` to
be a request, and that `Invoke` finds a stub at its pointer needs the pointer
to be an entry of `allObjects`. Replies are dealt with once: `RepliesPreserve`
shows that a step that only replaces a message by one for the same request
keeps `BaseInv`, and `ErrorReplies`, `ParameterReplies` and `InvokeReplies`
show that the actions' replies are of this kind, from lemmas about the
`Marshaller` setters. The other invariants are inductive relative to `BaseInv`;
`DanglingOnlyByDelete` needs `DanglingInv`, the same for the stubs on their way
to the collection, for otherwise an insertion could add a dangling entry nobody
has deleted; `DeletedStays` shows that no step takes back the reply to a
deletion. Whether a call reaches a live object
depends on what clients delete, and is a theorem of `ClientStubProofs`.

### ClientStubProofs

None of the ownership properties is inductive, nor are they together: that a
deletion frees the caller's own object depends on the request its thread
carries. `IInv` therefore pairs clients and busy threads (`ServingInv`), says
what the request of a waiting client asks for (`RequestInv`), where its thread
can be with it (`PlaceInv`) and what the response says (`ResponseInv`), and
extends ownership to objects that are on their way from `Construct` to the
client (`Owns`, `ContentInv`, `OwnerInv`). The proof has three parts.
`ServesAClient` shows that under `IInv` a thread can only take the steps of a
client's request that succeed (`Serves`): the object of a call is found, the
object of a deletion is there. `OthersKeep` and `OwnersKeep` show that a step
which leaves the other clients' variables, threads and objects alone (`Apart`)
and takes only free addresses (`TakesOnlyFree`) keeps what is true of the
others. What is left is the client itself, one lemma for each kind of step.

### AsyncClientProofs

`AsyncIInv` has three parts, and TLC has checked it on the run's instance. The
first, `BaseAsync`, does not mention whose an object is and so also holds with
stale handles: what a busy thread works on (`WorkInv`: a creation, a deletion
or a call, with the labels it can be at), that nobody else reads its answer
(`ReaderInv`), what a client and each of its handlers wait for and what their
answers are like (`CallerInv`, `HandlerInv`), and that stopped handlers are
gone (`StoppedInv`). `ReaderInv` is why a callback hears its own answer;
without the shape of the answer, which is five arguments for a creation, the
last parameter the callback takes would not be the new handle.

`AccountInv`: a live object is in the collection or about to enter it, and a
thread has made it or will free it, a client holds its handle, a callback brings
it, or it is in `orphaned`. It is about
losing objects, and needs no condition. `OwnInv`, unless `stale`, is about
having too much: what a party has is live and has the content of the party
(`ContentOK`), two parties never have the same object (`Exclusive`), and a
request to read a value is for the value that was sent, and its answer the value
(`ValueRead`). A thread whose client has been killed has the object it will
free, though nobody waits. `StepHasEffect` describes what
a step of the server does to one object, in the terms of the invariant;
`EffectOnWork`, `EffectOnTypes` and `EffectOnOwners` turn that into the three
parts, so that the labels of `ObjectManager` are split into cases once. For the
steps of clients and handlers there is a pair of lemmas each, one for
`BaseAsync` (`...KeepsBase`) and one for the owners (`...KeepsOwners`).

### TransportProofs

`IInv` has three layers, each preserved given those before it. `BaseInv`: types,
where callers are, and that main works on the newest handler, which is last in
the vector. `HandlerInv`: a handler that is not created yet is fresh; a
connected instance has a caller, a thread or main; what is not connected is
empty; nobody holds the instance of another. It gives `NoLeak` and `RunningKept`.
`RequestInv` follows a request: what is in the pipe of a caller is its latest
call, a call is in one pipe at most, it has been executed once exactly when its
thread writes or flushes the response, and until then its caller waits or has
been killed. It is what the refinement needs: the abstract `Execute` is allowed
once, and not after the return unless the caller has been killed. `RefinesRPCCall` maps every step to
an abstract one or a stutter: the thread's `ProcessRequest` to `Execute`, each
way a caller stops waiting to `Return`, a kill to `Abandon`. `ExecutedSucceeds`
adds `SuccessInv`: a response that fits is still in the pipe, and its caller
still there, until it is read.

### ServerShutdownProofs

`ShapeInv` are the types the loop of `Stop` depends on. `MainInv`: the handler
main works on is the newest and at the back of the vector. `RunningInv`: a
running thread belongs to a handler of the vector, and its handle is stored but
for one step of main. `LoopInv`: while `Stop` has the lock, its count is the length
of the vector, and a running thread belongs to a handler from `index` on or to
the newest one; when the lock is given back only the newest can run, and main,
which finds the exit event set, pushes at most one handler more.
`OnlyNewestSurvives` follows when the loop ends. Its exception is real: `ServerShutdown_StopEndsThreads`
shows the newest thread running on.

### ServerShutdownCallProofs

`OutcomesHold` needs the layers of `TransportProofs` again, with a reset in
three steps and two threads that may be in it for one pipe. `BaseInv` adds types
and what callers and threads have at their labels to `IInv`; `HandleInv` says
which pipes exist, who has opened them, and when a handle can be found closed;
`CallInv` follows a request from the caller through one place at a time to one
execution (`RequestInv`, `PlaceInv`) and back to its own caller (`OwnInv`,
`AnswerInv`).

The difficulty is the value of a closed handle. Before `Stop`, only the thread
that closes a handle is left to use it, and it does not (`ClosedInv`), so that
reuse is harmless. After the exit event main creates at most one pipe more,
which is the only time a handle in use can come to denote another pipe. `Reused` says that this has happened: no pipe
can be created any more (`~MayCreate`) and the newest got an old value. It is
stable and implies the exception of `OutcomesHold`, `HandleIsReused`, which is
not inductive by itself: before main has passed its last chance, `recycled` may
become empty again. At most one execution, and none of a call that no server has
answered, hold even with a reused handle.

### MarshallerCodecProofs

The theorems are about strings of any length, so the module starts with what
induction it needs. The library's induction theorems take an operator; that the
natural numbers are well founded does not, and gives `Induction` for a set of
numbers. From it follow the facts about `GetWireFormat`, which is a recursive
function: appending a parameter appends its text (`WireFormatAppend`), and its
length is that of the parameters and the delimiters between them. Two more say
when a text can be taken apart: two messages without delimiters in their
parameters and with the same text are the same (`SplitUnique`), and a text has
a delimiter less than its message has parameters (`SplitCount`).

`IInv` follows a call through its places. `ParseInv`: the tokens so far, joined
with the rest, are the text, no token has a delimiter, and the text has no NUL
and fits the pipe. `RequestInv`: on the way to the server the text is that of
the request, cut at the first NUL. `AnswerInv`: on the way back it is the text
of an answer to the call, for some answer; since a text has one split, the
parameters at the return are that answer. `StoredInv`: what is stored is the part of
the value that arrives, and is short enough to have been in a request of its
own. `TypeOK` and the properties are not inductive without them: `TypeOK` needs
that a text has three parameters before those of the function, the properties
are about the return and need what was sent, and
`OnlyGrowingResponsesFail` needs the length of what the server sends back,
also of a value stored by an earlier call. TLC has checked `IInv` on the run's
instance, with the parameters as the answer.

The lemmas with `...Processed` are about the server, one for each kind of request:
`RequestTokens` gives the parameters it finds, `RespondPreserves` the text it
sends, and `ResponseFits` that the text fits when it is not longer than the
request's. A value read back is compared with the request that brought it;
sums, error codes and the greeting, which may have more digits or characters than
what they replace, fit by `RoomAssumption`.

### What is only model-checked

The properties about what must happen: `AsyncCallsEnd`, `DestructorReturns`,
`EveryRequestIsAnswered`, `StopReturns` and `CallsReturn`. They rest on
fairness, and liveness and `ENABLED` are beyond the prover. Every invariant and
every action property a passing run checks is a theorem.

## 5. What is left

Larger instances of `AsyncClient`, with two faults in one behaviour.

Not modelled: `~ObjectManager`, which runs when `main()` has returned and nobody
calls any more; the failure of `operator new` and of `CreateNamedPipe`;
`NamedPipe::SwitchToAsynch`, which nothing calls; what a terminated thread does
to the heap; `Logger`, which writes debug output; the console input and output
of `Server.cpp` and `Client.cpp`, whose calls are those of `ClientStub` and
`AsyncClient`; the macros of `RPC.h` that the preprocessor disables; the build.
