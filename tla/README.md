# Verification of my-go-claude-agent

TLA+ models of the Go SDK in this repository, TLC configurations that check
them on small instances, and TLAPS proofs for every size. The SDK starts the
Claude Code CLI as a child process and talks to it over pipes in JSON lines.
Everything that is hard about it is concurrent: three goroutines under the
transport, a receive loop in the client, callers that wait for answers, and a
process that may print, stall or die at any moment.

## The system

| Component | Source | State | Operations |
|---|---|---|---|
| Subprocess transport | `internal/transport/subprocess.go` | the process and its pipes; `mu`, `connected`, `closed`, `stderrBuf`, `processStatus`; `msgChan`, `errChan`, `closeChan` | `Connect`, `Write`, `EndInput`, `Close`; goroutines `readLoop`, `readStderr`, `waitProcess` |
| Control protocol handler | `internal/protocol/control.go` | `requestCounter`, `pendingRequests`, one channel per request, callbacks, `msgChan` | `SendControlRequest`, `HandleIncoming`, the setters, `Close` |
| Message parsing | `internal/protocol/parser.go`, `messages.go` | none | `ParseMessage` |
| Client | `claude/client.go` | `mu`, `closed`, `sessionID` (atomic), `errChan`, `closeChan`, the transport and the handler | `Connect`, `Send`, `SendToolResult`, `Interrupt`, `RewindFiles`, `Close`; goroutine `receiveLoop` |
| Query | `claude/query.go` | local to the call | one call, from `Connect` to the deferred `Close` |
| Retry | `claude/retry.go`, `errors.go` | attempt, backoff, last error | `WithRetry`, `QueryWithRetry`, error classification |
| Hooks | `internal/hooks/` | entries per event | `Register`, `Trigger`, the command executor, the matcher |
| Permission manager | `internal/permission/` | mode, rules, callback | `SetMode`, `AddRule`, `ClearRules`, `Evaluate` |
| MCP client | `internal/mcp/client.go` | `pendingReqs`, `connected`, `stopChan`, `msgChan` | `Connect`, `ListTools`, `CallTool`, `Close`; goroutine `receiveLoop` |
| MCP stdio transport | `internal/mcp/stdio.go` | the process and its pipes, `closed`, `mu` | `Connect`, `Send`, `Receive`, `Close` |
| MCP HTTP transport | `internal/mcp/http.go` | `closed`, `sessionID`, `msgChan`, `sseResp`, the context of the stream | `Connect`, `Send`, `Receive`, `Close`; goroutine `startSSE` |
| MCP manager | `internal/mcp/external.go` | maps of configured servers, SDK servers and clients | `AddExternalServer`, `AddSDKServer`, `ConnectServer`, `DisconnectServer`, `DisconnectAll`, `CallTool`, `HandleMCPMessage` |
| MCP SDK server | `internal/mcp/server.go` | map of tools | `AddTool`, `RemoveTool`, `HandleCall`, `HandleMessage` |
| Options, session, examples | `claude/options.go`, `session.go`, `examples/` | records | constructors; no behaviour |

How they interact:

- `Client.Connect` holds the client mutex, starts the transport, starts
  `receiveLoop` and sends `initialize` through the handler; the other methods
  hold the mutex shared from their check of `closed` to their return.
- `receiveLoop` takes raw messages and errors from the transport and passes
  messages to `HandleIncoming`, which delivers answers to the callers that wait,
  calls the application's callbacks and writes their answers, and queues
  conversation messages for the application.
- `Query` uses the transport without handler and client, and reads both channels
  itself.
- `readLoop`, `readStderr` and `waitProcess` share `mu` with the calls of the
  client; `cmd.Wait`, in `waitProcess`, closes the pipes the two readers read.
- The MCP manager makes a client and one of the two transports for each
  configured server, and connects it outside its lock. The client's
  `receiveLoop` calls `Receive` of the transport, and its other methods `Send`.

What makes a component correct, and what is hard about it:

- Transport: messages arrive whole, in order, once; the exit is recorded before
  it is announced; `Close` ends the process. Hard: `Wait` against the readers,
  channels closed under a sender, a write that blocks with the lock held.
- Handler: each caller gets its own answer or an error, exactly one of them; no
  entry is left in the map; the receive loop never blocks; every request of the
  CLI is answered once. Hard: late, repeated and unknown answers, deadlines, a
  full `msgChan`, `Close` in the middle.
- Client: the handshake is alone; nothing is used after `Close`; the session id
  never changes; every method returns. Hard: the mutex held across the
  handshake, callbacks that call methods, an `Errors()` nobody reads.
- Query: the result is complete, the call returns, the process does not outlive
  it. Hard: a select over three channels that are closed under it.
- MCP client: as the handler, with servers that die, and no server left behind.
  Hard: the locks `Close` holds while it waits for the server.
- HTTP transport: every POST after the handshake carries the session id; the
  goroutine of the event stream ends with `Close`. Hard: requests made outside
  the lock, whose responses come after `Close` has closed `msgChan`.
- MCP manager: no connected client is forgotten, what is taken out of the map is
  closed, `CallTool` answers as the manager stood during the call. Hard: look up
  under a lock and use outside it, two connections under one name, maps written
  without the lock.
- Retry: bounded waits, attempts, classification of errors. Permission: rules
  before callback before mode, of one moment. Hooks: in order, until one stops.
  Hard: lists that change while they are worked through, hooks that never end.

## The modules

| Module | Models |
|---|---|
| `RequestReply` | abstract: requests that are made, and end at most once, by an answer that was given to them or by an error |
| `ControlProtocol` | `control.go` in full, the CLI and the pipe between them |
| `ControlProtocol_proofs` | theorems about the calls, and about the messages and requests of the CLI |
| `MessageStream` | abstract: messages numbered as printed, of which a subsequence is delivered in order, and nothing after the end |
| `RWMutex` | `sync.RWMutex`: a waiting writer holds off new readers |
| `SubprocessTransport` | `subprocess.go`, the CLI process and its three pipes |
| `SubprocessTransport_proofs` | theorems about it |
| `Client` | `client.go`, with `CP == INSTANCE ControlProtocol` |
| `Client_proofs` | theorems about it |
| `Query` | `query.go`, with `T == INSTANCE SubprocessTransport` |
| `Query_proofs` | theorems about it |
| `StdioTransport` | `internal/mcp/stdio.go` and the MCP server process |
| `HTTPTransport` | `internal/mcp/http.go`, with the goroutine of the event stream, and the MCP server behind it |
| `MCPTransport` | the interface of `internal/mcp/transport.go` and the choice `ConnectServer` makes: one of the two by the type of the server |
| `Connection` | abstract: the life of an MCP client as its owner sees it: connected once, failed or connected, then closed |
| `MCPClient` | `internal/mcp/client.go`, with `T == INSTANCE MCPTransport`; implements `RequestReply` and `Connection` |
| `MCPClient_proofs` | theorems about it |
| `MCPManager` | `internal/mcp/external.go` and `server.go`, with `C == INSTANCE Connection` for its clients |
| `MCPManager_proofs` | theorems about it |
| `Retry` | `WithRetry`, error classification, `Query` as the function |
| `Permission` | `permission.go`: `Evaluate` against the calls that change the manager |
| `Hooks` | `hooks.go`, `matcher.go`, `executor.go` for one event |
| `Hooks_proofs` | theorems about it |
| `Decisions` | `Retry`, `Permission`, `Hooks` and `MCPManager` side by side |
| `Decisions_proofs` | theorems about `Retry`, `Permission` and the composition |
| `MC*` | the instances TLC checks |

An action is what a goroutine does between two points where another goroutine
can be seen to interleave: a lock, a channel operation, a write. A goroutine's
position is a program counter (`call[c].pc`, `handler.pc`, `pc[t]`, `loop.pc`,
`main`). In `Client`, `Query` and
`MCPClient` each step that involves the layer below is the
conjunction of an action of that layer and of what the caller does with it, so
that the two cannot drift apart. A mutex section without a blocking point is one
step; sections with one (the handshake, `Write`, a hook) hold `mu` across steps.

Abstractions. A request is the number of the channel made for it, so an answer
carries both the id it names and the request it answers, and a crossed answer is
visible. Conversation messages are serial numbers. In the transport a line is
whole, the head or tail of a message, noise, blank or too long, and sizes are
counted in lines. A send on a closed channel sets `crashed`, after which the
program takes no step. `Query` tells apart the kinds of message its code does.
The text of requests, command line flags, environment variables and error
wording are left out.

`ControlProtocol` is checked alone with an arbitrary CLI and arbitrary callers,
`Client` restricts it to the callers the code has. In `Client` the transport is
what the handler sees of it: it accepts a write, or makes the writer wait while
stdin is full (`room`; a single message may fill the pipe), or is down, and it may
report errors at any time. A writer waits with the lock it holds, before the
deadline of `SendControlRequest` starts and, in `Send`, without any. `SubprocessTransport` and
`Query` go below that line.

`MCPClient` puts JSON-RPC ids through as numbers; one that has a fraction loses it
and is an answer under the number before it; one that is an array or an object
cannot be the key of a map and panics (`RoutePanics`). A line of the server is an
answer, an error answer, an answer nobody asked for, a notification or no JSON.
The lock of the client and the one of the stdio transport are the ones the code
has. By HTTP a response is a message, a notification or a failure, where a
failure is whatever is no 200 with JSON, and each may bring a session id; a
server that has sessions assigns one with its response to `initialize`. An
event is a message or a line that is skipped. `Send` of the HTTP transport does
not look at the context of its caller, and neither does the model.

`MCPManager` takes of a client what `Connection` says. `ImplementsConnection`
shows that `MCPClient` is one, so the two halves fit. A map that is written
without the lock is a write that takes two steps; a reader or writer that comes
between them may go on or find the program ended by the Go runtime (`crashed`).
A configuration, an SDK server or the result of a handler that is nil is
dereferenced, and the program crashes. A call that fails before it changes
anything, for want of a name or a supported type, leaves the state alone and has
no action.

`Retry` counts durations in units and factor and jitter in percent, so that the
conversions that cut off a fraction are in the model. `Hooks` and `Permission`
are about one event and two tools; a regular expression is the set of tools it
matches, and the result of a command is its exit code and the kind of thing it
printed.

## The runs

Bounds are constants, each commented with `bound` in its module. Channel
capacities of 1 or 2 stand for 100 and 10: the hazards are at full and at empty,
and the capacity appears in no other place. `PipeCap` 1 or 2 still lets every
order of deliveries happen. The counts of calls and messages are the smallest for
which a late answer can meet a later request, a full channel a further message,
and a close a method in progress.

| Run | Instance | Shows |
|---|---|---|
| `protocol` | 2 callers, 3 requests, 3 messages or requests of the CLI, 2 callbacks, `MsgCap` 2; requests and messages together at most 3, requests and callbacks too (`MaxTraffic`) | every call ends once, with its own answer or an error, whatever is late, repeated or unknown; the pending map is exact; `RequestReply` is implemented; the receive loop is never blocked by `msgChan`, order and the newest message survive, each request of the CLI is answered once |
| `transport` | a writer, a `Close`, an `EndInput`, 3 calls, so that a `Write` blocked on a full stdin meets a `Close`; 2 messages in 1 or 2 lines, a stray line, a stderr line; at most 3 of messages, lines and calls together (`MaxActivity`) | nothing is lost while `readLoop` runs, and `MessageStream` is implemented; an announced exit is recorded; `Close` returns and the process ends, if the CLI reads its stdin; after an exit both channels are closed |
| `client_methods` | 2 goroutines, 3 calls of 5 methods, 3 requests, 2 errors | the handshake is alone; `Close` comes after the methods in progress |
| `client_returns` | a goroutine and methods called inside a callback, 2 calls, 2 session ids, a message, an error nobody reads | the first session id stays; `Connect` needs only the answer of the CLI (the deadlock of `docs/design/fix-session-id-deadlock.md`; the mutant is the code before that fix); every method returns if deadlines come and the CLI reads its stdin, also one that waits to write with the lock held |
| `query` | 2 messages, a context that may end | a result comes with everything before it, no process is left, `Query` returns once the CLI or the context ends |
| `mcp_calls` | 2 goroutines, each type of transport, 3 requests (2 with an event stream), a stray answer or event, a session id, `MsgCap` 1, a `Close` | the pending map is exact and no answer is dropped, no server is left after `Close` or a failed handshake, the session id is carried, `RequestReply` and `Connection` are implemented, the event stream ends, calls return unless the server is blocked by its own output or does not respond to a POST |
| `decisions` | `Retry` with 108 configurations for each kind of function; `Permission` with 2 of 3 rules and 4 changes; `Hooks` with 2 of 4 hooks and 4 changes; `MCPManager` with 2 goroutines, 2 names, 2 clients, an SDK server and 4 changes | waits and attempts stay in their bounds; a decision is that of one moment; hooks run in order, all or up to the one that stops, and a timeout ends a command unless a process it has left behind goes on; no client is lost but the replaced ones, what is taken out is closed, and a tool call is answered as things stood during it |

The four modules of `decisions` share no state. `Decisions` explores one after
the other: `part` is chosen at the start and never changes. In that run the
manager starts with its servers configured, or with configurations and an SDK
server that are nil, and the servers it adds later are supported ones
(`SupportedAdded`); `manager_replaced` adds any and also starts with none.

`client_methods` and `client_returns` leave out choices of the CLI that
`protocol` has (`MCClient`): only the first line it is sent fills its stdin, it
sends one message of each kind the client treats differently and answers a
request once, and of two session ids the messages carry one, the answer to
`initialize` the other.

`MaxTraffic` and `MaxActivity` cut off only combinations: each of the counts they
bound reaches its own bound in some behaviour. With an event stream two requests
are the handshake and one call, and what they meet is the stream and `Close`;
three requests are there for each type without one.

`RWMutex`, `MessageStream`, `RequestReply`, `Connection` and the MCP transports
have no run of their own; they are exercised by the modules that use them.

### What the code does and its documents do not say

Each of these runs checks one sentence of the repository and finds it violated.

| Run | Property | What happens |
|---|---|---|
| `lost_output` | `OutputOutlivesProcess` | `cmd.Wait` closes stdout under `readLoop`; what was printed just before an orderly exit is lost (`os/exec` asks callers of `StdoutPipe` to finish reading first) |
| `close_panics` | `CloseIsClean` | `Client.Close` closes `msgChan` while the receive loop is about to send |
| `mcp_close` | `CloseDisconnects` | `MCPClient.Close` waits for the server with both locks held; the receive loop needs them to read what the server still writes |
| `manager_replaced` | `AllDisconnected` | a name is connected twice; the first client is forgotten, and `DisconnectAll` leaves it connected |
| `ask_rule` | `AskLeavesToCallback` | a rule that asks matches first, and a later rule decides without the callback: `break` leaves the `switch` and not the loop (`permission.go:165`) |

`NothingLost` and `ImplementsMessageStream` say what remains true around the
first: nothing is lost before `readLoop` ends, nothing is ever reordered,
repeated or invented. `CloseIsLast` says what remains true around the second:
methods are never overtaken by `Close`, only the receive loop is. `NoServerLeft`
and `CallsReturn` do so for the third, `NoClientLost` for the fourth: clients
which were replaced are the only ones lost. `OneConfigurationDecides` does so for
the last: whatever an ask rule means, mode, rules and callback are those of one moment.

Two more are among the findings without a run:

- a handshake fails while the event stream has a message in hand: `Connect` closes
  the transport, and the goroutine sends on the closed `msgChan` (`http.go:119`),
  so that the program panics where `docs/design/features/mcp-integration.md:340`
  has an error returned. A POST whose response comes after `Close` panics likewise
  (`http.go:187`). `CallsReturn` and `StreamEnds` have this panic as their excuse;
- the timeout of a hook kills the shell only: `Run` waits for what the shell has
  started (`executor.go:98`), so a hook that waits for a process that never ends
  never returns, though `docs/design/features/hook-execution.md:238` ticks
  that the timeout works. `TimeoutEndsHook` needs `ChildrenGo` for this reason.

The models show more of this kind that no run states:

- the read error after `cmd.Wait` is sent on `errChan` after `waitProcess` has
  closed it (`subprocess.go:186` and `224`), which panics; the properties of
  `SubprocessTransport` and `Query` have this crash as an excuse;
- a `Write` blocked on a CLI that does not read holds the lock `Close` needs:
  `CloseEndsProcess` fails without `CLIListens`, and so does `MethodsReturn`, since
  the write is no part of what a deadline ends;
- `readStderr` stops at a line too long for its scanner, and a CLI that goes on
  writing to stderr then waits for ever;
- `ProcessStatus.Stderr` is copied before `readStderr` is done; `readLoop` can
  stay for ever in its send on a full `msgChan` after `Close`;
- `Query` may take the read error of an exit though the result is in the channel;
- a hook command that prints JSON without `continue` blocks;
- a server that does not respond to a POST holds its caller beyond the deadline;
- `AddExternalServer` and `AddSDKServer` write maps that other methods read under
  the lock or without it, and the Go runtime may end the program;
- a tool handler that returns neither result nor error, a hook or hook callback
  that returns neither output nor error, and a server or configuration that is nil
  are dereferenced, and an id that is an array or an object panics
  (`mcp/client.go:118`);
- with `MaxRetries` below zero `WithRetry` returns an error that wraps nil; an
  `SDKError` that is not retryable hides a rate limit it wraps.

### Fairness

Weak fairness of each goroutine's steps, as long as the program has not panicked:
the Go scheduler runs what can run, a callback returns, a write to a pipe with
room completes. A goroutine that waits for a mutex announces itself and then
holds off later readers (`RWMutex`), so weak fairness is enough. In a `select`
with several ready cases Go chooses at random; the steps of one `select` share
one condition and each leads out of it. Where every behaviour is finite
(`MCPClient`), one condition for all goroutines is as strong as one for each.
The manager is checked for safety only: its methods wait for nothing but a
client, a handler and each other's short sections.

What not every program or CLI guarantees is a hypothesis of the property that
needs it, and stands in its statement: `CLIAnswers` (the CLI answers each request
it reads; strong fairness, since the delivery competes for the pipe) for
`ConnectCompletes`, `Deadlines` (a deadline comes) for `MethodsReturn`,
`CLIListens` (the CLI reads its stdin) for these two and `CloseEndsProcess`,
`ChildrenGo` (what a hook command leaves behind ends) for `TimeoutEndsHook`.
`transport` assumes a client that reads both channels (`ServedSpec`). `mcp_calls` assumes that contexts end and that the
stdio server reads, writes and ends with its input, and nothing of an HTTP server;
`decisions` that timers fire and that callbacks of hooks return. A killed process dies. Nothing assumes that the CLI prints, answers in time or exits.

`CHECK_DEADLOCK FALSE` is set where behaviours end: all bounds used up, the
process dead, the program crashed.

## The proofs

Every theorem holds for all values of the constants; what it assumes of them is
the one assumption its module names. An invariant is inductive in the form of
`IInv` (or of the name given below); in each module the lemmas follow the
actions, one step per action, and the temporal theorem puts them together.

`ControlProtocol_proofs` proves, for any set of callers, any number of requests,
messages and callbacks and any capacity, from `BoundsAssumption` alone:

| Theorem | States |
|---|---|
| `TypeCorrect` | `[]TypeOK` |
| `AnswersNeverCrossed` | `[]OwnAnswer` |
| `PendingMapExact` | `[]PendingExact` |
| `ProtocolImplementsRequestReply` | `Spec` implements `RequestReply` |
| `ReceiveLoopNeverBlocked` | `[]PushNeverBlocks` |

`OwnAnswer` is not inductive: nothing in it says that an answer on the wire, in
the handler's hand or in a channel belongs where it is going. The invariant
`IInv` adds this along the way of a request. Ids and channels are numbered alike
(`CallsNumbered`), the CLI answers under the id it read (`AnswersNumbered`), the
handler and the channels hold answers of the same number
(`DeliveriesNumbered`), and a request has one owner and is open until that
caller leaves (`OneOwner`). Each action has a lemma, each lemma one step per
conjunct it disturbs; steps that touch none of it share `UnrelatedStep`. The
refinement follows from `IInv`: a `Leave` is `End` of one request, everything
else stutters or begins a request. `ReceiveLoopNeverBlocked` has its own small
invariant: between `DropOldest` and `SendAfterDrop` only the consumer touches
`msgChan`, and only to take.

Two more theorems, from the same assumption, are about what the CLI sends of its
own accord:

| Theorem | States |
|---|---|
| `EveryRequestRepliedOnce` | `[]RepliedOnce` |
| `NewestIsKept` | `[]QueueKeepsNewest` |

Both rest on one order. Every message has a serial number, and the numbers grow
from the consumer over `msgChan` and the handler's hand to the end of the pipe
(`PipeOrdered`, `HandOrdered`, `QueueOrdered`). So dropping the head of `msgChan`
drops the oldest message, and a request is in the pipe, in the hand or answered,
never in two of these.

`SubprocessTransport_proofs` proves, for any writers, lines and capacities, from
`SizesAssumption`:

| Theorem | States |
|---|---|
| `ExitIsRecordedFirst` | `[]ExitRecordedFirst` |
| `TransportImplementsMessageStream` | `ImplementsMessageStream` |
| `NothingIsLost` | `[]NothingLost` |
| `TransportTypeCorrect` | `[]TypeOK` |

For the first, the invariant says for each point of `waitProcess` what is recorded
and what `errChan` may hold (`WaiterOrdered`); every other goroutine leaves it
alone because none of them sends `"exited"` or closes that channel. For the
second, the lines in `jsonBuffer`, in the scanner and in the pipe stand in the
order of their messages, each before the next (`LinesOrdered`); what was sent
precedes them all (`SentOrdered`); and only the first part of the message being
printed is ahead of the count of messages, so that a buffer that parses holds a
message already printed in full (`Printed`). A send is then a `Deliver` of a later
message; a print that completes a message is an `Emit`, the close of `msgChan` an
`End`, and every other step stutters.

For the third, what `readLoop` holds and what is in the pipe are one queue of
lines, `InFlight`. As long as the CLI prints no noise the head of a message is
followed by its tail (`Halves`), and the lines in the queue that end a message
are, in order, the messages not sent yet (`Numbered`). A print adds at one end; a
send takes at the other the one message that is complete; a read and a scan only
move lines from the pipe to the scanner and from there to `jsonBuffer`, of which
`HalfRead` says what it holds. `Counting` says
that what was sent are the first messages without a gap, which stays true when
`readLoop` gives up. For the types, a line of stderr is counted once
(`StderrCounted`), and a send finds room because its guard says so
(`ChannelsFit`).

`Client_proofs` proves, for any goroutines, methods and session ids, from
`ClientAssumption`:

| Theorem | States |
|---|---|
| `InitializesAlone` | `[]InitializeAlone` |
| `ClosesLast` | `[]CloseIsLast` |
| `SessionStays` | `SessionIDStable` |
| `ClientTypeCorrect` | `[]TypeOK` |
| `ClientImplementsHandler` | `CP!Spec` |
| `HandlerKeepsPromises` | `[](CP!OwnAnswer /\ CP!PendingExact /\ CP!PushNeverBlocks /\ CP!QueueKeepsNewest /\ CP!RepliedOnce)` |
| `MethodsImplementRequestReply` | `CP!ImplementsRequestReply` |

The first two are what the lock buys: who is past the lock of a method holds it in
the mode of that method (`LocksHeld`), so a `Connect` or `Close` there is alone.
`CloseIsLast` needs two more parts: no method is past its check of `closed` when
the client is closed (`QuietWhenStopped`), and a request is pending only while a
method waits in `SendControlRequest` (`PendingOwned`), which is proved through
all actions of `ControlProtocol`. `SessionStays` needs no invariant: the
compare-and-swap is enough in every step.

The last three join the layers. Each step of `Client` is a step of `ControlProtocol`
or leaves it alone, so a behaviour of the client is one of the handler; hence
what was proved of the handler with arbitrary callers and an arbitrary CLI holds
inside every client, at no cost but the comparison of the actions. The types of
`Client` follow in part from this, in part from the lock.

`Query_proofs` proves, for any number of messages and all capacities, from
`QueryAssumption`:

| Theorem | States |
|---|---|
| `QueryResultIsComplete` | `[]ResultComplete` |
| `QueryLeavesNoProcess` | `[]NoProcessLeft` |
| `QueryTypeCorrect` | `[]TypeOK` |
| `QueryImplementsTransport` | `TP!Spec`, the specification of the transport |
| `TransportKeepsPromises` | `T!ImplementsMessageStream /\ [](T!NothingLost /\ T!ExitRecordedFirst)` |

The transport under `Query` takes only steps of `SubprocessTransport`, so that the
invariants of `SubprocessTransport_proofs` hold of it (`Below`). With `NothingLost`
below, what `Query` has received are the first messages the CLI printed, without a
gap; `AllHandled` says that it has collected those for the caller among them
(`Handled`), and that a result it returns is preceded by such messages alone.
`ProcessInv` says that a process which was started runs until it exits or `Close`
kills it, and that nothing brings it back; once it was started, the deferred
`Close` is the only step that returns.

`MCPClient_proofs` proves, for any finite set of goroutines, number of requests,
transports and servers, from `MCPAssumption`:

| Theorem | States |
|---|---|
| `PendingIsExact` | `[]PendingExact` |
| `NoServerIsLeft` | `[]NoServerLeft` |
| `ClientImplementsConnection` | `ImplementsConnection` |
| `SessionIsCarried` | `[]SessionCarried` |
| `ClientImplementsRequestReply` | `ImplementsRequestReply` |
| `MCPClientTypeCorrect` | `[]TypeOK` |

For the first, ids are below the counter and no two goroutines have the same
(`IdsUnique`), and nothing has arrived for a request not made yet
(`FutureUntouched`); nothing is needed of transport or server. For the second,
only one `Connect` or `Close` is in progress at a time, it alone may find client
and transport in disagreement (`OwnerAlone`, `Unowned`), and sending, receiving
and the server neither open nor close anything (`Calm`). For the third, `PhaseInv`
says which calls each state of the client allows; each step is then a step of
`Connection` or leaves its state alone. For the fourth, request 1 is that of
`Connect` (`FirstRequest`) and nobody else is in a call while it is made
(`ConnectAlone`), so that the server assigns its id once; from the end of that
`Send` the client has it (`SessionAgreed`), and a later response repeats it or
carries none (`ResponsesAgree`). For the fifth, an answer in a pipe, in a response,
in an event, on a channel or in the hand of the receive loop is to a request that
was read (`Heard`), a request that was read was made (`ReadMade`), a request is open
as long as its goroutine waits (`OutcomesFit`), and no request is made without a
number (`Bounded`, the one place where the set of goroutines must be finite). The
types need to know of the event stream that it offers messages and nothing else
(`StreamTyped`), and of the ids that they are below the counter.

`MCPManager_proofs` proves, for any goroutines, names, clients, SDK servers,
handlers and number of calls, from `ManagerAssumption` (`None` is no client):

| Theorem | States |
|---|---|
| `ManagerTypeCorrect` | `[]ManagerTypeOK` |
| `NoClientIsLost` | `[]NoClientLost` |
| `WhatIsTakenIsClosed` | `[]TakenAreClosed` |
| `CallToolOfItsTime` | `[]OutcomeOfItsTime` |
| `ManagerUsesConnections` | `C!Spec` |

The invariant follows a client from the `ConnectServer` that makes it, through the
map, to the call that closes it: what is in the map or was taken out of it has
been connected (`OnceConnected`), each call is at one of its own steps and holds
clients at no other (`CallsOrdered`), and it has closed what it took and no longer
holds (`TakenOrClosed`). `CallsSeen` keeps what a call has looked up among the
views that it may have seen. The manager takes each client through the life of
`Connection` and through nothing else (`ManagerUsesConnections`), and `MCPClient`
implements that (`ClientImplementsConnection`): so manager and client fit together.

`Hooks_proofs` proves, for any goroutines that call `Trigger`, hooks and results
of commands, from `HooksAssumption`:

| Theorem | States |
|---|---|
| `HooksTypeCorrect` | `[]TypeOK` |
| `HooksRunInOrder` | `[]HooksInOrder` |

The invariant follows one call of `Trigger` through the list it has copied: the
hooks before its position that match, and no others, have run, in their order,
and each of them has said to continue (`RanBefore`). `Register` and `Clear` change
the list of the executor, not the copy, and a call touches no record but its own.

`Decisions_proofs` proves, for any evaluators and lists of rules, from
`PermissionAssumption`:

| Theorem | States |
|---|---|
| `PermissionTypeCorrect` | `[]PermissionTypeOK` |
| `EvaluateIsAtomic` | `[]OneConfigurationDecides` |

The part that makes it inductive, `CopySeen`, says that mode, rules and callback of
a running `Evaluate` were in force together, and that the rules it has passed do
not decide.

It proves for all durations, factors and limits, from
`RetryAssumption` (durations and factors are not negative, `RetryAfter` may be):

| Theorem | States |
|---|---|
| `RetryTypeCorrect` | `[]TypeOK`: no duration is negative |
| `WaitsAreBounded` | `[]WaitsBounded` |
| `RetriesAreCounted` | `[]GivesUpAtTheLimit` |
| `OnlyRetryable` | `OnlyRetryableRetried` |

A bound on `wait` is not inductive without one on `backoff`, which `RetryAfter`
may lift above `MaxBackoff` for one wait and `Grown` brings down again
(`BackoffBounded`); attempts and calls are tied at each point of the loop
(`Counted`), and the error that started a wait is one to retry (`Justified`).

And it proves of `Decisions`, from the assumptions of the four parts:

| Theorem | States |
|---|---|
| `DecisionsTypeCorrect` | `[]DecisionTypes` |
| `HooksOfDecisionsInOrder` | `[]HooksInOrder` |

Both rest on a lemma, `PartsRunAlone`: `DecisionsSpec` implies the specification of
each part, so the results about a part alone hold of the composition that TLC
explores. It says nothing of the code.

Model-checked only: liveness (`CloseEndsProcess`, `ExitClosesChannels`,
`ConnectCompletes`, `MethodsReturn`, `QueryReturns`, `CallsReturn`, `StreamEnds`,
`TimeoutEndsHook`), since the prover knows neither fairness nor `ENABLED`. Every
invariant and every action property of the passing runs, and every
implementation of an abstract specification, is proved. `NothingLost`,
`ResultComplete` and `HooksInOrder` are stated by what is in which place and in
which order, and not by filtering a sequence, because the library filters
recursively and the prover cannot unfold that.

## The plan

1. Done: `ControlProtocol` and `Retry`, `SubprocessTransport`, `Client`, `Query`,
   `MCPClient` over `StdioTransport` and `HTTPTransport`, `MCPManager`,
   `Permission`, `Hooks`, and the proofs above.
2. Left to model: `Hooks` under `Client.Send`, whose `UserPromptSubmit` hook runs
   with `mu` shared and must not call a method that takes it alone; `Connect`
   after `Close` and a second `Connect`.
3. Left to prove: of the safety of the runs nothing. What is modelled next needs
   its own invariants: the lock that a hook under `Client.Send` runs with, and
   a second `Connect`.

Not modelled, and why. A client, a transport or an MCP client that is connected
twice: each is bounded to one `Connect`, which is how `Connect`, `Query` and the
MCP manager use the layer below. `Errors()` of the handler is created and closed
and never written. `stderr` of an MCP server is a pipe nobody reads. The
reconnection and retry of `docs/design/features/mcp-integration.md` are not in
the code. `BuildCLIConfig`, the getters and the lists of the manager and the SDK
server only read and are left out, as are `ExponentialBackoff`,
`AddJitter` and the other predicates on errors, which nothing in the SDK calls.
Options and session helpers are records, and the examples are programs without
behaviour of their own. `Options.Hooks`, apart from `UserPromptSubmit`, and the MCP
servers of the options are read by nothing that talks to the CLI, so the client
model has no such callbacks; `ControlProtocol` has them, registered through its
setters.
