# Verification of the Wyoming C Satellite

TLA+ models of the satellite library (`lib/`), TLC runs on small instances and
TLAPS proofs of their invariants. Paths are those of the repository, without
the leading `src/`.

## 1. The system

A satellite is one process with one instance of the state (`wsat_priv`) and
these threads: the *server thread*, inside `wsat_run`; any number of
*microphone threads* that call `wsat_mic_write_data`; any number of *wake-word
threads* that call `wsat_wake_detection`; anyone may call `wsat_event_send` and
`wsat_stop`.

| component | source | state | operations |
|---|---|---|---|
| life cycle | `lib/satellite.c` | component table, `mode` | `wsat_init`, `wsat_run`, `wsat_stop`, `wsat_destroy`, setters |
| server loop | `lib/satellite_server.c:57` | `stop_requested`, `sockfd`, `connfd`, the local `connfd` and `ret` | accept, publish, read, handle, close, clean up |
| event sending | `lib/satellite_server.c:214,249` | `send_mutex`; per call the copied descriptor and the bytes sent | `wsat_event_send`, `wsat_send_all` |
| event decoder | `lib/satellite_event_decoder.c` | buffer, `state`, `wip_evt`, `payload_received` | reset, get, advance, next, free |
| dispatch, handlers | `lib/satellite_event_handler.c` | none | `wsat_event_handle`, `handle_*` |
| always-stream mode | `lib/satellite_mode_always_stream.c` | `is_streaming` | init, destroy, events, system events |
| wake-stream mode | `lib/satellite_mode_wake_stream.c` | `is_streaming`, `is_paused` | init, destroy, events, system events |
| microphone and wake word | `lib/satellite_component.c` | none | `wsat_mic_write_data`, `wsat_wake_detection` |
| sound output | user's component; `example/main.c:77` | user's; an open file | `SND_AUDIO_START`, `_DATA`, `_END` |
| example program | `example/main.c` | the threads, `mic_enabled` | `main`, the terminal and microphone threads, the components' functions |

How they interact. The server thread reads bytes into the decoder, calls
`wsat_event_decoder_next` until it returns 0 and hands each output to the mode,
which calls the default handler first; handlers answer with `wsat_event_send`
on the same thread. Microphone and wake-word threads go through the mode, which
looks at its flags under its own mutex and sends after releasing it.
`wsat_event_send` copies `connfd` under `state_mutex`, releases it, then holds
`send_mutex` while the pieces of the event go out. `wsat_stop` only sets
`stop_requested`, which every loop looks at after its `select` timeout.

What is hard here, and hardly reached by a test: a descriptor used after the
connection was closed and its number given out again; three kinds of threads
sending events in pieces; a peer that stalls, vanishes or cuts the bytes
anywhere; a stop at any moment; the decoder's position, counters and ownership
of JSON across calls and malformed input; flags that are read and then used
outside their lock; components that fail, are changed or are called while
`wsat_run` brings them up or down; handlers that run once per chunk instead of
once per event. `PROJECT.json` lists each hazard at its line with the
property that covers it.

What makes each part correct:

* server loop: what is published is open, no descriptor leaks, an answer
  reaches the peer that asked, a stop ends the server;
* event sending: a peer receives whole events, never two mixed;
* decoder: what the peer sent comes out in order and once, whatever the cuts;
  no malformed input overflows, desynchronises or leaks, except where stated;
* modes: no audio outside a stream (but for one chunk in flight), one
  `run-pipeline` per stream and before its audio;
* life cycle: what was initialised is destroyed once, on every path; no thread
  outlives its run; a mode is used while it exists; `wsat_run` returns;
* dispatch: every request is answered, every byte of audio reaches the sound
  component once and in order, however the decoder cut the payload.

## 2. The modules

| module | what it is |
|---|---|
| `SatelliteServer` | server loop, event sending, peers, `wsat_run`/`wsat_stop` |
| `SatelliteServerProofs` | its theorems |
| `ServerStop` | `SatelliteServer` with the history of the requests to stop |
| `Connection` | abstract: what the server and `wsat_event_send` promise senders and peers |
| `ServerConnection` | `SatelliteServer` with the history that shows it implements `Connection` |
| `ServerConnectionProofs` | the theorem that it does |
| `EventStream` | abstract: what the decoder promises |
| `EventDecoder` | the decoder under the server's read loop; implements `EventStream` |
| `EventDecoderProofs` | its theorems for any bytes |
| `EventSender` | what a sender of whole events puts on a connection |
| `EventSenderProofs` | the theorems about the decoder on such connections |
| `Streaming` | both modes and their threads, over `Connection` |
| `StreamingProofs` | its theorems |
| `Lifecycle` | `wsat_init`, setters, `wsat_run` with the component table, `wsat_destroy`, and the threads of a program like the example |
| `LifecycleProofs` | its theorems |
| `Dispatch` | `wsat_event_handle` and the default handlers over the outputs of `EventStream`, with the example's sound component |
| `DispatchProofs` | its theorems |
| `MCServerConnection`, `MCEventDecoder`, `MCEventSender`, `MCStreaming`, `MCDispatch` | symmetry, streams, header fields and conversations for TLC |

How they fit. `EventDecoder` implements `EventStream`, and `Dispatch` is built on
`EventStream` (`Stream == INSTANCE EventStream`): its `Handle` is a step of
`Stream!Output` with what the handlers do. In the same way `SatelliteServer`
implements `Connection`, and `Streaming` is built on `Connection`
(`Link == INSTANCE Connection`): its steps of the connection are those of `Link`
with what the modes do. So each of the two abstract specifications stands between
two components, implemented by one and used by the other. `Lifecycle` takes from
`SatelliteServer` that a handler returns once `wsat_server_run` has returned
(`EndFreesSenders`; after a stop even before, `StopFreesSenders`), and gives
`SatelliteServer` the place where it runs (`Serve` to `ServeEnd`).

Each module has a section of "plausible slips": variants of its actions that a
property must catch. They are no part of the specification.

### SatelliteServer

`pc` is the place of the server thread in `wsat_server_run`: `init` (components
are being initialised), `setup` (67-108), `accept` (115-140), `publish`
(142-145), `read` (147-181), `handle` (182-198), `close` (199-203), `cleanup`
(206-211). `spc[t]` is the place of thread `t` in `wsat_event_send`: `serialize`
(264-296, where memory may run out), `lock` (waiting for `send_mutex`, 298),
`check` (219), `send` (221-244), `unlock` (315-320). A region
under `state_mutex` is one step: it is short, takes no other lock and calls
nothing that blocks. `send_mutex` is held across `select` and `send`, so it is a
variable. `fdtab` is the process's descriptor table: `Accept` may return any
free number, so a number is reused as soon as it is closed. An event is
`MsgLen` pieces, one per successful `send()`; `last[c]` is the last piece that
the peer of `c` received, which is all that the properties about whole events
need. `bare` says that the event under `send_mutex` has a header without its
lengths: `cJSON_CreateNumber` found no memory for one, and nobody looked (279, 285).
The header is made in `serialize`, but matters only from `Lock` on. `cut` holds the open connections on which a send failed although they were
healthy (out of memory, say): the code keeps such a connection. `Close` ends the
connection for its peer too. Timeouts of `select` and the `EINTR` paths leave the
state as it is; the read loop's end of file, dropped connection and error are
`ReadEnd`.

`ServerStop` adds `asked`: `wsat_stop` was called since `wsat_run` began. The code has
only the flag, which may also be left over from before.

`ReadEnd` may be a zero read at any time: the peer closed, or the decoder was
full (see the finding on the decoder).

### Connection and ServerConnection

`Connection` is what is left of the server when sockets, descriptors, locks and
pieces are forgotten. There is one connection at a time (`link`). A thread takes
it (`Take`); later its event is delivered or lost. A connection that ends leaves
whoever had taken it with a stale descriptor (`Disconnect`). The peer keeps its
place in the stream of events (`clean`): only a thread with a stale descriptor can
make it lose that place, or any thread after an event was given up (`Lose`) or its
header went out without a length (`Spoil`); `MayTear` says so. All three are what
the code does: it copies the descriptor before it takes `send_mutex`, it keeps a
connection on which a send failed, and it does not look whether a length was added.

`ServerConnection` adds to every step of `SatelliteServer` what the promise is
about and the code does not record (`Remember`): `stale`, the threads inside
`wsat_event_send` that copied their descriptor before the present connection;
`heard`, whose events the present peer has received to their end; `lost` and
`clean`. `link` is mapped from the local `connfd` of `wsat_server_run` and its
peer, so a connection exists from `accept()` on, a little before other threads can
take it. A thread holds the connection from its copy of `connfd` to its last
`send()`.

### EventDecoder

The buffer is a window on the bytes of the connection: `base` bytes were
dropped, `fill` were read, `at` is `base + processed_bytes`. Every iteration of
the loop in `wsat_event_decoder_next` is one action, named for the state and
the outcome; `Compact`, `ReturnZero`, `Continue` and `Emit` are the four ways
it goes on, and the difference between the first two (whether `processed_bytes`
is applied to the buffer) matters. A JSON text is `{"B..}` with one symbol `B`
for its fields, whose meaning (`type` present, `data_length`,
`payload_length`) is the constant `Fields`; `Breaks`/`Closes` are cJSON: it
stops at the closing brace or at the first byte that does not fit. A length
that is negative, no number, or 2^32 (`Uint32`) and more is cast to `uint32_t`,
which C leaves undefined: `Word` takes any length up to just above the limit, since
builds truncate, saturate or wrap. `owned` and `leaked` follow the header and data trees from
`cJSON_ParseWithLengthOpts` to `cJSON_Delete`.

Two places lose a tree: a data object that does not parse (`"data"`, line
159) and a connection that ends within an event (`"reset"`, line 9).
`FreedOnce` says these are the only ones, and that nothing is freed twice.

`EventStream` knows only whole events: `Output(size)` lets out the next chunk
of the next event. `EventDecoder` implements it on streams of well-formed events
with junk between (`Promise`, property `ImplementsEventStream`): `events` is what
the sender put on the wire, `got` the decoder's `payload_received`, `out` the
last output.

### EventSender

The decoder cannot keep that promise for any junk between events, and
`WellFormed` says which it can. `Lines` are the places of the header lines.
Events do not overlap, nothing follows the last one, and each is one the decoder
takes: a line with a `type`, lengths within the limits, data that is an object
(`WholeEvent`). Of what lies before an event it asks two things more, each for a
line of the decoder:

* `EndsInTime`, for the size test at line 54. Wherever `{"` stands, up to the
  header of the event itself, an end of line is near enough for the decoder not
  to scratch the buffer with the start of the event in it. For the header itself
  this means a byte less than the buffer; a longer one is the finding of
  `EventDecoderLimit`.
* `LinesRefused`, for the test of the fields and the early return at line 63.
  An object on its own line that is no event is one the decoder surely refuses,
  whatever the casts of its lengths come to, and it fits in the buffer together with the next header; where it does not, we have
  the finding of `EventDecoderSkip`.

Noise without `{"` may be of any length, as may objects that break off.

### Streaming

`is_streaming` and `is_paused` are the flags of the mode that `wsat_run` chose
(`mode`). A region under the mode's mutex is one step: `MicData` reads,
`WakeDetection` tests and sets, the handlers `Resume`, `PauseSatellite`,
`EndOfSpeech` and `StartStreaming` write. `sending` is the event in a thread's
hands. To send it, the thread takes the connection or is refused (`Refuse`: nobody
is connected, or a stop is requested), and its event is delivered or lost: `Take`,
`Spoil`, `Tear`, `Deliver` and `Lose` are the actions of `Connection`, and so are `Accept`,
`PeerClose` and `Disconnect`. `open`, `starter`, `announced`, `late` and `fresh`
are history: which stream the peer asked for, who began it, what was sent after
its end, and whether the connection was accepted in silence and no event was
refused since. The events of a peer that leave the mode alone (describe, ping,
audio-*) are no steps here; they are `Dispatch`.

### Lifecycle

`pc` is the place of `main`: before `wsat_init` (`new`), between API calls
(`idle`), in one of the three parts of `wsat_run` (`init` 57-67, `serve` 68,
`cleanup` 69-78), after `wsat_destroy` (`end`), or gone with a null pointer
(`crashed`). `next` is the loop counter, `table` is `inst->components`, `slot` is
`inst->snd`, `inst->mic`, `inst->wake`; `held` counts initialisations less
destructions. Each turn of a loop is one action, since an `init_fn` or
`destroy_fn` runs in it. A microphone is the example's: `InitOk` starts its thread,
and destroying it is two steps, `StopMic` and, when the thread has ended, the join
in `Destroy`. The other threads call `wsat_wake_detection` and `wsat_stop` at any
time. A call is three steps: about to call, inside the handler of the mode that
`inst->mode` pointed to (`Enter`), and back (`Leave`); inside, it may need
`inst->mic` or `inst->wake` (`FollowNull`). The setters may be called at any time;
`steady` remembers that none was called in this `wsat_run`, and that no thread was
already inside a call when it began.

### Dispatch

A conversation is one of `Messages`; the decoder's outputs are those of
`EventStream`. `Handle` is `wsat_event_handle` with one output: `answers` counts
the answers to each event, `played` collects the payload bytes that went to the
sound component, by their place in the payload. The sound component is the
example's: `file` is `snd_out_file`, `NULL` after a failed `fopen` (`failed`) or
before any (`none`); writing to it then ends the program (`up`). `left` and
`spoilt` tell the file of an earlier connection from one of this connection that
was overwritten without `fclose`. `Reconnect` ends the connection anywhere and
tells nobody, as the code does. `AudioChunkSend` is the chunk of a microphone
thread; whether the mode lets it through is the subject of `Streaming`, so here it
always does. Which event of a peer changes which mode is in `Streaming` too.

## 3. Runs

| run | instance | shows |
|---|---|---|
| `SatelliteServer` | 2 callers, 2 connections, 2 descriptors, 2 pieces | `TypeOK`, `PublishedIsOpen`, `NoDescriptorLeak`, `AnswerStaysOnConnection`, `WholeEvents`, `NoInterleaving`, `ImplementsConnection` |
| `SatelliteServerLive` | 1 caller, 2 connections, fair | `StopEndsServer`, `StopFreesSenders`, `EndFreesSenders` |
| `SatelliteServerLostStop` | 1 caller, 1 connection, fair | violation of `StopIsHonoured` |
| `EventDecoder` | buffer 12, 11 pieces, most of them bad, before 4 others | `TypeOK`, `BufferBounded`, `PayloadAccounted`, `FreedOnce`, `ChunksContiguous` |
| `EventDecoderStream` | buffer 12, 48 streams of three events and eight kinds of junk, fair | `RoomToRead`, `ImplementsEventStream`, `AllDelivered` |
| `EventDecoderSkip` | buffer 10, a header without type | violation of `RoomToRead` |
| `EventDecoderLimit` | buffer 12, a header of 12 bytes, fair | violation of `AllDelivered` |
| `Streaming` | 2 microphones, 2 wake words, losses | `TypeOK`, `PausedIsSilent`, `AtMostOneLateChunk`, `OneStarter`, `AudioIsAnnounced`, `EventsInOrder` |
| `StreamingStale` | the same | violation of `StreamEndsWithConnection` |
| `Lifecycle` | 1 microphone, 2 sounds, 2 wake words, 1 terminal thread, fair | `TypeOK`, `DestroyedOnce`, `ModeOutlivesCalls`, `ThreadsJoined`, `NoNullWhileSteady`, `RunReturns` |
| `Dispatch` | 8 conversations, payloads of 3 bytes | `TypeOK`, `RequestsAnswered`, `SoundGetsAudio`, `WritesToAFile`, `OwnFilesClosed` |
| `DispatchChunk` | the same, microphone buffers of 1024 and 65536 bytes | violation of `ChunksWhole` |

Why the bounds are enough. The server's hazards need one connection after
another on the same descriptor number, a second number to tell a reused from an
unused one, two senders beside the server thread and an event of at least two
pieces. A
connection is used once, so two give one hand-over; a third repeats it, and the
proofs cover any number. The decoder's buffer of 12 is larger than a header (6),
a data object (5) and what announces them, and smaller than the payload (13),
so every "does it fit" comes out both ways; `read()` returns every possible
number of bytes. The junk of `MCEventSender` is one of each kind that the decoder
treats differently: no start of a header, half a start, an object that does not
parse, one that is no line, a line it refuses for its length or for want of a
type. `Uint32` is 16 in the runs, above every limit there and below the lengths of
the piece `wrap`, because TLC has no integers of 2^32. Two wake-word threads are what it takes to race test and set,
two microphone threads to show that the late chunk is per thread. Without
symmetry (the fair runs) the instances are smaller. `MaxEvents` bounds the
events decoded from one `read()`; with 1 the server thread still comes back to
`read` and `handle` any number of times. `Lifecycle` has no bound on runs: its
state space is finite as it is. One component of each kind is what the table
holds at a time; the second sound and the second wake word are there to be
exchanged for the first while it is up, and the components differ in which
functions they have and whether they count as initialised from the start. One of
the wake words has an `init_fn`, used from the second run on, since it counts as
initialised at first: it stands behind the microphone in the table, so that a
component can fail while a microphone thread is already running. The conversations of `Dispatch` are one per
case: requests with and without payload, chunks whole and cut, empty chunks,
audio without its start, started twice, cut off or started by an event whose data
is in its header; 3 bytes are the shortest payload with a chunk in the middle.
`Width` is the real 2^16.

Deadlock is checked in all runs but those of `Lifecycle` and `Dispatch`, where the
program may have ended or crashed.

Fairness. `FairSpec` of the server puts fairness on each step that nothing but the
thread itself holds up, and on no failure. The server thread starts, sets up,
publishes, handles, closes and cleans up (weak fairness); in its two loops only
`AcceptStop` and `ReadStop` are fair, since `select` returns within 250 ms and the
request is looked at: nothing makes `select`, `accept` or `read` fail, or a peer
connect, write or close. A thread in `wsat_event_send` makes its text, takes a free
`send_mutex`, checks for a stop, tries again after a timeout and unlocks (weak
fairness on each, so a mutex that is never released is not got round: `Lock` is not
enabled then, and nothing else leads out of `lock`). A `select` on a descriptor
that is closed fails: strong fairness, since `Check` and `SendRetry` alternate
there. That covers `SendFail` only while the descriptor is closed; on an open one
no send has to fail or to succeed. Lack of memory (`SerializeFail`) is never forced.
This assumes, as the code does, that `send()` after a successful `select` and
`accept()` after a successful `select` return.

`FairSpec` of the decoder: the loop runs on and the bytes that a peer has sent
arrive. `FairSpec` of the life cycle: `wsat_run` goes on (the server's return only
after a stop), a microphone thread that was told to end does, and calls return
while `wsat_run` cleans up. This last is what `EndFreesSenders` shows of the only
place where a handler waits for a peer: `wsat_run` joins the microphone after
`wsat_server_run` has returned. While the server runs no call has to return. No
fairness is put on the calls of the API. `RunReturns` says nothing of a program that
has crashed.

### What the runs found

* *A stop can be lost* (`SatelliteServerLostStop`). `wsat_server_run` clears
  `stop_requested` when it starts (line 68); a `wsat_stop` made while `wsat_run`
  initialises the components is forgotten.
* *Skipped header, full buffer* (`EventDecoderSkip`). `return 0` at line 63 of the
  decoder does not drop what was processed. A rejected header followed at once
  by a header that fills the rest of the buffer leaves no room; `read()` then
  gets 0 and the server logs "Client disconnected".
* *A header of the buffer's size* (`EventDecoderLimit`) is decoded or scratched
  depending on how it is cut (line 54).
* *A stream outlives its connection* (`StreamingStale`). Nothing raises
  `WSAT_SYS_EVENT_SAT_DISCONNECT`.
* *A long chunk is cut* (`DispatchChunk`). `payload_length` of `struct wsat_event`
  has 16 bits, the length of `wsat_mic_write_data` has 32: a buffer of 65536 bytes is
  announced and sent with length 0.

Other weaknesses are part of what the passing properties say. `WholeEvents`
excepts the start of a connection: a sender overtaken by `close()` and `accept()`
finishes its event on the next connection if the descriptor number is the same.
`NoInterleaving` allows a new event inside a broken one, because a failed send
does not close the connection. `ModeOutlivesCalls` leaves a microphone thread the
window between the destruction of the mode, which comes first in the table, and
its own join, which comes third; other threads of the program it protects only
while the server runs. `NoNullWhileSteady` speaks of a `wsat_run` whose components
nobody changes: before the first `wsat_run`, and when a setter is called during
one, null pointers are followed. `RequestsAnswered` allows an answer per chunk of a
request that has a payload. `WritesToAFile` and `OwnFilesClosed` speak of peers
that bracket their audio and put the data of `audio-start` after its header (data
inside the header is decoded but no handler looks at it), allow the crash when
`fopen` failed, which the example does not look at, and leave the file of an audio
that was cut off by the end of its connection.

## 4. Proofs

All theorems are about `Spec` (`HSpec` of `ServerConnection`), for every value of the constants, under the
named assumptions of the modules (disjoint threads, at least one piece, a
positive buffer, limits below 2^32, streams that are sequences of bytes). TLC evaluates each
assumption on the instances of the runs. Two theorems are refinements
(`Implements`, `Keeps`), all others say that something always holds.

*SatelliteServerProofs.* `IInv` is `TypeOK` and five parts. `Control`: the
descriptor of the server thread is the only open one, and the published one if
any. `Mutex`: who is between `Lock` and `Unlock` holds `send_mutex`, and outside
nothing is left of an event. `Fresh`: a connection not yet accepted has received
nothing. `SenderMatches`: a sender in the middle of its event finds its own last
piece on the connection it writes to, or one that received nothing; this is
what makes a reused descriptor harmless except at the start. `UnfinishedIsHeld`:
an unfinished event is being continued by its sender, or was given up for
`wsat_stop`, after which nobody gets to `send()` before the connection is
closed; or its connection is in `cut`. `Whole` excepts the connections in `cut`,
`Interleaving` does not need to.

*ServerConnectionProofs.* `HInv` is `IInv` of *SatelliteServerProofs* with the
parts that tie the history to the code: a thread inside `wsat_event_send` that
is not `stale` has the descriptor of the present connection (`HeldIsPresent`);
if it is in the middle of its event, the peer's last piece is its own
(`HeldContinues`); `lost` remembers every event that was given up on a healthy
connection (`CutIsLost`) and every header without a length that a thread sends
to the connection it took (`BareIsLost`); nothing is remembered of a peer that
is gone (`Forgotten`); and a connection in `cut` was accepted
(`CutAccepted`). They are what makes `clean` true: a piece that its peer does
not expect needs a sender that is stale, or an event that was given up or spoilt
(`UnexpectedIsExcused`). Of the three cases of `UnfinishedIsHeld` the stop is no excuse: nobody gets
to `send()` after it. `Keeps` maps `Accept` to
`Accept`, `PeerClose` of the present peer to `PeerClose`, `Close` to
`Disconnect`, the start of `wsat_event_send` to `Take`, its last `send()` to
`Deliver`, every way it gives up to `Lose`, `Lock` with a spoilt header to
`Spoil`, a piece out of place to `Tear`, and all else to stutters
(`StepPromised`). A sender with a reused number looks in the code's own state
like one that has just copied it; only `stale` tells them apart, which is why
the mapping needs the history.

*EventDecoderProofs.* `Window` bounds the buffer and what is awaited in each
state, `Progress` ties the payload counters to the header in progress and to the
previous output, of which `ChunksContiguous` says that the next one continues it. Together
with `FreedOnce` they are inductive over any streams of bytes and give
`Bounded`, `Accounted`, `Freed`, `Contiguous`.

*EventSenderProofs.* For the decoder on streams of whole events
(`SenderAssumption`), of any number and length, for any buffer and payload limit.
`SInv` is the invariant of *EventDecoderProofs*, `RoomToRead`, and two more parts.
`Placement` says where the decoder is: past the events that have come out and
before the header of the next one, or within the next one, at its data or the
rest of its payload, with its header in hand. `Unhurried` is about a call that
has gone past bytes it may not drop: then an end of line is still ahead, so that
this call does not return at line 63, or those bytes and the next header fit in
the buffer. `RoomToRead` alone is not inductive: without `Unhurried` the early
return could leave a full buffer. Two facts carry the proof. A candidate header
that parses and is accepted is the header of the next event (`AcceptedIsNext`):
the start found is at most that of the next header, and the decoder never goes
past that start, since an object that does not parse is left where it breaks off
(`StopsInLine`). And the data of an event is never refused (`DataNeverRefused`,
`DataAlwaysParsed`). `Roomy` follows at once. `Implements` maps every action to a
step of `EventStream` (`StepPromised`): the ones that complete a header without
data or payload (`HeaderAccepted`), a data object without payload (`DataParsed`)
or a chunk (`Payload`) to its `Output`, `Accept` to its `Connect`, all others to
stutters. No induction over bytes is needed, because the conditions of
`WellFormed` speak of one event and what lies before it.

*StreamingProofs.* `Control` ties the flag to the stream asked for, `Links` what
the threads hold to the connection, `Tickets` bounds late chunks, `Announcing`
says where the run-pipeline of a stream is, `Order` what a peer that connected
in silence, and lost nothing since, has been sent: nobody it hears then has a
stale descriptor, so by `Connection` its stream of events is never torn. Since
`SatelliteServer` implements `Connection` (`Keeps`), what `Ordered` says of events
is true of the bytes too.

*LifecycleProofs.* `Table` says what stands where in the component table (the mode
first, the microphone third, each kind in its place), `Held` that `is_init` tells
what is up, `Loops` which entries of the table can be up at each turn of the two
loops, `MicThreads` that a microphone thread belongs to the `wsat_run` that
initialised its component and calls only the mode of that run, `Left` that a
`wsat_run` left alone finds the slots and the mode it started with. With `TypeOK`
and `ModeOutlivesCalls` they are inductive; `Once`, `Outlives`, `Joins` and
`Steady` follow for any components with any of the functions.

*DispatchProofs.* `Progress` bounds the decoder's position by the conversation,
`Answered` counts answers by what came out, `Files` ties the open file to the
audio the peer has begun: with `SoundGetsAudio` they are inductive for any
conversations, payload lengths and cuts.

Only model-checked: liveness (`StopEndsServer`, `StopFreesSenders`,
`EndFreesSenders`, `AllDelivered`, `RunReturns`), which is out of the prover's reach.

## 5. Not modelled

* The text of events: JSON printing, the content of `info`, versions, names.
* The `memcpy` at `lib/satellite_event_decoder.c:194`, which moves what is left of the
  buffer to its front: the ranges may overlap, which C leaves undefined. The model
  takes it to move the bytes as `memmove` would.
* The kernel's buffers: a blocking `send()` or `accept()` after `select`.
* `cJSON` failing to allocate while parsing, and its number syntax.
* `cJSON` failing to allocate between the parts of an event being built, except the
  lengths that `wsat_event_send` adds to its header.
* The test audio that the example's microphone plays when asked to.
* Mutexes used before `wsat_init` or after `wsat_destroy`, and the mutex of a mode
  in the window that `ModeOutlivesCalls` describes: what the platform does then.
* Code under `#if 0`; its decoder tests are read as documentation.

## 6. Plan

Done, in this order: `SatelliteServer`, `EventStream` and `EventDecoder`,
`Streaming`, `Lifecycle`, `Dispatch`, each with proofs of the safety properties
that its runs check; `EventSender` with the proof that the decoder implements
`EventStream`; `Connection` with the proof that the server implements it, and
`Streaming` rebuilt on it. The plan is done; section 5 lists what is known to be
missing.
