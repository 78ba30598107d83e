# Eloquence64RS in TLA+

Models, model-checked properties and machine-checked proofs of the NVDA add-on
in `src/`: a 64-bit synth driver in Python (`src/addon/synthDrivers/`) that
drives a 32-bit speech engine (ECI) through a host process in Rust
(`src/native_host/`). Every definition is translated from the source; what it
translates is listed, by file and lines, in `PROJECT.json` under `map`.

Contents: [the system](#the-system), [the modules](#the-modules),
[the runs](#the-runs), [where documents and code disagree](#where-documents-and-code-disagree),
[the proofs](#the-proofs), [what is not modelled](#what-is-not-modelled),
[the plan](#the-plan).

## The system

    NVDA main thread          synth worker         receiver            audio worker
    speak(), cancel()         _synth_worker_loop   _receiver_loop      _run_audio
        |                         ^    |              ^    |              ^    |
        +--- synth_queue ---------+    |              |    +- _audio_queue+    +--> WavePlayer
        |                              |              |
        +---- Stop ----> command lock, NativeHostConnection
                                       |              |
    - - - - - - - - - - - - - - - - - stdin - - - - stdout - - - - - - - - - - - - - - -
                                       v              |
                                    reader          writer <-- outbound channel
                                       | work channel             ^      ^
                                       v                          |      |
                                    worker (ECI callbacks) -------+  event forwarder
                                            +--- event channel ----------^

| Component | State it keeps | Operations | Meets the others by | Hard behaviour | What makes it correct |
|---|---|---|---|---|---|
| Progress tracker (`progress.rs`) | generation, done, stopped, open indexes | begin, track, index, complete, stop | calls from the engine, under a mutex | completion runs twice for one synthesis; ECI may swallow indexes | each generation ends once; its newest index is recovered before Done |
| Host server (`server.rs`) | four bounded channels, the runtime, the stop controller | reader loop, `engine_worker`, forwarder, writer | frames on stdin and stdout, channels, joins | Stop overtakes the queue, full channels, the client disappears | no report lost, doubled or reordered; every request answered; the process exits |
| Engine wrapper (`engine.rs`) | ECI handle under a lock, cancellation flag, tracker | begin, text, index, synthesize, `eci_callback`, stop, drop | ECI calls back on the worker thread; Stop comes from the reader thread | stop against callback, completion and delete | prompt cancellation; no use after delete |
| Protocol codec (`protocol.rs`, `wire.rs`, `_eloquence_native.py`) | generation counter, open, active, cancelled | `send`, `_decode_event` | the two pipes | the active generation is shared by three threads without a common lock | leftovers open no generation; stale events dropped, valid ones not |
| RPC client (`_eloquence.py`) | `synth_queue`, sequences, pending and response tables | `speak`, `stop`, `send_command`, receiver | queues, events, the command lock | check-then-send, late responses, timeouts | a cancelled utterance says nothing more |
| Audio playback (`_eloquence.py`) | audio queue, the chunk held back, the player | `_run_audio`, stop, replacement | audio queue; NVDA callbacks on the player's thread | stale chunks, a worker replaced under way | order of audio and indexes; completion reaches NVDA |
| Synth driver (`eloquence.py`) | the voice it has queued last, text batches | `speak`, `cancel`, setters | calls RPC client; wx events | a cancellation drops what a later utterance relies on | a text is spoken in the voice it was prepared for |
| Voice parameters (`_eloquence.py`, `eloquence.py`) | `voice_params`, the variant, ECI's own values, temporary prosody | `set_voice`, `setVParam`, `setVariant`, `cmdProsody` | main thread and synth worker write one table | a snapshot restored after a wait; a pitch raised for a capital that is cancelled | user values survive prosody, changes of language and restarts |
| Profile isolation (`eloquence.py`) | a snapshot of settings per profile stack, pending changes | load, switch, preview, ring change, save, confirmation | NVDA's configuration; wx events | NVDA has changed the incoming profile before the driver sees the switch; confirmation in a later turn | no profile gets another's values, or a preview |
| Host lifecycle | process, pipes, threads, job object | start, handshake, restart, shutdown | all of the above | joins with timeouts, leftovers of the last host | no thread or process left behind |
| Dictionary profiles (`_eloquence_dictionaries.py`) | a directory per provider, its backup and staging directories, the files of older releases | `update_profile`, migration, the panel's `onSave` and `onUpdate` | files; `set_dictionary_directory` | a failure or a crash at any call of the file system | the old snapshot or the new one, never a mixture; nothing of the user's is lost |
| Engine dictionaries (`engine.rs`) | the handles per language and directory, the one in use | `activate_dictionaries` by SetParam, CopyVoice, SetDictionaryDirectory, Initialize | both threads of the client, one after the other; ECI | ECI has a handle that is deleted; a cached handle is older than the files | the dictionary of the language and profile in force |
| Assets, script conversion, text preprocessing | none | pure functions on bytes and text | calls | offsets and lengths | equals its definition |

The hazards this brings, at the line where each bites and with the properties
that look for it, are the `hazards` of `PROJECT.json`.

### Where the difficulty lies

Progress of speech goes through two threads and two channels of the host, a pipe
and two threads of the client. Cancellation runs against that stream: it
raises a number in the client (`_sequence`), stops the player, and sends a Stop
frame that overtakes the host's queue. Nothing orders the two but the Speech
Generation number in each event and the sequence in each Audio Chunk. The first
part of this project is about that stream and its cancellation.

The second is about what must outlast it: the voice, the settings of each profile, and the
dictionaries. There the difficulty is state kept twice. `_eloquence.py` keeps a
shadow of ECI's parameters which two threads write, `eloquence.py` remembers which voice it
has queued, NVDA and the driver both keep the settings of a profile, and
the engine caches what the disk may meanwhile hold anew. Each copy is right only
as long as every path that changes one side reaches the other, cancellation, restarts
and failures included.

## The modules

| Module | What it is |
|---|---|
| `ProgressTracker` | the methods of `ProgressTracker` as operators on its record, and the events they return |
| `GenerationStream` | abstract specification: what the progress of a host may look like from outside |
| `EloquenceHost` | the four threads of the host, ECI and any client at the other end |
| `EloquenceHost_proofs` | the theorems about `EloquenceHost` |
| `HostConnection` | `NativeHostConnection`: what `send` writes and leaves behind, what `_decode_event` drops |
| `SpeechPipeline` | `EloquenceHost` composed with `HostConnection` and the client threads of `_eloquence.py` |
| `SpeechPipeline_proofs` | the theorems about `SpeechPipeline`, which cite those about the host's steps |
| `AudioPlayback` | the audio worker, its player, cancellation and the replacement of the worker |
| `AudioPlayback_proofs` | the theorems about `AudioPlayback` |
| `HostClient` | `EloquenceHostClient`: its calls, the receiver, and the start, restart and end of host and synth worker |
| `HostClient_proofs` | the theorems about `HostClient` |
| `VoiceState` | ECI's voice, its shadow in `_eloquence.py` and the voice `speak` remembers, under both threads |
| `VoiceState_proofs` | the theorems about `VoiceState` |
| `ProfileIsolation` | the snapshots of NVDA's profile stacks, from their capture to their restoration |
| `ProfileIsolation_proofs` | the theorems about `ProfileIsolation` |
| `ProfileStore` | abstract specification: what the update of a dictionary profile promises |
| `DictionaryProfiles` | the directories of dictionaries: update, migration, choice |
| `DictionaryProfiles_proofs` | the theorems about `DictionaryProfiles` |
| `EngineDictionaries` | the dictionary handles of the host and the commands that move them |
| `EngineDictionaries_proofs` | the theorems about `EngineDictionaries` |
| `MCEloquenceHost`, `MCSpeechPipeline`, `MCAudioPlayback`, `MCHostClient` | scripts, utterances and operations for TLC |
| `MCLiveness` | the host with small channels, under a scripted client or under the client of the add-on |
| `MCDriver` | the four parts that keep settings, one of which moves in a behaviour |
| `MCProfileIsolation` | a base and a profile that state one setting each |

### EloquenceHost

The steps of a thread are cut where another thread can see the difference: at
each channel operation, each lock, and each entry to and exit from ECI.

- **Reader** (`server::run`). `ReaderStop` answers a Stop frame without the
  queue: it sets `cancellation_requested` (`ReaderStop`), copies the handle
  (`ReaderLoadsHandle`) and calls `eciStop` (`ReaderCallsEciStop`) in three steps,
  since the lock is released before the call. Any other command goes to the work
  channel (`ReaderQueues`), which blocks when it is full; Delete ends the loop.
  A second Hello is refused. At end of file or after Delete the reader joins the worker, then
  the writer.
- **Worker** (`engine_worker`). One action per outcome of a command, with
  `WorkerHasNoRuntime` and `WorkerHasNoGeneration` for the early returns. A
  synthesis is several steps: `WorkerSynthesizes`, then as often as ECI calls
  back `EciCallback`, a handler, `WorkerTriesSend` and `CallbackReturns`, then
  `EciSynchronized`, `WorkerFinishes` (stop or complete), the final events, and
  `WorkerEndsSynthesis`. Events are offered with `try_send`: a refusal aborts.
  The end of the thread drops the engine, then joins the forwarder.
- **Forwarder and writer**: a receive and a send each, and the failure
  of a thread whose channel or pipe has closed. The writer's frame stays in the
  channel until the pipe has room, which lends the channel one place less than
  it has while the writer waits.
- **ECI** is external. From its use in the code and from the engine manual in
  the repository: texts and indexes gather in an input buffer, `eciSynthesize`
  takes them over, `eciSynchronize` delivers them in order to the callback,
  trailing indexes may never be called back, an aborted callback and `eciStop`
  clear both buffers, and any fallible call may fail (`EciResults`).
- **The client** is any program that speaks the protocol: it writes frames
  while the pipe has room, reads them, and may close both pipes at any moment.

`emitted`, `heard`, `answered`, `stopped` and `latest` are history variables; no
action of the host reads them. `SetVoiceParam` stands for all the commands that
only touch ECI's state; it is answered with success, for their errors (`server.rs:142-188`)
change nothing but the answer. Left out is a frame that cannot be read, which ends the
reader's loop (`server.rs:231`), or decoded, which it skips.

### GenerationStream

The promise of ADR 0002 for one host: generations are reported in rising order,
audio and indexes of a generation come before its Done, there is at most one
Done and at most one Stopped, and Stopped is the last. The refinement mapping
reads the state of the stream off the newest report (`ReportedGeneration`,
`ReportedPhase`), and counts the reports, so that a Done made twice is
a step the promise forbids and not a stutter. Both reports of one generation are possible: the final index callback
completes it, and a Stop comes before `eciSynchronize` returns.

### SpeechPipeline

The free client of `EloquenceHost` is replaced by the add-on's: `Speak`,
`Cancel` and `SendStop` on the main thread; `SynthGets`, `SynthPrepares`,
`SynthChecks`, `SynthSends`, `SynthAnswered` and `SynthTimesOut` on the synth worker;
`ReceiverReads`, `ReceiverClears`, `ReceiverTags` on the receiver. The command
lock makes `Sends` one step: the frames are written one by one, but no other thread sends in between. The comparison of `_active_generation`, its clearing
and the reading of `_current_seq` are separate steps, because they hold no lock
in common with the writers of these fields. `owner` and `stopSent` are
history variables. A program of commands may be any but for BeginGeneration, which only
`send` itself writes; `MaxGenerations` bounds what is begun, and the utterances of the runs end
before it.

A chunk may be tagged with the sequence of the utterance that follows its own, since the
receiver reads `_current_seq` after it has checked the generation. `Mistagged` is the
set of such chunks; `StaleChunksBounded` says how far this goes: a cancellation lets one
chunk pass at most, the one the receiver has decoded when Stop is sent.

### AudioPlayback

One action per blocking call or unlocked read of `_run_audio`: take, check
against `_sequence`, feed, report, drain (`sync` or `idle`), notify. `pending`
is the chunk held back, `player` the buffers of the WavePlayer with the
callbacks that ride on them. `StopsPlayer`, `StopsWorker` and
`ReplacesWorker` are the main thread's cancellation and restart. A chunk carries
the sequence of its own utterance here; that the receiver may tag it otherwise is
a matter of `SpeechPipeline` (`StaleChunksBounded`). The join of the old
worker, which the code gives one second, is assumed to complete. Pause is
left out, and a feed that is blocked when its worker is stopped drops its chunk, which is stale, where
the code's feed ends.

The stale check is made when a chunk is *taken*, not when the chunk held back
is fed. A chunk of a cancelled utterance can therefore be fed, and heard, after
the stop when the cancellation falls between the two. This is why
`PlaybackInOrder` speaks of entries that are not `late`. `UtterancesInOrder` makes no such
exception: what is late still comes before all that is logged of the utterances behind it.

### HostClient

An operation of NVDA's main thread is a list of steps (`Initialize`, `Shutdown`,
`SetSampleRate`, ...), which `todo` holds; a step is an action, or a call of
`send_command`. The calls are shared with the synth workers: `CallBegins`
(register, under the command lock), `CallSends` or `CallFails` (the write, which
ends the lock), then `CallCollects`, or `CallTimesOut` and `CallGivesUp`, two steps
between which the answer may still arrive. Each process has a receiver of its own, with the
steps between which a caller can see the tables: take, store, set; at the end of the
stream copy, fail, clear. `stopWorker`, `putNone` and `joinWorker` are
`_stop_synth_worker`; between the first two an idle worker may leave by the stop event and leave
the None to its successor.

What the host does is external: it answers its requests in order, dies, or is wedged
in ECI and reads no more. So are three facts about threads and pipes: a write blocks while
the pipe is full (`HasRoom`), closing a BufferedReader waits for a read in progress
(`ClosesConnection`), and a join that times out has waited for something that is blocked,
not for a thread that has steps to take. The last is a matter of scale, seconds against
the steps of a running thread; without it no statement about a join with a timeout holds.

`overlooked` is history: the calls a receiver unregistered at the end of its stream without having
copied them (`_eloquence.py:374-377`). The last host's receiver may do this to a call on the
next host, registered between its copy and its clear; the caller waits for its five
seconds, and a synth worker that waits so outlives the join of one second and goes on beside its
successor. `SoleSynthWorker` excepts that, and `WorkersTakeTurns` shows that nothing else leads there.

Left out: a receiver that ends by an exception of its own, a failure of `initialize_audio`
(`_eloquence.py:615`), whose cleanup is that of the other failures, the audio part of
`shutdown` (`AudioPlayback` has the worker's replacement), and the commands of one utterance,
which are one call here.

### VoiceState

A thread, NVDA's main thread or the synth worker, is a list of commands (`program`)
and how far it is in the first (`phase`). The commands are what `speak` and the settings
send: `prosody` is `cmdProsody` (read the base, send the temporary value), `setVoice` is
`set_voice` (read the base, send the voice, restore the base, send it), `set` is
`setVParam` or `setVariant` (send, and take the answer for the base), `text` an `addText`.
`note` and `adopt` are what the main thread remembers when its commands are done. The cuts
are where the lock of `send_command` is given up, so that the other
thread's commands come between. The worker looks for a cancellation before each command.

`Speaks`, `SpeaksNothing` (indexes only, run on the main thread), `Cancels`, `Halts` (the
stop of `set_dictionary_directory` and `set_presence_contour`), `ChangesVoice`,
`ChangesPitch` and `RestartsHost` are what NVDA asks. An utterance starts with a reset of its
parameters and, when the voice that `speak` remembers is not the default one, a `setVoice`; it
is text, text in another language, or a capital letter between two changes of pitch.
The pitch stands for the nine parameters: each is read, sent and restored the same way. A language
change in a sequence of indexes only (`eloquence.py:1378`) is left out.

`overtaken` and `overlapped` are history, and name the two exceptions of the properties: a
change of the voice or a stop that the driver does not know of, behind the back of unfinished
utterances; and a setting that is made while the worker is inside `set_voice`.

### ProfileIsolation

NVDA's raw profiles are `layers`, with the active ones in `stack`; `snapshots` is
`_profile_settings_by_stack`. A switch is three steps, in between which other code of the driver sees the
state: NVDA activates the stack (`Switches`, which may put the outgoing driver's values into
the incoming layer), loads the settings (`Load`), and calls the driver's handler
(`HandlesSwitch`). The user turns the settings ring (`RingChange`), changes a
control of the voice panel (`Preview`), applies (`Save`) or cancels (`Reloads`). The
confirmation that `wx.CallAfter` is given for each change is `Confirms`. The two
settings are the variant and the pitch: setting the first brings a value of the second.

Two assumptions are made of NVDA and wx. What is queued with `CallAfter` runs before the
next event of a dialog, which takes a user's hand. And a layer is contaminated only when its stack could be
preloaded or has been seen: the driver cannot know what a stack of three profiles
stated before it sees it for the first time, and takes what it finds.

`ProfileRestored` is about the settings that a profile of the stack, or the user, states for it
(`kept` is not `Missing`). Of the others the snapshot says nothing, and `_apply_profile_snapshot` and
`_sync_profile_snapshot_to_config` (`eloquence.py:406-458`) leave them as NVDA has put them, another profile's
value included. What the comments promise of those is `NoCrossedValues`, which does not hold
([disagreement 6](#where-documents-and-code-disagree)).

### DictionaryProfiles and ProfileStore

A directory is the set of its files, each with its version. Every call of the file system
that can raise is a step, so that the update is: download, write file after file, compare,
remove the old backup file after file, set the old directory aside, install, drop
the backup; `UpdateFails` at any of them goes to the code's handler (`PutsBack`, `CleansUp`),
and `Ends` is the end of NVDA, which may come before the configuration was saved.
`Moves` is one file of a migration, which may stop at any.

`ProfileStore` is the promise: a whole snapshot that is replaced in one step or not at all. It
has to allow for one thing more. An end of NVDA between the two renames leaves the snapshot under its backup
name, where no code looks for it and which the next update removes: `Strand` and `Lose`.
`ImplementsStore` therefore also says that nothing else loses a snapshot.

### EngineDictionaries

`handles` is the cache, with the version of the snapshot that was installed when the handle
was made; `active` is the dictionary ECI uses. `Activated` and `NotActivated` are the two
outcomes of `activate_dictionaries`: the handle of a reload is removed before the new one is
made, and a failure leaves it so. That `eciDeleteDict` takes a dictionary out of use is an assumption about
ECI, the one the comment at `engine.rs:436` makes; the "in use" half of `EngineTypeOK` rests on it. The directory and the language are noted before the activation, in the
code and here, so that a failed choice is in force at the next change of language.

## The runs

| Run | Instance | What it asks | Result |
|---|---|---|---|
| `host_safety` | free client with 3 requests of 8 kinds and a generation from the start of the host; five scripts from the state after Initialize; ECI may fail; event channel 2, work 2, outbound 1, pipes 2 | types, order, promptness of Stop, one answer per request, the last index before Done, completion reported, refinement of `GenerationStream` | holds |
| `liveness` | every channel with one place, pipes with two; two short scripts, or two utterances and one cancellation of the add-on | every request is answered, a request the synth worker waits for among them; the host exits when the client is gone | holds |
| `pipeline` | two utterances, one cancellation, one late response; every channel with one place, pipes with two; ECI calls succeed | one completion per generation in order, no generation begun after its Stop, the sole generation completes unless the event channel refused a report, a generation speaks its own text if nothing was cancelled, a cancellation lets at most one chunk carry the tag of the utterance behind its own | holds |
| `playback` | three utterances (an index on a chunk, two without one, one utterance without a completion, one that begins with an index), player of two buffers, one cancellation or restart | order within and between utterances, and every utterance finishes | holds |
| `client` | three sequences of operations over the lives of two hosts; one host dies or wedges at any point, one answer or greeting is later than its timeout; pipe 2 | every woken caller finds its answer, every call returns, every operation ends, no process and no second synth worker is left | holds |
| `driver` | one of four: two files and two snapshots; two languages, two providers with two snapshots each and one failure; three stacks of three profiles and three changes; two voices, two pitches and four requests | nothing temporary becomes the saved state, a text in its own voice and without another's pitch, the user's last choice in force, no profile with another's settings, whole snapshots and no file lost over failures and crashes, the dictionary in force | holds |
| `dictionary_stale` | two languages, two providers | after an update every language uses it | violated |
| `pipeline_completion_lost` | two utterances, no cancellation | every generation completes | violated |
| `pipeline_text_stale` | two utterances, one cancellation | audio renders its own utterance's text | violated |
| `playback_late_notice` | two utterances, one cancellation | no notification of a cancelled utterance | violated |
| `profile_crossed` | a base that states a variant, a profile that states a pitch; no changes | configuration and engine agree, and nothing of another profile's is left in a layer | violated |
| `client_wedged` | one host is wedged, no late answers | a shutdown ends with no host | violated |

### Bounds, and why they are enough

- `MaxRequests`, `MaxGenerations`: the scripts end before them. Two generations
  are needed for anything about displaced or leftover work, and the tracker
  remembers no more than one. The five scripts are the client's possible
  encounters: two utterances in a row; a Stop at any point of one; a Stop between
  two; text left over behind a Stop; Delete inside a generation. The
  client may close both pipes at any state of each. The free client covers every other
  short protocol sequence, illegal ones included, from the start of the process.
- Capacities 1 and 2 instead of 64 make full channels the common case. The
  event channel holds 2 so that an index and its Done can be accepted or the
  second refused; 1 in `pipeline`, where even a plain utterance may meet a full channel. That nothing depends on these values is what the theorems show for
  the properties that are proved.
- One index besides the final marker is enough, since the properties look at the
  newest index of a generation. `MCSpeechPipeline` sends what `speak` sends for a plain
  utterance: a text, the final marker, Synthesize.
- `MaxCancels = 1`, `MaxTimeouts = 1`, `MaxRestarts = 1`: an actor that is
  overtaken twice behaves as one that is overtaken once, for it keeps no record of it
  beyond the newest sequence.
- `client`: `Comeback`, `Restart` and `Calls` bring together what shares state in time:
  the end of a driver and its return, with utterances still queued; a host replaced
  while the synth worker, which a restart does not stop, waits for the old one; calls of
  two threads at one host. Two hosts, since the tables are shared by
  the last one and its successor, and two synth workers for the same reason. A pipe that holds two
  requests lets Delete follow a Synthesize that is not yet answered, or fill up behind it.
  `MaxFaults` and `MaxTimeouts` are one each, but an answer that nobody can give any
  more costs no timeout, so that every call may fail that way.

- `driver`: the four parts share no variable, so that their product has no behaviour that
  the four do not have alone; `part` chooses one, and TLC looks at the sum of
  their states. Their bounds:
  - two files, the second of which is missing in the second snapshot, so that a mixture of
    the two can be told from either; the number of updates, failures and crashes has no bound.
  - two snapshots of a provider and two languages are what a handle needs to be stale; one failure
    (`MaxFailures`) leaves a state from which every later activation either succeeds or meets
    what the first found.
  - a stack of the base, of a profile on it, and of two; each profile states one setting, so that
    a stack inherits, overrides and leaves open. Three changes (`MaxChanges`) are a preview, one that must not be confirmed for it, and
    a save; switches, loads and confirmations have no bound.
  - four requests (`MaxOperations`): an utterance that leaves something behind, what cuts it short,
    what comes in between, and an utterance that would meet it. The theorems about `VoiceState`
    hold for any number.

Deadlock is checked in every run but those of `HostClient`: their scripts end, and a
wedged host blocks the main thread for good; `OperationsEnd` and `CallsReturn` say where the
system may stop. In the others the only states without a further step of
their own are the exit of the host (`Terminated`) and complete rest (`AtRest`).

### Fairness

`liveness` assumes that each thread keeps being scheduled (weak fairness per thread, a
thread blocked on a channel being disabled) and that the client keeps reading
its pipe until it closes it; the receiver of the add-on is a loop that does
nothing else. `MCLiveness` puts either client at the other end of the pipes: a scripted one, which may close at
any point, or the add-on's. Nothing is assumed of NVDA, which need not speak or
cancel, and nothing of time: the five second timeout has no fairness, so a response
may not owe its arrival to it. ECI's fairness is in the worker's: `eciSynchronize`
returns after finitely many callbacks. `playback` assumes that the device plays what it holds.

`driver` assumes no fairness: NVDA and the user may stop asking at any time, and all its properties
are about what has happened.

`client` assumes that threads run, that a host which is neither dead nor wedged answers
in the end, and that a timeout is part of the thread that waits: `event.wait(5)` and `join(1)`
return, which is what the code relies on. Faults have no fairness.

### The conditions the properties carry

- `LastIndexBeforeDone`, `CompletionReported` and `SoleGenerationCompletes` except a generation of which the
  event channel refused an event (`latest.lost`). `try_send` on a full channel of
  64 aborts the synthesis and refuses the completion behind it too; the synthesis is
  then answered with an error. ADR 0002, line 73, makes no such exception, and a
  client whose pipe is stuck long enough to fill 64 places meets it.
- `SoleGenerationCompletes` and `OwnTextWithoutCancel` are checked and proved for ECI calls that succeed. An
  `eciSynthesize` that fails leaves its texts in ECI's buffer, for the next generation to
  speak, and its own generation without a completion.
- `OrderRetained` holds while the writer and the forwarder run. Once the client has closed
  the pipe, nobody reads what is dropped.
- `EveryRequestAnswered` says that the set of unanswered requests empties again; the requests of a run are
  bounded, so that is the same as an answer to each.
- `OperationsEnd` and `CallsReturn` except a wedged host, or its full pipe. That exception is
  the disagreement 5 below.
- `SoleSynthWorker` excepts a call that a receiver has `overlooked`: then the old synth worker does outlive its
  join. `OwnVoice` excepts what was `overtaken`, `LatestSettingWins` what was `overlapped`,
  `SnapshotsKept` and `ProfileRestored` a setting whose confirmation a switch came before
  (`unsettled`), `DictionaryInForce` and `UpdateTakesEffect` an activation that failed. `ImplementsStore` allows
  the stranding of a snapshot and the loss of a stranded one.
- `SnapshotsKept` and `ProfileRestored` except the settings that nobody states for a stack (`kept` is `Missing`).
  What may happen to those is the disagreement 6.

Each exception is what the code does there, not a gap of the model: the property says that the failure happens in no
other way. Where a hazard of `PROJECT.json` is itself the excepted case its note says so, for such a property does not
catch it: the full event channel, the overlooked call, the setting made during `set_voice`, the stop the driver
does not know of, the failed activation and the stranded snapshot. That the receiver may clear the generation
of the next utterance is seen by `EveryGenerationCompletes`, in the run of disagreement 1.

## Where documents and code disagree

Each is a run that TLC ends with a counterexample; `findings` in `PROJECT.json`
quotes the line.

1. **A completion may be dropped** (`pipeline_completion_lost`). ADR 0002:73:
   "Completion is reported exactly once for each accepted Speech Generation." The response to
   Synthesize goes to the outbound channel directly (`server.rs:352`), its Done goes
   through the forwarder. If the response is first, the synth worker sends the next
   utterance, whose first text changes `_active_generation`; `_decode_event`
   then drops the Done of the utterance before.
2. **A leftover text may be spoken** (`pipeline_text_stale`). Release notes
   v19.1.3-RS, lines 11-13: "Leftover addText from a cancelled item can no longer become a
   new utterance." It can no longer begin a generation, and `NoGenerationAfterStop`
   holds. But a text that the host executes after the `eciStop` of a Stop that overtook
   it stays in ECI's input buffer, which `begin_generation` does not clear.
3. **An update may not reach a language** (`dictionary_stale`). README.md:117-119: "Selecting
   **Download or update dictionary** activates the chosen profile immediately". A reload
   drops the cached handle of the language that is spoken at that moment (`engine.rs:434`). A language
   that was spoken before keeps its handle, with the old entries, until the host is restarted.
4. **A cancelled utterance may still notify** (`playback_late_notice`). ADR 0002:76-77:
   cancellation "prevents stale completion from advancing NVDA". `player.stop()`
   ends the `sync()` or `idle()` in which the audio worker waits, and the worker goes on to
   notify: it looks at `_stopping`, which a cancellation leaves alone.
5. **The last resort is not reached** (`client_wedged`). `_eloquence.py:518` says of
   the `terminate()` behind it: "This is the last-resort path for a native host wedged in ECI."
   Before it, line 514 closes the connection, its reader included. With a wedged host the receiver is
   blocked in a read of that reader, and `close` waits for it: NVDA's main thread hangs, in
   `initialize`, `terminate` or `set_sample_rate`.
6. **A crossed value may stay** (`profile_crossed`). `eloquence.py:453-455`: "The engine and NVDA's aggregated
   configuration must agree. Otherwise an audio-device-driven synth recreation can look correct for the
   rest of the session while NVDA later writes the crossed values to disk on shutdown." What is
   applied and written back is what the snapshot contains. The base states a variant and no pitch, a profile states a
   pitch; NVDA switches back to the base and puts the profile's pitch into the base's layer. `HandlesSwitch`
   restores the variant, which brings its own pitch to the engine, and leaves the layer: the configuration
   holds the profile's pitch, which NVDA will write into the base's file, and the engine speaks with another.

What the models showed besides, of which no document says otherwise: `OwnVoiceAlways`, `OwnVoice` without
its exception, does not hold (a text may be spoken in the voice of an utterance that
`set_dictionary_directory` has dropped); an error of the last removal in `update_profile`
comes after the new snapshot is installed, which the panel then does not activate
(`eloquence.py:992`); a change of the settings ring is taken back when a profile switch comes
before its confirmation (`eloquence.py:1196`); a chunk of a cancelled utterance may carry the next one's
sequence (`Mistagged`). One more goes against a docstring: `update_profile` shall "atomically replace one provider
profile" (`_eloquence_dictionaries.py:114`), and an end of NVDA between its two renames leaves no profile but
a backup nobody looks for (`Strand`, `Lose`). It is part of what `ProfileStore` has to allow, and has no run of its own.

## The proofs

Eight modules hold theorems, each for every value of its constants that meets the named assumptions.

`EloquenceHost_proofs` assumes `CapacityAssumption`, `BoundAssumption`, `IndexAssumption`, `EciAssumption` and
`ClientAssumption`: capacities of at least one, any bounds, any indexes, any
failures of ECI, and a free client. `EngineDictionaries_proofs` assumes `EngineAssumption`: any languages
and providers, any number of snapshots and failures. `DictionaryProfiles_proofs` assumes
`ArchivesAssumption`: any files, and one or more archives that each select some of them.
`VoiceState_proofs` assumes `VoiceAssumption`: any voices (None is not one of them) and values, any number
of requests.
`SpeechPipeline_proofs` assumes those of the host and `ProgramAssumption`: any programs of commands. Two of its
theorems name two further hypotheses in their statements, `UtterancesEnd`, which `MCSpeechPipeline` has TLC evaluate on
its instance (`UtteranceAssumption`), and `EciResults = {TRUE}`; they are explained below.
`AudioPlayback_proofs` assumes `StreamAssumption`, `PlayerAssumption` and `CancelAssumption`: any streams of
chunks, a player with room for one buffer at least, any number of cancellations and restarts.
`HostClient_proofs` assumes `HostClientAssumption` and `ScriptAssumption`: any number of hosts, synth workers, faults and
timeouts, and any sequence of NVDA's operations. `ProfileIsolation_proofs` assumes `ProfilesAssumption`: any
layers and stacks, any values.

| Theorem | States | Inductive invariant |
|---|---|---|
| `TypeCorrect` | `TypeOK` | itself, in six named parts |
| `LiveWorker` | `ReaderUsesLiveWorker`: while the reader may queue or call `eciStop`, the engine is not deleted | with `DeleteEndsReading` |
| `StreamImplemented` | `ImplementsStream`: refinement of `GenerationStream` | `StreamInv`, over `TypeOK` |
| `CompletionsAreReported` | `CompletionReported` | `ReportInv`, over `OutgoingInStep` |
| `LastIndexIsReported` | `LastIndexBeforeDone` | the same |
| `StopsEndGenerations` | `CancellationIsPrompt` | the same |
| `ProgressKeepsOrder` | `OrderRetained` | `LineRetained`, over `TypeOK` and `QueuesBounded` (lemma `Bounded`) |
| `RequestsAnsweredOnce` | `AnsweredOnce` | `RequestInv`, over `TypeOK` |
| `PipelineTypes` | `PipelineTypeOK` | `PipelineInv` |
| `CompletesOnce` | `OneCompletion` | `HeardBefore`, in `PipelineInv` |
| `FewStaleChunks` | `StaleChunksBounded` | `Counted`, in `PipelineInv` |
| `StopsBeginNothing` | `NoGenerationAfterStop` | `Guarded`, in `PipelineInv` |
| `SpeaksItsOwnText` | `OwnTextWithoutCancel`, if `UtterancesEnd` and no ECI call fails | `CleanInv`, over `Dated` and `PipelineInv` |
| `SoleIsCompleted` | `SoleGenerationCompletes`, under the same hypotheses | `SoleInv`, over `CleanInv` |
| `EngineTypeCorrect` | `EngineTypeOK`: one handle for a key, and the dictionary in use is one of them | itself, over `CacheOK` |
| `DictionaryAlwaysInForce` | `DictionaryInForce` | with `EngineTypeOK` |
| `UpdatesTakeEffect` | `UpdateTakesEffect` | `EngineTypeOK` |
| `DictionaryTypeCorrect` | `DictionaryTypeOK` | `DirectoriesInv`, `MigrationInv` |
| `AlwaysInstalledWhole` | `InstalledWhole`: a profile holds a whole snapshot or nothing. No run checks it: `ImplementsStore` says more | `DirectoriesInv` |
| `LegacyAlwaysKept` | `LegacyKept` | `MigrationInv` |
| `StoreImplemented` | `ImplementsStore`: refinement of `ProfileStore` | `DirectoriesInv` |
| `VoiceTypeCorrect` | `VoiceTypeOK` | `VoiceTypeInv` |
| `ProsodyNeverLeaks` | `NoLeakedProsody` | `ProsodyInv`, over `VoiceTypeInv` |
| `LastChoiceKept` | `LatestSettingWins` | `SettingInv`, over `VoiceTypeInv` |
| `VoiceIsOwn` | `OwnVoice` | `VoiceInv`, over `SettingInv` and `VoiceTypeInv` |
| `PlaybackTypes` | `TypeOK` of `AudioPlayback` | `TypeInv` |
| `UtterancesDoNotOverlap` | `UtterancesInOrder` | `Order`, over `TypeInv` |
| `PlaybackKeepsOrder` | `PlaybackInOrder` | `PlaybackInv` |
| `ClientTypes` | `TypeOK` of `HostClient` | `ClientInv` |
| `WokenFindAnswers` | `AnswersFound` | `Calls`, in `ClientInv` |
| `HostsAreEnded` | `NoHostLeftBehind` | `Processes`, in `ClientInv` |
| `WorkersTakeTurns` | `SoleSynthWorker` | `WorkerLives`, in `ClientInv` |
| `ProfileTypeCorrect` | `ProfileTypeOK` | `TypeInv` |
| `SettledSettingsKept` | `SnapshotsKept` | `SettledInv`, over `TypeInv` |
| `SettingsRestored` | `ProfileRestored` | `SettledInv`, over `TypeInv` |

**LiveWorker.** The property alone is not inductive: a worker about to
answer a Delete is one step from dropping the engine. `DeleteEndsReading`
adds that whenever a Delete is in the work channel or in the worker's hands,
the reader has already left its loop. It is kept because a Delete
enters the channel only in the step with which the reader leaves, and because the reader never
returns.

**StreamImplemented.** Three parts strengthen the mapping. `GenerationsInOrder`:
the BeginGeneration commands on their way, first in the work channel and then in stdin,
rise from the tracker's generation to the client's counter; so a generation is begun at
most once and in order. `TrackerInStep`: the newest report is of the
tracker's generation or of one before it, and a tracker that has not completed or stopped
has reported neither. `OutgoingInStep`: the events the worker still has to offer can be accepted by the
stream one after the other, which is not evident because the tracker
is changed before its events are sent, and a refused event leaves a tracker that has
completed with no Done reported. `SilentStep` disposes of the actions that
touch none of this; `BeginInStep`, `CompletionInStep`, `ProgressInStep`, `QuietInStep`, `StopInStep` and
`SendInStep` are the other cases, one lemma per operation.

**ReportInv** follows each report from the tracker to `emitted`. `DoneAccounted`: the Done of a
completed generation is reported, or held by the worker, or was refused; that of any other has not been made.
`IndexAccounted`: the newest index is reported, held, or the last one pending; or a Stop has forgotten it and the
Done will not come. `StopsAccounted`: beyond the point of a Stop, what is reported or held of the stopped
generation is Stopped, and as long as the tracker has that generation the callbacks are cancelled.
`LatestInStep` ties the three to the generation that is being spoken. `ReportingSteps` names the few actions that
touch any of it, and each has a lemma (`InsertKeepsAccounts`, `AudioMadeInOrder`, `OfferKeepsAccounts`, ...).

**ProgressKeepsOrder.** The line is what was heard, stdout, the outbound channel, the forwarder's
hand and the event channel, one behind the other, each without its responses. While the writer runs it
is all that was emitted; the forwarder need not run, for what it drops it drops only when the writer is gone. A move from one
place to the next shifts an element over a border: `ProgressOfHead` and `ProgressOfAppend` say what this does to
`ProgressIn`. That is a recursive function and not `SelectSeq`, so that the provers can
unfold it; `Gathers` is its graph, and `GathersUnique` and `GathersExists` the two
facts about it, each by a least counterexample in place of an induction.

**RequestsAnsweredOnce.** A request number is in one place at a time. `Places` are stdin, the reader's hand, the work
channel, the worker's hand, the outbound channel, stdout and what the client has read; `OneByOne` says that none
holds a number twice, `Apart` that no two hold the same. Each step of the host moves one
number from a place to another or drops it (`RequestMoves`), a send brings a number that none has
(`RequestsNumbered`), and a read takes the head of stdout, which no response the client has can equal
(`RequestAnswered`). The reader's answer to a Stop overtakes what is queued, and may: order is no part of this.

**SpeechPipeline.** A step of the composition is a step of the host, a read or a send, as far as the host goes:
`HostPart` collects what is known of the host while its client keeps the pipes open, `HostKeepsPart` takes its
preservation from the lemmas about the host, and `SendKeepsPart` shows that the add-on's sends are sends the
host's stream allows. `EmittedInOrder` and `HearsInOrder` turn this into what the client needs: the progress it has heard is
in order, for it is the beginning of what was emitted. `OneCompletion` then needs that each chunk was heard before
the event in the receiver's hands (`HeardBefore`). `Guarded` is the
meaning of the connection's fields: since the newest Stop, a worker about to send finds the connection cancelled unless
its item is a later one, and only a generation of a later item is active. From it `StopsBeginNothing` follows
at once, and `Counted` with it: what the receiver lets pass is of no cancelled utterance, so that an event becomes doubtful only
by a Stop that comes while the receiver holds it, and the receiver holds one at a time.

**SpeaksItsOwnText** and **SoleIsCompleted** need to know what the commands are. `UtterancesEnd` is what `speak` queues
(`eloquence.py:1292-1395`): texts of the utterance itself, indexes and parameters, with Synthesize at the end
(line 1390). `EciResults = {TRUE}` says that no call of ECI fails: an `eciSynthesize` that fails leaves its texts in
the buffer for the next generation, and no synthesis to complete. The conditions in the properties themselves are needed too:
`pipeline_text_stale` shows what one cancellation does to the first, `pipeline_completion_lost` what a
second generation does to the other.

The invariant reads the commands between client and host as one line: stdin behind the work channel.
A *scan* is a point of it: the newest generation begun there, and whether that still takes texts. `Leads` says what one command does to a scan, and is
undefined for a text of another utterance than the generation's; `Conveys` says that a
sequence of commands leads from one scan to another. So `LinedUp(h, m, c)`, with the worker at scan `h`, the end of the work channel at `m` and
the client at `c`, means that every command on the way will find the generation it was sent for. Taking a command
moves `h` or `m` by one `Leads`, sending one moves `c` (`ConveysHead`, `ConveysAppend`); a new owner changes
no scan before it (`ConveysStill`). With `Sending` (the client keeps a generation open only for the item
it works on) and `Running` (the host speaks until all is spoken) this is inductive as long as nothing that was
begun has been cancelled (`Clean`), and what ECI holds, reports and the client plays renders the text of
its own generation's utterance.

`SoleGenerationCompletes` is a property of rest: when nothing can move, Done has
arrived. It would fail if a report on the way were overlooked. How much an utterance reports has no bound, since
its text may give any number of audio buffers, and the event channel has 64 places (`server.rs:16`): a report
that it refuses (`engine.rs:117`) is the exception of the property, and the theorem needs no hypothesis about the
size of an utterance.
`Reporting` follows Done from the tracker, done but for a refusal, into `emitted`, `Receiving` from there: the client waits for it with this
generation active, has it in hand, or has queued it. `RestsCompleted` closes the case: at rest the worker has
executed the Synthesize, ECI has called everything back, and all that was emitted has been heard.

**AudioPlayback.** The line again: log, player, chunk held back, chunk in hand, queue, and what the receiver has
still to put there. `Order` says that whatever is further on in it was reported earlier;
markers and restarts take chunks out of the line and never put one before another. For `PlaybackInOrder`,
`Gapless` says that nothing of an utterance that is not cancelled is missing from the line, and nothing
before a chunk the worker has committed to; `Times` places the cancellation
between `_sequence` and the stop of the player.

**HostClient.** Types first need that operations are well ordered: `Follows` says what may come next to a step, so that
a clean-up never finds a host it did not expect, whichever step has failed (`Operating`). `OnlyHost` is
`NoHostLeftBehind` between the steps of a start. `Registered` is what makes a
call return: each call that waits is registered, or in the hands of a receiver, or overlooked; `AnswersFirst`,
that a receiver stores an answer before it sets the event. From these `OneWorker` follows: the join gives up on a worker only when
no receiver will serve its call any more, and such a call has been overlooked.

**ProfileIsolation.** For each stack and setting, `Agrees` relates four copies: what the user has settled (`kept`),
the snapshot, NVDA's view, and the confirmations to come. Either the setting was only previewed, and no
confirmation will be given (`OnlyPreviewed`), or it was changed and one will be (`WillBeConfirmed`). The
exception is again the setting a switch came before, which `unsettled` names. `Phases` says where in
a switch or a load each part may be.

**EngineDictionaries.** `CacheOK` is what an activation needs: one handle for a key, and nothing in
use that is not in the cache. `ActivationKeepsCache` and `ActivationInForce` say of both outcomes of an
activation what the theorems need, whichever command it serves.

**DictionaryProfiles.** `InstalledWhole` is not inductive: the rename that installs
must find the staging directory complete, and the one that puts back must find a whole snapshot. `DirectoriesInv`
says for each step what the directories hold then; a backup may be a part of a snapshot only
while a removal is, or was, on its way. `MigrationInv` is that the root's files, put
before the legacy profile's, give what they gave in the beginning. The refinement goes by the
steps that change what is kept: `QuietStore` disposes of those that touch neither the target nor its backup,
`BackupStore` of the removals, where a snapshot that loses its first file must have been stranded or
not have been the one that is kept.

**VoiceState.** `VoiceTypeInv` adds to the type that no thread has ever saved a temporary value: neither
reads ECI's value back. For `ProsodyNeverLeaks` the whole of what a thread has still to run matters:
`ProsodySafe(program, raised)` says that each plain text of the program has the pitch lowered before it, or
the pitch is not raised to begin with and nothing raises it. `SafeTail` carries it over a step, `SafeBehind`
over the reset that `speak` puts in front; that is why a cancelled capital letter harms nobody, and
where the fix of issue #59 enters. For `LastChoiceKept`,
`SettingInForce` follows the choice through the hands it passes: `voice_params`, what `set_voice` has
saved on either thread, or the last setting the main thread has still to send. The worker's `set_voice` must
not meet such a setting half way, which is what `overlapped` records.
For `VoiceIsOwn`, `VoiceInv` says what `_lastEngineVoice` knows: there is a voice behind each utterance
of the queue (`f` in `SpeechTold`) such that the worker's program ends in the first, each utterance speaks
all of its texts right and goes from one to the next (`SpokenRight`, `EndsIn`), and the last one is the
voice remembered. Behind what was cancelled the voice is unknown, which is why a cancellation forgets it; and while the
main thread runs a `set_voice` of its own, nobody else may use the host (`MainTold`), which is what
`overtaken` records.

These invariants were checked by TLC before they were proved.

**Only model-checked.** Liveness (`EveryRequestAnswered`, `HostExits`,
`SynthesisAnswered`, `UtteranceFinishes`, `CallsReturn`, `OperationsEnd`): the prover has no rule for fairness.
Every other property of a passing run is a theorem. What the six runs with a violation show is a single
behaviour each and needs no proof.

## What is not modelled

- Text preprocessing, script conversion: expressions and tables over text without a state. What
  they do is what is written in them, and the tests compare it with examples; a model would repeat them.
- The engine's assets: a patch of a binary image, path handling and copies.
- Contours: a binding to a library that filters samples.
- The updater and `installTasks`: downloads and dialogs of NVDA, one after the other.
- Of the settings panel all but the choice and update of a dictionary; of profile isolation the
  translation of older settings.
- Of the synth driver the text of its commands, break commands and the choice of a voice for a language tag.
- Two hazards without a property: a synth worker that leaves between the stop event and the None
  (`_eloquence.py:886`), which `HostClient` reaches and of which nothing is promised; and a player that is closed
  while its worker feeds it (`_eloquence.py:484`), which is a matter of NVDA's WavePlayer.
- The audio itself, the contour filters, the wording of text and its preprocessing:
  data that no property here tells apart.
- Build and packaging: scripts without a state of their own worth exploring.

## The plan

The number of runs and properties is where the time of a full check ends; what is left is above all
proof.

1. An abstract specification of a call (one request; one answer or one error), which
   `HostClient` implements.
2. The audio part of `shutdown`, with a worker that outlives its join; a receiver that ends by an exception.
