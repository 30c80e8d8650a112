# CW Skimmer: a TLA+ verification project

CW Skimmer (`src/cw-skimmer`) receives an IQ or audio stream from a software
radio over TCI (a WebSocket protocol), finds Morse signals in its spectrum,
decodes up to twelve of them at once, one thread per signal, shows them in a Qt
window, sends tuning and CW commands back to the radio and reports spots to a DX
cluster. This directory holds TLA+ models of its stateful core, the TLC runs that
check them, and theorems checked by TLAPS.

1. The system · 2. The modules · 3. The runs · 4. The proofs ·
5. What is only model-checked, and what is not modelled · 6. Plan

## 1. The system

### 1.1 Parts

`src/` and `gui/` below are those of `src/cw-skimmer`.

| Part | State it keeps | Operations | What makes it correct |
|---|---|---|---|
| Decode worker (`src/decode_worker.c`) | one slot of the channel pool: lock, condition variable, flags, joinable thread, decoder, ring of 8 IQ chunks | init, start, stop, reset, shutdown, submit_iq, wait_idle, flush, the decode thread | no thread is forgotten or joined twice, the decoder outlives its users, chunks are decoded in order and once, nobody sleeps while work waits |
| Detection session (`src/cwskimmer_api.c`) | `detector->lock`, `running`, `loop_active`, radio client, reporter, callbacks | start (connect, loop, cleanup), stop, destroy, config_set, callbacks from decode threads | a session that is over left nothing behind; a stop ends it; the loop never uses a freed radio |
| Channel pool (`src/cwskimmer_api.c`) | twelve workers, their buckets, last activity, SNR | acquire, follow drift, expire, release, suppress birdies | one signal, one decoder; a channel belongs to its station and is freed when it falls silent |
| Detector worker (`gui/detectorworker.cpp`) | a QThread with an event queue, the detection pthread, `m_detectThreadActive`, `m_detectThreadLaunched`, a batch of columns | start, stop, setConfig, the posted end of a session, pause and resume | a thread is joined exactly once; columns reach the window in order |
| Main window (`gui/mainwindow.cpp`) | what the buttons show, `m_freezeDisplay` | Start, Playback, stream switch, Stop, Shift+click, close | the display is not left frozen; the buttons agree with the session |
| Radio control (`src/radio_control.c`) | command queue (32), keyer speed, KY backlog and CAT socket | tune, CW text, CW stop, set speed, apply configuration, service | commands reach the radio in order and once; a stop stops; no keyed text is repeated |
| Spot reporter (`src/spot_reporter.c`) | telnet socket, ring of 1000 waiting spots | submit, process_retries, connect | no spot is lost unnoticed; waiting spots are sent in the end |
| TCI client (`src/tci_client.c`) | WebSocket or TCP connection, subscription, sample ring (480000), staging buffer, training file | connect, subscribe, read, service, play a file, switch the stream | samples in order and once; a new subscription starts clean; a file is handed on whole |
| IQ capture (`src/cw_capture.c`) | pre-trigger ring, snapshot, file | write, freeze, save | a saved capture is the IQ of the click |
| Replay (`src/cwskimmer_api.c`) | a file, its channels and texts | load, prescan, feed, flush, compare | the verdict is that of the texts |
| Audio processor (`src/audio_processor.c`) | FFT frames, decimated ring, spectrum queue, span | process, next spectrum, peaks, set span | no frame is overrun, spectra are drawn in order over their own span |
| Decoder front end (`src/cw_decoder.c`, `ditdah_decoder.c`) | seconds of audio, text, last letter, birdie | process, update, flush, reset | it reads what was keyed, and what it reads is of the station in tune |
| Message validator (`src/cw_message_validator.c`) | none | score, accept | only messages become spots |
| Threshold and mask Morse windows (`gui/thresholdmorsewindow.cpp`, `maskmorsewindow.cpp`) | marks, gaps, the open letter, the text | feed a column, clear, speed, squelch | each mark becomes text once and in order; a letter ends where the gap says |
| Signal trace (`gui/signaltracewindow.cpp`) | the plot, a recording, a playback | feed, span, freeze, clear, record, play | what is frozen stays; a recording is whole; a playback ends |
| Multi-channel decoder (`gui/multichanneldecoder.cpp`) | a followed signal and a text per slice of the waterfall | feed a column, span, number of slices | a takeover is earned; the copy stays |
| DeepCW window (`gui/deepcwmorsewindow.cpp`) | queue of samples, epoch, texts on their way, the engine's thread | feed, clear, retune, adopt, close | nothing of the old signal survives a retune |
| Keying and signal detectors, Bayesian tree, neural and sequence decoders, configuration, logging | small or none | numerical functions, one-time reading, output | see section 5 |

### 1.2 How the parts interact

```
main window --posted requests--> DetectorWorker (QThread) --pthread--> cwskimmer_start
     |  waits for Stop                 |  cwskimmer_stop, config_set       |   detection loop
     |  Shift+click, columns           v                                   v
     |  tune, text, stop, speed    detector->lock            TCI client, radio_control_service,
     +-------------------------->  RadioControl queue        process_retries, audio processor,
     |                                                       capture ring, channel pool
     |  columns of the clicked signal                                      | submit_iq
     v                                                                     v
trace, threshold, mask, DeepCW     result callback (worker->lock) <-- decode threads (12)
windows, multi-channel decoder        |-- takes detector->lock, calls spot_reporter_submit_spot
                                      '-- may reset its own worker (steady carrier)
```

* Shared state: `detector->lock` protects configuration, statistics and
  callbacks; each worker has a lock; radio control has a lock; the batch of
  columns has a mutex and so has the DeepCW queue; the spot reporter, the TCI
  client's ring, the audio processor and `loop_active` have none.
* Calls that wait: `decode_worker_stop` joins a thread, `DetectorWorker::stop`
  joins the detection thread, the window waits for `DetectorWorker::stop`, the
  DeepCW window joins its engine.
* Callbacks: decode threads call into `cwskimmer_api.c` with `worker->lock` held
  (a normal result) or without it (a steady carrier, "birdie").

### 1.3 What is hard

Two locks taken in both orders; a thread that stops itself; joins that wait for
threads that wait for locks; a batch of commands worked on outside the lock while
the GUI drops and reorders what it came from; a CAT socket that must be asked
before each chunk and may vanish with the question; rings without a lock that
another thread clears; frames cut anywhere by the network; a dialog that is open
while the session goes on; an engine that reads an epoch after the lock; decoders
that reread their whole window with every chunk; start, stop and the spontaneous
end of a session crossing each other. The hazards, each at its line and with the
properties aimed at it, are in `PROJECT.json`.

## 2. The modules

Every definition that translates code is listed with its lines in `PROJECT.json`
("map"). Operators commented `mutant:` are plausible wrong versions of the
definition that follows them; each checked property fails when its mutant is put
in place. Several MC modules put parts together that share nothing: which part a
behaviour is about is chosen in the initial state and the others stay where they
are, so that one run covers them all.

| Module | Models | Checked through | Proved about in |
|---|---|---|---|
| `DecodeWorker`, `ChunkFifo` | one worker with its controllers and decode threads; the bounded FIFO it implements | `MCDecodeWorker` (the plain worker, and one with steady carriers) | `DecodeWorkerProofs` |
| `SkimmerSession` | window, DetectorWorker, detection thread, decode threads, both kinds of lock | `MCSkimmerSession` | `SkimmerSessionProofs` |
| `RadioControl` | command queue, KY backlog, CAT socket, TCI link | `MCRadioControl`, `Links` | `LinksProofs` |
| `SpotReporter` | submission, ring, retries | `Links` | `LinksProofs` |
| `TciClient`, `LossyFifo` | the connection, parsers, sample ring, training files, the live switch; the queue the ring implements | `MCTciClient` | `TciProofs` |
| `IqCapture` | the capture ring, the waterfall's columns and the Shift+click | `Blocks` | `BlocksProofs` |
| `SamplePath` | from a block of samples to a column | `Blocks` | `BlocksProofs` |
| `Replay` | the offline test of a capture | `MCChannels` | `ChannelProofs` |
| `PeakSearch` | peaks of a spectrum, their refinement, the candidates for a channel: pure operators | `MCChannels` | `ChannelProofs` |
| `ChannelPool` | blocks, channels and what their threads do to them | `MCChannels` | `ChannelProofs` |
| `MultiChannelDecoder` | the slices of the waterfall | `MCChannels` | `ChannelProofs` |
| `DeepcwWindow` | the window whose decoder has its own thread | `MCChannels` | `ChannelProofs` |
| `Decoders` | pool, replay, slices and window side by side, what the run checks and the proofs are about | `MCChannels` | `ChannelProofs` |
| `DitdahDecoder`, `MessageValidator` | the decoder of a worker, its updates and spots; the score of a text | `MCDitdahDecoder` | `DitdahProofs` |
| `ThresholdMorse`, `MaskMorse` | the Morse windows that listen to the clicked signal | `MCWindows` | `WindowsProofs` |
| `SignalTrace` | the trace of the clicked signal, its freeze, recording and playback | `MCWindows` | `WindowsProofs` |

### 2.1 `DecodeWorker`

Variables carry the names of the fields of `decode_worker_t`; `pc`, `tid` and
`op` are the control state, join target and operation of each thread. One critical
section is one action. `decode_worker_stop` unlocks around `pthread_join`, so it is
`StopSignal`, `StopJoin`, `StopFree`, shared by start, reset and shutdown, which all
begin with it. The thread's loop is `Exit`, `Sleep`, `Dequeue`, then, without the
lock, `EnterDecoder` and `LeaveDecoder`, then `Publish` and `PublishCallback`, with
the lock held across the callback because the callback may block. Whether the
decoder calls its signal a steady carrier is a nondeterministic answer, switched off
by `SteadyCarrier = FALSE`; if it does, `MarkBirdie` and `BirdieCallback` run, and
the callback resets the worker from its own thread. `pthread_join` of oneself fails
with EDEADLK and the code ignores the result. Chunks are numbers in the order
`submit_iq` accepted them. `ChunkFifo` is the abstract specification: a queue of at
most `DEPTH` chunks that refuses when it is full and that a start empties.

### 2.2 `SkimmerSession`

`main` is the window, `gpc` the DetectorWorker's thread taking one request after the
other from `events`, `dpc` the detection pthread, `wpc[w]` the decode thread of
channel `w`. `lock` is `detector->lock`; a decode thread holds its own `worker->lock`
in the steps of `InCallback`. Opening and cleanup hold `detector->lock` over several
steps because they wait for others meanwhile. The decode worker is here only what can
block somebody; its queue is in `DecodeWorker`. A stop of a worker is `ReleaseStop`,
`ReleaseJoin` and the freeing, so that a thread that finds a steady carrier can reset its
own worker between them (`BirdieStop` marks the channel and takes the stop, `BirdieFree`
takes it back). The loop may also be caught in the drain of the spots (`LoopDrain`). That
the slot of a worker whose thread spins is started again is `DecodeWorker`'s subject;
`LoopExpire` stands for every stop the loop makes while it runs, also that with which
`decode_worker_start` begins.

### 2.3 `RadioControl` and `SpotReporter`

`radio_control_service` releases its lock several times, so it is a sequence of
actions from `ServiceTake` (the batch is copied, `speed_dirty` cleared) through
`ServiceSpeed`, `SendNext` or `SendText` to `ServiceDone`; between the two tests of the
link the GUI's live switch may drop it, and then `ServiceGivesUp` forgets the batch and the
speed (`missed` remembers it); the steps of
`rc_ky_service` run with the lock held, which `Unlocked` says. What the GUI calls may
come wherever the lock is free. Commands are numbered, so order on the wire is order
of numbers; a text is one unit of the backlog. The TCI link and the CAT peer are
external. In `SpotReporter` each access to what threads share is one step; an
unlocked `queue_size++` or `--` stores a result computed from the present value or
from the one read before, which is how the data race is rendered. `OneThread`
restricts the reporter to one operation at a time, as in the command-line program
`main.c`. `Links` puts the two links beside each other, each with its own thread.

### 2.4 `TciClient`

Bytes are grouped in units: a text, its `;`, a frame header, one unit per sample. The
radio appends frames and texts to `net`; `TcpReceive`, `WsReceive` and
`TrainingRead` take any number of units up to what one call returns and put them
into `stream` or `staged`; the parsers (`ParseText`, `ParseFrame`, `TakeFrame`,
`TakeRaw`) make one step per iteration of their loops; `Push` writes one sample into
the ring, dropping the oldest when it is full, and `Get`, `TakeDone` hand chunks to
the detection loop. The live switch is the GUI thread's sequence `SwitchMode` to
`SwitchFreed`, which clears head and count without a lock: a clear that falls
between the two halves of `tci_get_iq_samples` makes the count negative, and a push
that began before it may lose it. Frames are records of a fixed length and 512 pairs
shrink to `FrameLen` samples. `LossyFifo` is the abstract ring.

### 2.5 `IqCapture` and `SamplePath`

`IqCapture` has three threads: the detection pthread (`dpc`, from `Open` over
`Block`, `Gate`, `Gather`, `Flush`, `Emit` to `Leave`, `Refuse`, `Inactive`,
`PostEnded`), DetectorWorker's thread (`calls`, `wpc`) and the GUI thread (`gui`),
which handles posted events also inside its dialogs (`Handle`). A block is its
number; `heard` and `clicked` are histories, for saying what a capture should hold.
`SamplePath` is the audio processor as the detection loop drives it: a block is read,
processed in pieces, transformed (`Wide`, `NarrowFft`), queued, popped and shown,
while another thread changes the span in three unlocked groups of writes (`SetSpan`,
`SetSizes`, `SetClear`). A spectrum is known by its number, its samples and the rate.
`Blocks` puts the two side by side, with the lengths of the audio processor as
constants, and is what TLC runs and what the proofs are about.

### 2.6 Channels: `ChannelPool`, `Replay`, `MultiChannelDecoder`, `DeepcwWindow`

`PeakSearch` is what a block's spectrum gives: `FindPeaks`, `Refine`, `Candidates` (merged,
sorted), for an IQ stream, for real audio (single-sided, searched from bin 0, refined
around the middle as in the code) and for a switch between the two while the block is
searched (`EveryMode`). A frequency is a bin, a power a number above the noise floor, and
the bins averaged for the noise are `NoiseBins` to each side. `ChannelPool` is one pass of
the detection loop per `NewBlock`: `Serve` per candidate, `Served`, then the expiry, one
channel after the other (`ExpireStop`, `ExpireJoin`, `Expired`), with the threads of the
channels beside it: a thread sees a stop (`Exit`), or finds a steady carrier (`Steady`),
resets its own worker (`ReleaseBirdie`, `Released`) and spins. A start that finds the slot
with a thread to join waits for it (`ServeStop`). Of a slot that is used again only the
newer thread is followed; of the older one its late reset remains (`ReleasedLate`). `Replay`
is `cwskimmer_replay_capture_file` from `Loads` to `Return` with the threads of its
workers, which reset themselves in the same steps; what a worker that missed a block reads
is any text. `MultiChannelDecoder`
handles one column per step and says for every slice which signal it follows.
`DeepcwWindow` has the GUI thread (`StartAnew`, `BumpEpoch`, `Feed`, `Deliver`,
`Close`) and the engine (`Take` under the lock, `ReadEpoch` after it, `Reset`,
`Process`); `m_epoch` is increased before the lock is taken, as in the code.
`Decoders` puts the four side by side, a behaviour being about one of them, and states
what the run checks; `MCChannels` adds only the spectra and columns of the instance.

### 2.7 Decoding: `DitdahDecoder`, `MessageValidator`

Stations key real Morse; the audio is one Boolean per sample. A chunk is fed and analysed
without the worker's lock, so that the steps are those between which the detection thread's
`set_metadata` can reset the decoder: `Feed`, `Analyse` (the window is read: `Reading`, with
runs, dot length, letters, words), `WriteKeying`, `WriteText`, `Elapsed` (the clock) and
`Verdict`. `Result` publishes, emits the new letter, and submits a spot if the validator
accepts the word. `Retune` may fall between any two of them, as may a retune in the middle
of the feeding, which leaves a window of both stations (`RetuneWhileFed`). A worker that was given up
as a steady carrier is started again for another signal (`Restart`).
`MessageValidator` is the whole score with its tables.

### 2.8 Windows: `ThresholdMorse`, `MaskMorse`, `SignalTrace`

One handler of the GUI thread is one step. A mark, a gap and a dit are lengths in
columns; estimates are any value of a small set. `ThresholdMorse` and `MaskMorse`
return every outcome of a column (`Outcomes`) because the code branches on levels and
on histories of lengths that the models do not carry: the median of the letter gaps moves
the word threshold anywhere between its bounds, 3.5 and 10 dits, and the squelch, whose
energy and time since the last strong mark are left out, may open at any column after the
first mark and close at any that is not strong. The gaps inside a letter are kept, and split
it and its words also where they form a short cluster (`ShortGaps`). `SignalTrace` is the plot, the span, freeze, clear,
recording and playback, with the time stamps of its samples; a playback injects the
samples that are due one after the other (`injected`). `Windows` composes the three,
which share nothing but the columns, and a behaviour is about one of them.

## 3. The runs

| Run | Instance | Shows |
|---|---|---|
| `worker` | 2 thread identities, 1 controller, ring of 2, 4 chunks; the worker with steady carriers 3 chunks | a thread exists only with its decoder and until it is joined (`IInv`, `WorkerSafe`); the ring is a FIFO, with steady carriers too (`WorkersFifo`); stop, flush and every queued chunk are served (`CallsReturn`, `EveryChunkServed`) |
| `radio` | queue 2, backlog 2, chunk 1, 2 speeds, 3 commands, 2 changes, everything fails | at most one unanswered poll, an open CAT socket knows the speed (`KySocket`); order, each at most once (`CommandsInOrder`) |
| `links` | reporter: ring 2, 3 spots, one thread, EAGAIN; radio: queue 3, connections hold | speeds and stops arrive, text is keyed (`TciSpeedCurrent`, `RadioServed`); every spot accounted for and sent in the end (`SpotsAccounted`, `SubmittedIsSent`) |
| `session` | 2 channels, 3 requests, playback, spots, callbacks and steady carriers on | `IInv`, `SessionSafe`, `StopIsFinal`; `Ends`: a Stop returns unless it was lost, is in the lock cycle, joins a thread that reset itself, or the loop drains spots for ever |
| `tci` | frames of 2, 2 frames, reads of 2, staging 5, ring 3, chunks of 2, one switch; TCP, WebSocket and file | order (`InOrder`), a file handed on whole (`TrainingComplete`), the chosen stream (`OneStream`), the ring as a lossy queue (`RingIsFifo`), `SessionEnds` |
| `blocks` | capture: ring 2, batch 2, queue 3, 3 blocks, 2 starts, 1 click; path: 4 blocks, 1 change of the span | `SavedIsTheClick`, `DisplayRight`; `ShownInOrder`, `FreshFitsAxis` |
| `channels` | replay: 2 tones, 2 channels with queues of 1, 2 candidates, 2 blocks; pool of 2 on 11 bins with peaks at {}, {3}, {3, 8}, {1, 3, 5}, of IQ, of real audio and switched within a block; 3 slices; DeepCW text of 3; steady carriers in replay and pool | `VerdictOfTexts`, `EveryReplayEnds`; `StationsServed`, `ChannelsFreed`; `SlicesFollow`; `DeepcwCatchesUp` |
| `windows` | dits of 1 and 2 columns, 2 open marks, 4 characters, 3 marks; trace with spans of 2 and 4 | `LettersInOrder`, `MarksShown`, `LastShown`; `TraceWhole`, `FrozenStays`, `PlaybackEnds` |
| `ditdah` | 2 stations (symmetric), dots of 2 samples, window of 96, 132 samples, 1 retune at any step; the minimal, the normal and the paranoid mode | `ReadsWhatIsKeyed`, `StationsApart`, `BirdieEarned`, `SpotsAreMessages` |
| `worker_birdie_two_threads` | 2 chunks, steady carriers | **violated**: `OneDecoderThread` |
| `session_lock_cycle` | 1 channel, callbacks | **violated**: `NoLockCycle` |
| `tci_pieces` | WebSocket, no switch | **violated**: `IncompleteKept` |

### 3.1 Bounds

Rings and queues have a length of one to three and there are one or two more items
than they hold, so that they fill, wrap, refuse or drop; two thread identities are
one more than a worker should ever have; two channels make the cleanup wait for one
decode thread while another is in a callback; three requests are start, switch or
second start, and stop, with the spontaneous end of the session anywhere between; two
frames read in twos are cut at every place; a window of 96 samples with 132 fed drops
its oldest half second; a text of three characters of which two are kept is shortened. The
pool's channels expire at the next block without their signal (`TIMEOUT` 0), the noise is
averaged over two bins to each side (`NoiseBins`; the code has six), and a half spectrum of
five bins is still wide enough for real audio to be searched in one place and refined in
another.
Counters of the model (`accepted`, `issued`, `changes`, `submitted`, `clicks`,
`starts`, `blocks`, `switches`, `asks`, `retunes`) are bounded by the constants
`Max...` in the guards of the actions that begin something; nothing that is under way
is cut off by a bound. Deadlock is not checked where the system may really stop:
after the bounded requests, after the window closed, or in the lock cycle.

### 3.2 Fairness

* Threads that can run do run: weak fairness of each thread's steps. Nobody has to
  press a button, submit, wake spuriously or run out of memory.
* `SkimmerSession`: strong fairness of `ReleaseStop`, because a decode thread takes
  and frees `worker->lock` again and again and a pthread mutex that keeps becoming
  free is got in the end; strong fairness of `LoopConsumed`: a training file has an
  end.
* `RadioControl`: strong fairness of `KyReadFree`: a radio that sends what it is given
  has room now and then.
* `SpotReporter`: strong fairness of `SendOk` and `RetryStart`: a server that comes and
  goes accepts now and then. `SubmittedIsSent` counts EAGAIN as an end, as the code
  does.
* `TciClient`: strong fairness of reading a training file: the loop reads only when
  the clock says a chunk is due and there is room, again and again.
* `ChannelPool`: the detection loop goes on, unless it waits in a join; strong fairness of
  `Tick`: time passes between the blocks; weak fairness of a thread whose loop sees the
  stop. A steady carrier need not be found. `ChannelsFreed` and `EveryReplayEnds` except the
  one join that never returns: that of a thread that resets itself at the same time
  (`JoinHangs`). `ThresholdMorse`, `MaskMorse`: columns keep arriving. `SignalTrace`: the timer of a playback fires.

### 3.3 What the violations show

* `worker_birdie_two_threads`: a decode thread that finds a steady carrier resets
  its own worker. It clears `thread_running`, fails to join itself, sets `stop` back
  to 0 and keeps looping; the next start creates a second thread on the same worker,
  ring and decoder.
* `session_lock_cycle`: the cleanup holds `detector->lock` and waits for a decode
  thread that waits, in its callback, for `detector->lock`.
* `tci_pieces`: the first piece of a WebSocket message, a header and a part of its
  frame, is taken for raw samples, and so is all that follows.

### 3.4 Met while modelling

Kept here and as hazards, not as runs.

* Worker and session: `wait_idle` returns when the last chunk has left the queue while
  it is still decoded (`decode_worker.h:72`); a controller that stops a worker
  while its thread resets itself joins for ever (`decode_worker.c:212`, `:220`), which the
  models of session, pool and replay contain and their liveness excepts; with a second controller
  `config_set("decode_bucket_hz")` can free the decoder of a thread just created; a
  Stop before `cwskimmer_start` sets `running` is overwritten by it; after a playback
  ended by itself Start is refused until Stop is pressed (`DEPLOYMENT_CHECKLIST.md:53`);
  the reporter is destroyed before the decode threads that may use it are stopped;
  `tci_stream_mode` is applied to a radio that was tested before the lock was released.
* Radio and reporter: when the GUI's live switch drops the TCI link between the two tests
  of the service, it returns after it cleared the mark of the speed and took the batch
  (`radio_control.c:795-797`): the commands are lost and an open CAT socket is not told the
  speed (`missed`); in ky mode a text already in the service's batch is keyed after a
  stop (`cwskimmer_api.h:232`, `README.md:49`); when a decode thread's failed send
  clears `connected` during a drain, the drain turns for ever (`spot_reporter.c:284`,
  `LoopDrain` of the session); a
  full spot ring refuses the newest spot; EAGAIN counts as sent; the old spot socket
  is not closed before the next connect.
* TCI: the fallback from IQ to audio (`tci_client.c:1494`) can never succeed; an
  unknown frame type at the head of the TCP stream blocks it; frames of more than 1280
  floats are cut over TCP; a frame of non-finite samples is never consumed; a count
  made negative by the switch, and a chunk of negative length, is taken back by the
  next (the bound is proved); a frame longer than the 32768 samples kept free of the
  ring would overrun it.
* Capture and path: a queued second start can put the "ended" of the first session
  after the new start; columns posted before a stop can be drawn after the next
  start; a `statusChanged(true)` that was queued clears `m_freezeDisplay` while the
  dialog is open (`mainwindow.cpp:2318`); a Shift+click after a session ended by itself
  saves the old ring with the configured centre (`mainwindow.cpp:2282`); a failed write
  leaves a partial file; a change of the span while a block is in work can leave a
  count of -1 (`audio_processor.h:78` "Safe to call while running"), draw a spectrum over
  the other span, and, as nothing is called back on the early return, fill the queue.
* Replay and pool: a thread that reset itself for a steady carrier goes on spinning when
  the replay or the session is over; blocks are dropped when a queue of 8 is full, so that a verdict
  depends on the speed of the machine; a mark of 0 means no mark; `max_power` is
  uninitialised for captures of fewer than 1024 samples; the tone seeds never reach
  +25, +50 and +75 Hz; of real audio the spectrum is single-sided and searched from bin 0
  (`audio_processor.c:614-618`, `:656-658`), but a tone is refined around the middle bin
  (`cwskimmer_api.c:306-308`, called at `:1315` and `:2155`), so that a station is lost or
  tuned to another place, which is why the theorems are about IQ; in narrow mode the refinement uses `config.sample_rate`
  (`cwskimmer_api.c:1316` against `:1263`); the test for a stronger peak compares a value
  with itself; two candidates refined to one tone feed one channel twice.
* Decoding: the analysis holds no lock (`decode_worker.c:53-55`), so that a retune may reset
  the decoder under it (`:238-246`): the reading in hand is written afterwards and shown and
  spotted for the new station (`stray`), a reset while samples are fed leaves a window of
  both stations, the length of whose buffer is a data race, and one
  between the look at the time and the test of the keying (`ditdah_decoder.c:739`, `:740`)
  gives the new station up as a steady carrier at once; the callsign of a spot may be "CQ" or "DE" (`INDEX.md:44`); the minimal mode
  spots a word such as "A1", which only begins like a callsign (its score is 36, the
  threshold 35); a cut at the
  front of the window turns a call into another; letters are missed, and a space is
  never emitted, because only lengths are compared; the paranoid mode can never accept
  (its highest score is 66, the threshold 75); a gap at the end of the window is never
  evaluated.
* Windows: a blip too short for a mark still adds its gap
  (`thresholdmorsewindow.cpp:622`, `.h:140`); a word gap after a refused pulse is lost
  (`maskmorsewindow.cpp:1294`, `:1276`); the recorded key lags half a span
  (`signaltracewindow.cpp:1188`, `.h:96`), and the last half span of a playback is never
  decoded; a span made larger feeds old samples again; `setTarget` during a playback
  restarts the clock it is played by; `setBackend(Threshold)` and `(Mask)` have no effect
  in the multi-channel decoder.
* DeepCW: the engine reads `m_epoch` after the unlock
  (`deepcwmorsewindow.cpp:149-156`), so that text of the old signal can be shown until
  the empty text of the reset arrives, and a retune in between keeps it; a text over 8000
  characters becomes the prefix while the engine goes on posting its whole transcript, so
  that it is shown twice; without a model the queue grows without limit.

## 4. The proofs

All theorems hold for every value of the constants: any length of a ring, queue,
batch or text, any number of threads, commands, spots, frames, blocks and requests.
What each assumes of its constants is the `ASSUME` of its module, which the runs
evaluate, and the hypotheses named here.

**`DecodeWorkerProofs`.** `TypeCorrect`, for any number of controllers and with steady
carriers: submissions test `queue_count` and the thread takes only what is there, under
the lock. `WorkerInvariant` and `WorkerSafety` assume one controller and no steady
carrier; both are needed, and section 3 names what happens without each. None of the
wanted invariants is inductive: that a stop frees no decoder in use follows only from its
having joined the one thread there is. `IInv` says that a thread exists only together
with its decoder and is named by `thread` while `thread_running`, or is being joined by
the controller; that `thread_running` excludes a stop past its first unlock; and that a
destroyed worker has neither. `RingIsFifo` is the refinement of `ChunkFifo`, without
those hypotheses: slot `(queue_read + i) % DEPTH` holds item `i` of the abstract queue,
`queue_write` is the slot behind the last, and every action appends, takes the head,
empties or leaves the queue alone.

**`SkimmerSessionProofs`.** `TypeCorrect` with `ThreadNamed`: `m_detectThreadLaunched` is
set exactly while there is a detection thread to join. `SessionInvariant`: the wanted
invariants speak of a few places of the detection thread each; `IInv` says for every
place which resources exist, whether `detector->lock` is held and which decode threads
may be alive, and that DetectorWorker creates, destroys and reports a stop only while no
thread is launched. `SessionSafety` and `StopFinal` follow; the lock cycle blocks a
session and does not break its safety.

**`LinksProofs`**, the radio. `SocketServed`: a poll is unanswered exactly in the states in which the
service waits, and an open socket has been told the speed, or the speed is marked, or it was lost
with a batch when TCI went away between the two tests of the service (`missed`, which stays
until the speed is set or the socket is opened again).
`CommandsKeepOrder`: queue, batch, backlog and what was sent are one increasing sequence of
numbers, whatever is dropped or requeued in between. `SpeedReachesRadio` assumes a
connection that holds (`~LinkDrops`): the flag is cleared before the speed is sent, but
then the service carries the speed, or the flag is set again.

**`LinksProofs`**, the reporter used from one thread (`OneThread`; with several, the
unlocked counters are lost, which is a hazard). `CountersAgree`: head, tail and size agree
between two calls. `NoSpotLost`: every accepted spot is in the ring,
in the hands of a call, sent or counted as dropped, and there is a second copy of a spot
only after one of its sends failed; the ring's contents are the slots from head on.

**`TciProofs`.** `ChosenStream`: what the radio sends follows from how far the session and
the switch are. `RingRefinesQueue`: the refinement of `LossyFifo`, while no switch clears
the ring. `SamplesInOrder`: what is on the wire, staged, being pushed, in the ring and
handed on is one chain of rising sample numbers; what the parsers have is cut at frames
over TCP and from a file, and may be cut anywhere over a WebSocket, where a header is
taken for a sample; a count that the switch made negative is no lower than minus one
chunk. `FileHandedOn` assumes `RoomForRead`: the frames that one read completes have room
in what the file player keeps free of the ring. The code keeps 32768 samples free and
reads 8192 bytes, and the frames that `cw_training_gen` writes are far smaller; it does not
hold for a frame longer than the room, which the code does not exclude.

**`BlocksProofs`.** `CaptureOfTheClick`: the ring holds the last blocks, item `i` of `n`
in the slot `n - i + 1` behind the write position, also when it wraps; the snapshot is
taken in one critical section, and until it is saved nothing else writes it.
`DisplayIsRight`: the columns shown, posted, in the pthread's hands and waiting are one
rising sequence, and each is cut or dropped as a whole. For the freeze the invariant is
that while the window is free and a session runs, callbacks are accepted, and if the
display is frozen, the report of a start is still to come; a stop in the queue means that
the window waits for it, so that no other request can follow it. `WaterfallInOrder` and
`DrawnOverItsSpan` are about the path of a block to the waterfall. The invariant has a
part that holds always, whatever a change of the span does (types, the bounds of frame,
ring and queue, the arithmetic of head and count), and one that holds while no change has
met a block in work (`~cut`): the transforms in force are those of the span, what waits
in the queue are the last spectra, consecutive and of these transforms, the queue has room
for all that the block in work can still compute, and what was last shown of it
precedes the next in the queue. That there is room is where the assumption on the
constants enters: in narrow mode one block makes at most `Chunk \div (SampleRate \div
Narrow)` spectra, and `PathAssumption` says that the queue is no shorter. The code has a
block of 1024 samples, a hop of 32 and a decimation of at least 2, hence 16, which is
`AP_MAX_PENDING_SPEC`; a hop made shorter, or a longer block, would drop spectra.

**`ChannelProofs`.** `VerdictTrue`: `matched` is that a text that was compared matched. It
rests on the best of the texts of a trial being a match if any is. `WindowCatchesUp`: what
was queued since the last reset is what the model heard, the chunk in its hands and the
queue, in that order; and what was posted last is the transcript, in the present epoch.
`SlicesFollowTheirs`: a slice that has counted a rival once counted what was the strongest
peak of its last column, and that is no peak of the signal it follows (`SliceInv`). Hence
the second column in a row takes over to a signal that was the strongest in both, and that
nothing else changes what is followed. It rests on what the peak search finds: the loudest
of some peaks exists and is one of them (`LoudestIs`), within the slice and never at the
value that stands for none, for columns of any width and levels (`PeaksOfSlice`).

**`ChannelProofs`**, the pool. `StationsAreServed`, `NoStationIsStolen`: a block of an IQ
stream (`mode = Iq`) passes through five computations before a channel gets it, and each
has a lemma that says what a sparse band makes of it. The search lists every peak once (`AllPeaks`, by induction over
the bins, since the search ends when it has found as many as it may); a peak refines to
itself and is strong enough, because nothing else is in its search range and the bins
averaged for the noise are silent, any number of them (`SilentEdge`, `RefineOwn`); so the signals are the peaks, in their order
(`SignalsAre`); the peaks the pool looks for itself each find the bucket of their own
signal and none is merged with another (`MergedAre`); the exchanges of the sort keep the
candidates, whatever their strength (`SortKeeps`). Hence the candidates are the peaks, each
once (`EachOnce`), and the invariant of the block is that the first `next - 1` of them
were fed, in their order (`FedSoFar`). That none is stolen rests on a channel having the
frequency of its bucket (`Tunings`), so that the candidate it is given is its own station.
The threads of the channels, which stop, find steady carriers and reset themselves between
any two steps, change no frequency but that of the channel they free (`ThreadStep`).
Both theorems need `RateRatio = 1`, a spectrum of the samples: in narrow mode the code takes
a bin for `RateRatio` times its width, and a peak need not refine to itself. For that
case `SearchAssumption` says that the spectrum is wider than the two search ranges of a
tone; at 48 kHz it has 1024 bins and a range has 13. The types of the pool are part of the
first theorem.

**`DitdahProofs`.** `TextsOfTheStation`, `BirdiesAreSteady`: what a window reads stays
opaque; the proofs are about which readings and which clock the fields stem from, with a
retune at any step of the analysis. The three exceptions are in the statements, each for
the one thing the code lets slip: a reading that the thread had in hand when it was reset,
and windows with samples that were being fed (`heard.stray`), and a verdict whose clock was
read before the reset (`torn`). `OnlyMessagesAreSpotted` opens the score: it
bounds it for every word, text and mode, by what the word is made of. A word is a run
between spaces, whose end is defined by recursion; that it is one (no space inside, not
empty) is an induction over the text.

**`WindowsProofs`.** `TraceIsWhole`: samples and times are two lists that nine handlers
clear, seed, trim, freeze and fill. The invariant is that they agree from their ends on:
the plot holds no more samples than there are times, and counted from the newest one each
sample has its time (`Along`), which trimming either list, or both, keeps. When a sample
comes, the times are trimmed to the length of the plot, so that they agree from the front
too, where the cursor is looked up. The exception is `mixed`: a playback that is frozen
goes on and adds times to a plot that takes no samples, and the invariant says that this
is the only way, since a frozen plot with a playback that runs is always `mixed`. Of a
recording, the last entry is the newest sample as long as it runs, from which follows that
the next one leaves no gap. A tick injects by a recursive function over what is due; that
no tick reaches behind the end of the file is a bound on a cardinality (`DueIs`), and what
is injected is sound by an induction over it (`UpTo`). `FrozenIsKept` follows from what
the same lemmas say of the plot that is shown. `WindowsTrace` says that both hold of the
windows as TLC runs them.

**`WindowsProofs`**, the two decoders. `LettersAreInOrder`, `MarksAreShown`: neither is
inductive, since a letter is decoded from marks that wait, several letters may come of them
at once, and what is shown is cut at both ends. The invariant of the threshold window
(`ThresholdInv`) says of every mark where it is: the marks of the open letter ascend and lie
above all of the text, which ascends itself and lies below the next mark; of the text also
that it has no two spaces in a row and is no longer than the scroll buffer; of the clocks
that they stay below the length at which counting stops. That of the mask window
(`MaskInv`) says the same of its elements, and of time: no mark in progress is longer than
the longest, and the key has been up no longer than since the last element of the open
letter. Hence a gap that is heard as one between letters closes the letter (`Parted`), which
is why no element joins a letter a gap away. Both decoders change their window in a chain of
small functions (merge a dip, take a mark, cut the open letter at its gaps, drop noise, put
letters and spaces behind the text, scroll); there is one lemma for each, saying that the
order is kept and that `Keeps` holds: whatever was in the text, in the open letter or
accounted for as dropped (`out`) still is, and each new mark is too. `MarksAreShown` is
`Keeps` along a step, read for what `Lost` counts. A letter of the threshold window is cut
into groups by a selection of its gaps, and the groups are joined by a fold; the lemmas on
`FlattenSeq` (`FlatJoins`), on an increasing selection (`At`) and on the recursion that drops
a second space (`Squeeze`) are proved by the least counterexample, as below.

### 4.1 How they are laid out

An invariant is a conjunction of named parts, and its step has one lemma per action that
disturbs it, and one step for all that leave its variables alone. Lemmas about sequences,
slots and counters are stated with rigid parameters (`NEW s \in Seq(...)`), because a fact
about the state cannot be cited for the next state. Where an induction would be natural
(what a scan of a queue finds), the proofs argue with a least or a last element instead,
since the library's induction theorems take an operator and cannot be instantiated here.
The recursive functions of the decoder are unfolded by the same device: `<` on the naturals
is well-founded (`NatLessThanWellFounded`), so a set of counterexamples has a least member
(`WFMin`), and a lemma says that the recursive definition satisfies its equation. Definitions whose
bodies are not needed stay closed.

## 5. What is only model-checked, and what is not modelled

Only model-checked:

* Everything under fairness: `CallsReturn`, `EveryChunkServed`, `RadioServed`,
  `SubmittedIsSent`, `Ends`, `SessionEnds`, `EveryReplayEnds`, the liveness in
  `ChannelsFreed`, `DeepcwCatchesUp`, `LastShown` and `PlaybackEnds`. The
  proof system does not reason about `ENABLED`.
* `ReadsWhatIsKeyed`: what the decoder reads of a keyed signal is computed by recursive
  functions on top of each other (runs, sorting, gaps), and the property compares it with
  what was keyed, which is an induction over the samples.

Not modelled: signal processing (transforms, envelopes, thresholds, keying detection,
neural and Viterbi-like decoding) is floating point and enters as nondeterministic
outcomes; the Bayesian tree, `cw_detector` and `signal_analyzer` are cell-by-cell
averages without threads. Presentation code, logging, the reading of configuration
files, the Windows front end, the command-line program (whose use of the reporter
`links` has), audio output, tools and tests are left out. Within the modelled parts:
settings that change while a capture dialog is open, a failing `pthread_create`, the
stall retry of the stream (`cwskimmer_api.c:1993-2036`, with its `tci_subscribe` at
`:2017`), what a reset that races with the feeding of samples does to the decoder's
floating-point state and to the count of its samples (the window is any mixture of the
two stations instead), `decode_bucket_hz` changed while a thread resets itself, the threads
left spinning after their session or replay, the drift of a tone below the width of
a channel, frequency tracking of the trace, the scoring of a letter by masks. The pool on
a narrow spectrum is described (`RateRatio` above 1), but no run has it, and the theorems
about the pool exclude it. Real audio the run has, and the theorems exclude it too,
because there the code loses stations.

## 6. Plan

Of the safety invariants the runs check, `ReadsWhatIsKeyed` alone has no theorem. Its proof
would begin with what `Runs` returns for a keyed signal of any length.
