# A verification project for mplayer2

TLA+ models of the parts of mplayer2 where several actors share state or where a
long sequence of legal calls has to keep a promise; TLC configurations that check
them on small instances; and proofs, checked by TLAPS, for every instance.

The player is some 200,000 lines of C.  Most of it is data: parsing of
containers, decoding, filtering, drawing.  What is hard to get right and hard to
test is the small rest: a cache filled by another process without a lock,
commands handed over through shared memory, datagrams that come out of order,
input events that arrive between any two lines of the play loop, rings between
threads, queues with limits.  That is what is modelled here.

## 1. The system

### 1.1 Components, their state and how they interact

| component | state | operations | interacts with |
|---|---|---|---|
| stream (`stream/stream.[ch]`, drivers) | `s->pos`, `eof`, one sector in `buffer` | read, seek, skip, reset, control | the demuxer calls it; it calls the cache or a driver |
| **stream cache** (`stream/cache2.c`) | a ring in shared memory, the window `min_filepos..max_filepos`, `offset`, `read_filepos`, `eof` | `cache_fill` in the filler process or thread; `cache_read`, `cache_stream_seek_long`, prefill, uninit in the player | shared memory, no lock |
| **cache commands** (`stream/cache2.c`) | `control`, its arguments and result | `cache_do_control` (player), `cache_execute_control` (filler) | the same stream and window as the cache |
| **RTP reorder cache** (`stream/rtp.c`) | `rtpbuf`: slots, their sequence numbers, `first` | `rtp_cache`, `rtp_cache_reset`, `rtp_get_next` | a UDP socket below, the stream above |
| **input queues** (`input/input.c`, `mp_fifo.c`) | keys down, autorepeat, `key_cmd_queue`, `control_cmd_queue` with their counts of abort commands | feed key, read slave commands, get, peek, check for interrupt | every loop of the player and every blocking read |
| **command loop** (`mplayer.c`, `command.c`) | `seek`, `stop_play`, `restart_playback` | take a command, run it, queue a seek, seek | input queues, play loop |
| **capture ring** (`stream/tvi_v4l2.c`) | a ring of frames that grows, head, tail, count | `video_grabber` (thread), `grab_video_frame` | a mutex around some of the accesses |
| **play loop** (`mplayer.c`) | audio/video timing, `restart_playback`, pause | `run_playloop`, `fill_audio_out_buffers`, `seek`, `seek_reset` | everything |
| **packet queues** (`libmpdemux/demuxer.c`) | one list of packets per stream, with limits | add, fill, read, free, next pts, seek | demuxers below, decoders above |
| **video output** (`libvo/video_out.c`) | `frame_loaded`, `hasframe`, `waiting_mpi` | draw, flip, redraw, skip, reset | the play loop |
| **audio output rings** (`libao2/ao_{jack,sdl,coreaudio,portaudio}.c`) | a ring, `paused`, `underrun` | play (player), callback (sound thread), reset, pause | a callback thread |
| play tree (`playtree.c`) | tree of files, an iterator with a stack | step, up, loop | the command loop |
| configuration (`m_config.c`, `m_option.c`) | option values with a stack of saved ones | set, push, pop | start of each file |
| filters, decoders, demuxers, subtitles, network clients, OS layer, Win32 loader | codec and format state | - | sequential, data-driven |

`PROJECT.json` lists them all under `components` with the reason for each that is
not modelled.

### 1.2 What is hard

* **No lock.**  The cache's two processes store and load plain fields
  (`cache2.c:66-83`).  Neither C nor the hardware orders those accesses; the code
  relies on the order of a few of them and on who stores what.
* **Two views of a position.**  `s->pos`, `read_filepos`, `min_filepos` and
  `s->stream->pos` all mean "where we are" and are moved by different calls.
* **Giving up.**  Every wait in the player may be cut short by a key press
  (`stream_check_interrupt`); what was waited for goes on regardless.
* **Order.**  RTP packets, events and commands come in an order nobody chose.
* **Looking twice.**  The play loop peeks at a command and then fetches one.
* **Limits.**  Fill limit, seek limit, prefill, key FIFO, ring sizes, number of
  keys down: at each one something must give way, and the right thing.

### 1.3 What makes each component correct

* Stream cache: the window holds the file; the reader gets the file's bytes in
  order; old bytes are kept for seeking back; neither side waits for ever.
* Commands: a command gets its own answer, soon; memory is freed when nobody
  uses it; the window still holds the file afterwards.
* RTP: packets in order, none twice, only lost ones missing.
* Input: nothing that aborts is lost, queues stay bounded and ordered, counters
  match the queues, a pending seek goes first.
* Capture ring: frames whole, once, in order; growing the ring disturbs nothing.
* Packet queues: packets in order per stream, none lost or repeated by reads, peeks,
  seeks and switches; the counters match the queues; the limits end in `eof` and an
  `eof` is the end or a limit; a shared packet is freed once.
* Play loop: sound starts with the first picture and stays in step; a precise seek
  shows the picture asked for; `restart_playback` ends; the end of the file is
  noticed when all has been shown and heard, and not before.
* Video output: what is flipped is what was drawn last; no picture outlives a reset.
* Audio rings: bytes out in order, reset leaves nothing behind, no deadlock on pause.

## 2. Modules

| module | models | composed with |
|---|---|---|
| `StreamCache` | `cache2.c` without commands: filler, reader, ring; `stream_read_internal`, `stream_seek_internal`, the in-buffer seek of `stream.h`, `seek_forward` of `stream_file.c` | - |
| `ByteStream` | what a `stream_t` promises its reader: the abstract specification | `StreamCache` implements it (`File == INSTANCE ByteStream WITH buf <- ...`) |
| `StreamCacheProofs` | theorems about `StreamCache` | extends `StreamCache` |
| `CacheControl` | `cache_do_control` against `cache_execute_control` | extends `StreamCache`: one more step of the filler, more calls of the reader |
| `RtpReorder` | `rtp.c`'s cache, under a network that loses, delays and repeats | - |
| `InputQueue` | `mp_fifo.c`, `input.c`'s keys and queues, the play loop's commands, the interrupted opening of a file | - |
| `TvRing` | `tvi_v4l2.c`'s video ring | - |
| `Demuxer` | `demuxer.c`'s packet queues, filled as `demux_lavf.c` and `demux_rawdv.c` do, with everything that reads, seeks or switches tracks | - |
| `PacketFeed` | what the queues promise a decoder: its track's bytes in order | `Demuxer` implements it (`Feed == INSTANCE PacketFeed WITH id <- sh`) |
| `PlayLoop` | `run_playloop` with sound, pictures, commands and seeks, composed with `video_out.c` and an audio output that plays by itself | - |
| `AudioRing` | `ao_jack.c`'s ring between the player and JACK's thread | - |
| `SoundFifo` | what a driver's buffer promises: sound in order until a reset | `AudioRing` implements it (`Sound == INSTANCE SoundFifo`) |
| `CacheControlProofs`, `RtpReorderProofs`, `TvRingProofs`, `InputQueueProofs`, `AudioRingProofs`, `DemuxerProofs`, `PlayLoopProofs` | theorems about the modules they are named for | extend them |

`MC*.tla` instantiate them for TLC.  `MCStreamCache`'s specification is `FairSpec` without `Reset`, which `Resets = FALSE`
rules out in that run; `control` has it, as `ResetStream`.

### 2.1 StreamCache

State.  `buffer`, `min_filepos`, `max_filepos`, `offset`, `eof`, `read_filepos` are
the fields of `cache_vars_t`; `f_*` are the locals of `cache_fill`, `newb`, `cell`,
`len`, `copied`, `got` those of `cache_read`; `stream_pos`, `stream_eof` are the
filler's copy of the `stream_t` and `device` is the file offset; `pos`, `s_eof`, `buf`
are the player's `stream_t`.  `fpc` and `rpc` say where each process is.

A byte *is* its position in the file, so any byte in a wrong place shows.

Actions.  One action is one access to a shared field.  The filler: `FillStart`
(the one look at `read_filepos`, and whether the cache has to be dropped),
`DropStore` (three stores, in any order), `DropSeek`, `PlanFull` / `PlanRead`,
`ReadByte` / `ReadDone` (a read may be short), `Publish` (`eof`, `max_filepos`,
`offset`, in any order), `FillEnd`.  The reader: `FillBuffer` starts `cache_read`:
`CheckMax`, `CheckMin`, then `WaitEof`, `WaitInterrupt` or `WaitRetry`, or `CountNew`
(which may use the value loaded for the check or load it again: the compiler
decides), `Locate`, `CopyByte`, `Advance`, `Return`; `SeekInBuf`, `SeekLong`,
`SeekClearEof`; `PrefillDone`, `Uninit`, `Reset`.

The stores of one statement sequence with no call in between may land in any
order; stores before and after a call keep theirs, and a load sees the last
store (no torn words, 64-bit `off_t`).

Left out: messages and statistics, sector sizes above the maximum, sleeping
times.  `stream_read_internal`'s second try at the end of a file is the case of
`ReadDone` with no byte.

### 2.2 CacheControl

The handshake's fields are `volatile`, so their stores keep the program's order: one
action each.  A command runs between two calls of `cache_fill` (`xpc`).  The stream's
own `control` is external: it answers or fails, and a seek goes to the position asked for.
Left out: the copies of the stream's time and length, and drivers without `control`.
`Forked` tells a build in which the filler is a process that is killed from one in which
it is a thread that is asked to quit.

The filler loads `control` three times in a turn, and each load is an action: the test for the
quit (`Quit`, `NotQuit`, `cache2.c:259`), the test for a command (`NoCommand`, `Command`, line 280)
and the switch (`TakeArg`, `Unsupported`, line 281), which may each meet another value.  A quit that comes after
the first is "unsupported" to the switch, and the thread goes on.  `control` starts as the 0 of `cache_init`'s
memset (`"zero"`), a command nobody gave, whose answer may meet the player's first one.

Two variables are history and no part of the program: `given_up` counts the commands that the player
left behind after a key press, and `late` says that its quit came when this turn's test for it was over.  The properties
name the cases in which the code does not keep its promise by them; no action is guarded by `late`, and `given_up` only
bounds the model.

### 2.3 RtpReorder

Packets are numbered as sent; `SeqOf` gives the 16-bit number, with `SeqMod` for 2^16, and
`Newseq` is the difference of two such numbers as the code computes it, in `int`.  `Receive`
has one disjunct per branch of `rtp_cache`, `Take` is the rest of `rtp_get_next`.  The network
(`Send`, `Lose`, `Fresh`, `Again`) is external; a header longer than its datagram is left out.

### 2.4 InputQueue

`Down`, `Press`, `ReleaseAll` are `mplayer_put_key` and `mp_input_feed_key` with
`interpret_key`; `SlaveCmd` and `QueueCmd` enter the control queue at its tail and head;
`Look` and `Fetch` are `mp_input_get_cmd` with and without `peek_only`, autorepeat included.
Events come wherever the player reads them (`Places`), in particular between `Peek` and `Get`,
two calls of `mp_input_get_cmd`.  A command is a kind: a seek, one of the two abort
commands, or another.  `Opened` leaves out the binding sections that a new file turns on (`mplayer.c:4812-4817`).

### 2.5 TvRing

`Grow` is the grabber's locked section, `Take` to `Advance` that of the demuxer; `Write`,
`Written`, `MoveTail`, `LoadCount` and `StoreCount` run outside of the lock.  Each entry has
a pointer to its buffer and the frame its timestamp belongs to, apart, since growing moves
both.  `immediate_mode` is chosen at the start.

`video_cnt++` is not under the lock under which `video_cnt--` is: each is a load and a store (`LoadCount` and
`StoreCount`, `Uncount` and `Advance`), and nothing keeps the two threads' apart.  A store may undo the other's; the
history variable `lost` notes the first time.  From then on the count is wrong for good, TLC finds frames delivered out
of order at once, and `FramesInOrder` and `NoTornFrame` claim nothing.  What they claim is all of the time before:
counts that overlap without a loss, growth, wraps and drops included.  That the buffers stay distinct and that both
threads end is claimed for every behaviour.

### 2.6 Demuxer

State.  Per stream `queue` (`ds->first` to `ds->last`), `packs`, `bytes`, `current`, `pos`, `size`
(`buffer_pos`, `buffer_size`), `eof`, the selected track `id` and the one decoded, `sh`;
`refs` counts the references of each packet's master.  A packet *is* its place in the
file.  `told`, `nextU` and `nextB` are bookkeeping: what `ds_get_next_pts` announced and how far a
reader has got.

Actions.  All of it is one thread, but the calls loop, and what one call leaves behind is
what the next one finds.  A call begins (`GetPacket`, `GetPacket2`, `ReadData`, `Pattern3`,
`FillDirectly`, `GetNextPts`, `GetPacketSub`, `RepeatLast`) and takes one step per turn of its loop:
`StartFill` frees the packet in hand, `FillTake` takes one from the queue, `FillDemux` reads
one from the file into the streams that want it (two for raw DV), `FillEof` sets `eof`, `Give...` hand
bytes over, `PeekDone` answers a look ahead.  `Seek`, `SeekChapter`, `Switch`, `SubOn` and `SubOff`
come between calls.  `demux_pattern_3` stops at any byte: where the pattern is, is data.

`Whole` are the streams whose decoder takes whole packets (`ds_get_packet2`, which asserts that
nothing is half read), `Filled` those on which a format calls `ds_fill_buffer` by itself; the theorems
about readers assume that no stream is both, as in the code.  A demuxer that is at the end
stays there until a seek (a file that grows while it is read is left out); asf's unfinished fragments,
the several files of `demux_demuxers.c`, Ogg radio streams, whose sound changes its track by itself (`demux_lavf.c:773`), and the
short last frame of a raw DV file (`demux_rawdv.c:121-124`) are left out too.

### 2.7 PlayLoop

One turn of `run_playloop` is `Start` (sound is written), `KeepPicture` / `TakeHeld` /
`DecodePicture` / `DropPicture` / `NoMorePictures` (`update_video`), `ShowNothing` / `Flip`, `After`
(sound without pictures, end of file, redraw), `Command...` and `CommandsDone`, `Tail` (looping, seek).
`Fill` is `fill_audio_out_buffers` with `audio_start_sync` and `decode_audio`; `DrawImage`, `Flip`,
`VoSeekReset` and `Took` carry `video_out.c`'s flags.  `AoPlay` is the audio output, which plays
between any two steps.

Time is counted in pictures, and a unit of sound lasts as long as a picture.  A picture carries
whether it is from before the last seek.  What depends on the clock (whether a picture is late and
dropped, whether it is its time, how much a driver takes) is a choice.  Left out: timeline parts and
`-endpos`, seeks by percentage, `-sstep`, autosync and `adjust_sync`
(whose correction is zero while sound and picture agree), untimed sound, gapless change of file,
drivers that buffer pictures (`vdpau`), a change of the sound's format, a delay in the decoder, and an output that is not paused
and takes nothing although little sound is left in it, for which the loop gives up the rest (`mplayer.c:2577-2581`): the output
of the model takes some whenever there is room.
The demuxer seeks accurately (`accurate_seek`, libavformat's), so a relative seek is made absolute from the
current time.  The time of a command is any time between two turns, so the 300 ms for which a second
seek may wait are covered both ways.

### 2.8 AudioRing

`Play`, `ClearUnderrun`, `WriteBuffer`, `Copy` and `Publish` are `fill_audio_out_buffers` with `play` and
`write_buffer`; `Seek` or `Uninit`, `ResetFifo` and `ResetEnd` are `reset`; `Begin`, `ReadBuffer`, `Read`, `Drain` and `End` are `outputaudio`
with `read_buffer`.  Every load and store of a field that the other side uses is a step of its own.  The ring is libav's
`AVFifoBuffer`, which is not in the repository: a pointer and a running 32-bit index (`IndexMod`) for each
side, data first and index after it, as `ao_jack.c` relies on with no lock of its own.  A sample is known by its number;
`mark` and `cb_mark` remember what had been written before the last reset.

Nothing keeps the player and JACK's thread apart: a reset may come at any place of a callback, and a callback may set `underrun` at any
place of `play`.  The history variable `overlapped` says that the last reset fell between a callback's look at how much there is and its drain;
the indices may be wrong then, until a reset that does not.  The properties and `SoundFifo` (`Break`) promise nothing for that time, and everything else
at any time.  While the indices are wrong the space may come out negative, where the code's copy is undefined; in the model the call ends (`WriteBuffer`).

## 3. Runs

| run | bounds | shows |
|---|---|---|
| `cache` | ring of 8 bytes, sectors of 2, fill limit 4, reads of up to 3, a file of 13 bytes, seeks to 0, 3, 6, 11, forward only; prefill asked for 9; key presses that cut short any wait | window intact, bytes right, back bytes kept, implements `ByteStream`; calls and prefill come back |
| `cache_wild` | the same file with seeks back | **violation**: negative count |
| `control` | a linear stream of 2 bytes, ring of 2, one question, one chapter (the end), a thread, resets, key presses that give up at most one command | own answer until a command is given up; freed after the thread has gone unless a command is given up or the quit is late; every command, read and seek ends |
| `control_seek` | chapter seeks to 0 and 2 | **violation**: window wrong after a chapter seek |
| `rtp` | 8 slots, 30 packets from number 30 of 48 on, one overtaking (not across the wrap), losses of 1 and 9, one repeat, one bad datagram | in order; only lost ones missing where no number wrapped and no loss was longer than the cache |
| `input` | two keys, an arrow and a mouse button, chords of two, FIFO of two, four commands, signals | counters, order, repeat, commands are taken |
| `input_race` | the same with a slave command | **violation**: another command before the pending seek |
| `tv_ring` | up to three buffers, five frames | frames whole, once, in order until a count is lost; buffers distinct, both threads end, always |
| `audio_ring` | a ring of 5 samples, bursts of 2, periods of 3, indices modulo 12, 13 samples, two seeks, any pauses | sound in order (`SoundFifo`), none from before a seek and none while paused, but after a reset that fell into a read; writing goes on to the end, unless an underrun is noted over a full ring |
| `audio_reset` | the same | **violation**: sound from before a seek, after a reset that fell into a read |
| `demux` | four files of four packets (two sound tracks and subtitles, late sound, empty packets, raw DV), limits of 3 packets and 4 bytes, reads of up to 3 bytes, two seeks or switches | counters, references, limits, honest ends, peeks; implements `PacketFeed`; files are played to their end |
| `playback` | three pictures with keys at 1 and 3, three units of sound, an output that holds two; with and without sound or pictures, seekable or not, a filter that doubles pictures; seeks to 2 and 4, by -1 and 2, precise or not; played once or twice; two commands | sound in step and silent before its picture, current pictures only, precise seeks, honest ends; every seek settles and every file ends |

**Why the bounds are enough.**  The cache's ring keeps the proportions of the
smallest one that `cache_init` makes (16 sectors, half kept back, 8 the fill limit): a file
one and a half times as long as the ring makes both the write and the read position wrap,
a read size that divides neither makes them wrap in the middle of a sector, and the seeks reach in
the buffer, in the window, just past it and far past it.  What does not depend on
sizes is proved for all of them.  RTP needs as many packets as it takes to go around the
ring more than twice, since what is left in the slots from the first round matters in
the second; `Apart` and `RepeatLag` keep losses and repeats as far apart as a ring of
`MAXRTPPACKETSIN` = 32 does with single losses.  Four commands fill a key FIFO of two (the least the
option allows), one abort command above it, and one more.  In `demux`, three packets and four bytes make
either limit the first one reached, and a file of four is longer than both; two
seeks or switches are one that leaves something behind and one that finds it.  In
`playback` there is a picture before, at and after each key picture, and sound ends with, before or after the
pictures; two commands make every pair (a seek while one is pending, a step or a pause during a seek, a seek
at the end); three commands, tried once, gave 1.1 million states and nothing new.  In `audio_ring` a period and a burst divide neither the ring nor each other, so reads and writes wrap in their middle,
and 13 samples take the indices around.  Three buffers let the video ring
grow with the head in front of, at and behind the tail, after a wrap.

**Fairness.**  `StreamCache` and `CacheControl`: both processes run on.  Neither holds
anything the other one needs to run, every sleep in `cache_mainloop` is finite, and reads of
the stream return.  A call of the player is not fair (the user may do nothing), its
steps are.  `InputQueue`: the player runs on, and time passes (`Elapse`); users and signals
owe nothing.  `TvRing`: threads run on; the card need not capture anything, and `select`
times out after a second, so that the grabber does look at `shutdown`.

`Demuxer`: a call runs on to its end (WF), and the play loop asks again and again for sound and for
pictures while a track is selected (SF on the calls, since the other stream's calls come in between:
`run_playloop` calls `fill_audio_out_buffers` and `update_video` in every turn).  `PlayLoop`: turns follow one another and the
output plays (WF); and the time of a picture comes (SF on `Flip`): whether a turn comes too early for it
is a choice of the model, where the real clock makes it come within some turns.  Users owe nothing.
`AudioRing`: the play loop fills the output in each turn, a call runs on, and JACK goes on calling (WF).

Deadlock is not checked in these runs: each system may really stop (stream closed, player
gone, all packets delivered, file ended).

**Disagreements between code and comments** are the four violations, listed as
findings in `PROJECT.json`.  The models show more of the kind, which need no run of their
own; the hazards' notes name them: `eof` found before a seek and stored after it
(`cache2.c:243`), the drop's seek that fails on a pipe (`cache2.c:183`), `stream_reset` behind
the cache's back (`stream.c:480`), a command given up and carried out later
(`cache2.c:620`; put `OwnAnswer` in place of `AnswerIsMine`), the quit of `cache_uninit` given
up the same way, or stored after this turn's test for it and answered by the switch's default (`cache2.c:299`), after either of which the
thread goes on in freed memory (put `StoppedFirst` in place of `FreedAfterStop`; without key presses it is the second), the command 0 that `cache_init`
leaves in `control` (`cache2.c:329`), whose refusal the player may take for that of its first command, a
late packet at the wrap of the sequence numbers (`rtp.c:103`), the packet exactly
`MAXRTPPACKETSIN` ahead (`rtp.c:115`), the first queued command freed after an interrupted
opening (`mplayer.c:973`) and the key stored behind the end of `key_down` (`input.c:1070`).  Four of them in detail, with the
change of a configuration that shows each:

* `DOCS/tech/slave.txt:382-385` says that a `sub_select` of -1 turns the subtitles' display off;
  `mp_property_sub` (`command.c:1761-1765`) leaves `sh` and the queue, and `update_subtitles`
  (`mplayer.c:1986-1997`) goes on reading what is queued.  `PacketFeed` is therefore about `sh`, not `id`.
* `DOCS/tech/slave.txt:276-279` says of a seek with `hr-seek` "force precise seek if possible".  A
  picture that a filter has queued (`vf_queue_frame`, used by `vf_yadif`, `vf_softpulldown`, `vf_tfields` and `vf_telecine`)
  survives the seek, since nothing in `seek_reset` touches it, and `update_video` (`mplayer.c:2818`) puts it out
  first.  Add `Setup("video", TRUE, TRUE, TRUE)` to `MCSetups`, and `PreciseSeek` and `ShownIsCurrent` are
  violated.  The run and the theorems have such filters where nothing seeks.
* `rtp.c:72-74` says "Otherwise copy it in cache according to its sequence number".  `newseq` (`rtp.c:103`) is the int difference of two unsigned shorts, so a packet that
  overtakes another across the wrap has -65535, restarts the cache, and the packet it overtook is dropped as too old.  With
  `WrapSwaps = TRUE`, no losses and no repeats, `SkipsOnlyLost` is violated.
* `ao_jack.c:343` says of `play` "write data into buffer and reset underrun flag".  It resets first and writes then; a callback
  in between finds too little and sets the flag over the data.  If that write filled the ring, `get_space` is 0 and the play
  loop does not call `play` again; if it was the last one, nothing is left to write.  The flag stays, and silence with it, until a seek makes room: the loop waits for
  an output that does not play.  `SoundGoesOn` names the first case (`LateUnderrun`); without it the property is violated.

## 4. Proofs

`StreamCacheProofs` proves, for every size of sector, ring, read and file, from
`SizeAssumption` and `SwitchAssumption` alone:

* `TypeCorrect`: `Spec => []TypeOK`.  The inductive invariant is `TypeInv`, which adds to the
  types which locals are in use where, and that the filler's plan fits the ring.
* `WindowAlwaysIntact`: on a file (not a pipe), `Spec => []WindowIntact`, whatever the reader
  does.  `WindowIntact` by itself is not inductive: a step that stores one of
  `max_filepos` and `offset` keeps it only because of what the filler's locals say about
  the other.  `WindowInv` says where the window lies in the ring (`offset` at or below the window's start or
  within one ring of it), that the cells the coming read will overwrite have left the window, that
  the bytes read so far are those that follow `max_filepos`, and what holds between the stores
  of a publication.
* `ForwardReaderSafe`: for a reader that neither seeks back nor resets the stream,
  `Spec => [](DataRight /\ NoWildCopy)`.  The invariant `ForwardInv` adds what the code
  relies on without saying so: `read_filepos` only grows, so the filler's old look at it is a
  lower bound, and all that it overwrites lies at least `back_size` before that; the values the
  reader has loaded are bounds of those it would load now.
* `ForwardKeepsBack`: under the same assumptions the action property `BackBytesKept`.
* `CacheImplementsFile`: for the same reader, `Spec => ReadsAsFile`, the refinement of `ByteStream`.  Every step of the filler, and every
  step within a call, is a stutter or hides the sector at hand; the call's last step is `Deliver` or `End`.  It needs two facts more: the window does not
  reach past the end of the file (`EndOfWindow`), so neither do the bytes that a call has copied (`GotInFile`).  `End` may be a
  read given up, as in the code, where the caller cannot tell the two apart.

Each is proved by the three facts `Init => Inv`, `Inv /\ [Next]_vars => Inv'`, `Inv => property`,
one lemma per action or group of actions.  TLC checked the invariants first on the
instances above.

`CacheControlProofs` proves, for every cache and every set of commands and from
`ControlAssumption`:

* `AnswersMatch`: `CSpec => []AnswerIsMine`;
* `MemoryFreedInTime`: `CSpec => []FreedAfterStop`.

Both properties speak of the time until a key press makes the player give up a command, the second also of a quit that came
before the end of the test for it.  A late quit is carried through the invariant, too: what it says of `control`, the
three loads and the filler's place holds with it, but for the thread being gone.

The invariant `HandInv` follows a command from the player's stores to the filler's last one:
no command is out but the one the player waits for; once the filler has taken it, `uint_res`,
the stream's position and `control_new_pos` are that command's, in the order in which
`cache_execute_control` stores them; and `control` is cleared after all of them.  Once a
command is given up both conclusions are false (section 3).  `AnswerIsMine` alone is not inductive: it says
nothing while the filler is at work.

`RtpReorderProofs` proves, for every size of cache, number of packets and set of losses, and from `RtpAssumption`:

* `PacketsInOrder`: `Spec => []InOrder`;
* `OnlyLostSkipped`: `Spec => [](SkipsOnlyLost /\ SkipsOnlyLostUnwrapped)`.

Both assume `OneRound`, that the numbers of the packets sent do not wrap, and `CalmNetwork`: a loss is short (three packets at
most, less those that may overtake another) or longer than the cache, and no shorter than the overtaking; losses are a cache apart; a repeat comes within
three caches; and late, repeated and bad datagrams together are fewer than the tries for one packet (`Tries`).  These are
the limits of the code: as soon as one of them but the distance of losses is exceeded TLC finds a small cache that gives up a packet still under
way, restarts although it need not, or delivers one twice.  `RtpInv` says that what the cache holds is a function of what
has been received and what is expected (`Contents`), so that the proof is about sets of packets.  Each try in vain is then
accounted for by a packet that waits, was late, or came again, or by a bad datagram (`Counted`): when the tries run out the expected packet cannot be under way.
And nothing waits from beyond a loss ahead (`NoneBeyond`), so that the count holds again for the next packet.  The run's
instance lies within `CalmNetwork`; it goes around the sequence numbers, which the proofs leave to it.

`TvRingProofs` proves from `RingAssumption`, with nothing assumed of how the two counts interleave:

* `BuffersStayDistinct`: `Spec => []BuffersDistinct`, even if updates of `video_cnt` are lost.
  `RingInv` adds that head and tail lie in the ring and that nothing is written into or
  taken from a ring of no buffers yet;
* `NoFrameTorn`: `Spec => []NoTornFrame`.  `CountInv` says that, until an update is lost, `video_cnt`, and
  one frame while it is stored but not counted, is the distance from head to tail; a full
  ring has them in one place, which is where the new buffer goes.  A loss is for good (`LostForGood`), so a step that ends
  without one began without one (`CountUntilLost`);
* `FramesAlwaysInOrder`: `Spec => []FramesInOrder`.  `FramesInv` says that the buffers from head to tail hold
  whole frames in the order of capture, later than the one delivered last (`QueueWhole`, `QueueOrdered`; but for the head, once it is copied), that what the two threads have in
  hand is the next one in and the next one out (`HandOK`), and that every frame so far is delivered, queued, in hand or
  dropped (`NoneMissing`).  When the ring grows the new buffer goes in at the tail and the frames behind it move up: the
  lemma for it follows each position to its new place.

`DemuxerProofs` proves, for every file, limit and set of tracks:

* `TypeCorrect` and `NoQueueOverflows`: `[]TypeOK` and `[]QueuesBounded`; the invariant `BaseInv` adds that `packs`
  counts the queue, and where in a call a packet is in hand;
* `CountersAlwaysMatch`: `[]CountersMatch`.  The bytes are a sum, which the model defines as a recursive function on the places of
  the queue.  That it exists, and grows by the last and shrinks by the first packet, is proved by the least place at which
  it might fail: the library's theorem that `<` on the naturals is well-founded takes no operator as a parameter, so this
  much induction is within the prover's reach;
* `RefsCounted`: `[]RefsMatch`; `QueueInv` adds that queues are sorted and end before `filepos`, so that a
  packet is in a queue at most once and its holders can be counted;
* `EofIsTheEnd`: `[]EofMeansEnd`, and `QueuesFeed`: `Spec => FeedKept`, the refinement of `PacketFeed`; `ReaderInv` says that
  between the place a reader has got to and `filepos`, the packets of its track are exactly those in the packet in
  hand and in the queue, in order: lost and repeated packets are the two ways to break it;
* `AnnouncementsHold`: `[]AnnouncedIsNext`; `ToldInv` follows the announced packet from the queue to the reader.

The last three assume `Disciplined`: no stream is read both in whole packets and filled directly
(`ds_get_packet2`'s own assertion, `demuxer.c:830`).

`InputQueueProofs` proves from `InputAssumption` alone, for every set of keys, bindings, limit and number of commands:

* `AbortsAlwaysCounted`: `[]AbortsCounted`.  `StepQueues` first says of every action what it may do to a queue
  (`KeyChange`, `CtlChange`), so that the proofs below look at five changes, not at two dozen actions; `CountAppend`, `CountCons`
  and `CountTail` say what each does to the number of abort commands;
* `KeysAlwaysBounded`: `[]KeysBounded`, by `Bounded`: a queue above its limit holds an abort command.  It needs
  the theorem before: the counter tells a second abort command that there is one;
* `KeysAlwaysInOrder`: `[]KeysInOrder`, by `Numbered`: no command queued or taken has a number not given yet;
* `RepeatsAlwaysHeldKeys`: `[]RepeatsHeldKeys`.  After "release all" the repeat is still on with no key down; the next
  key that goes down finds room in the table, hence is new and starts it anew;
* `KeysNeverOvertakeSeek`: `Spec => []SeekFirst` if `OnlySeeksOutside` (no other command of slave mode, no signal).  It bounds the
  disagreement that `input_race` shows: keys come between the look at the queue and the fetch, too, but behind what was
  looked at (`SeekInv`).

`PlayLoopProofs` proves, for every length of film and sound, set of key pictures, output buffer and set of commands:

* `TypeCorrect`: `[]TypeOK`; the lemmas about `Fill` say what sound may come out of it, for every case of
  `audio_start_sync`;
* `SoundWaits`: `[]SilentUntilShown`, and `NothingIsCutOff`: `[]EndHonest`, by `EndInv`: what the locals of a turn
  (`video_left`, `audio_left`, `was_restart`) say of the state they were computed from;
* `SoundStaysInStep`: `[]InStep`, `NoStalePicture`: `ShownIsCurrent`, `SeeksArePrecise`: `PreciseSeek`, by `PicInv`: the loaded
  picture is the next one and not from before the seek, a pending precise seek has decoded no further than its target,
  `last_pts` is the time of the last picture taken, and what is written is ahead of it by `delay`.

The last three assume `FiltersKeepNone`: no filter holds a picture where the file can be sought, the
disagreement above.

`AudioRingProofs` proves from `AudioAssumption`, for every size of ring, burst, period and index and every interleaving of the two:

* `PausedAlwaysSilent`: `[]PausedIsSilent`.  By `PauseInv`, once a reset has cleared `paused` behind a paused player the
  ring is empty, only callbacks that began since are under way, and those find nothing, until the player goes on;
* `RingImplementsFifo`: `Spec => RingIsFifo`, the refinement of `SoundFifo`, and `CleanResetAlwaysEmpties`: `[]CleanResetEmpties`, by `FifoInv`.
  It holds while no reset has fallen into a read and is set up anew by the next one that does not (`RightUnlessOverlapped`); the types hold throughout.  The distance of the running indices, taken modulo `IndexMod`, is the
  number of samples in the ring, and that of the pointers, too (`FillIsDistance`, `FifoOK`); the samples there are the last ones
  written, in order.  What the player is copying lies outside of them and fits (`WriterOK`), what the callback has read is their
  start (`ReaderOK`), wherever the two are; and what was written before the last reset has left the ring (`MarksOK`).

Proved, and so in no passing run: the types, `NoWildCopy` for a forward reader (whose violation `cache_wild` shows for a reader that
seeks back) and `KeysBounded`; TLC checked each of them on the instances above before it was proved.

Only model-checked: liveness (`CallReturns`, `PrefillEnds`, `CommandReturns`,
`CallEnds`, `KeysTaken`, `GrabReturns`, `UninitReturns`, `AllPlayed`, `SeekSettles`, `PlayEnds`, `SoundGoesOn`), since fairness is out of the
prover's reach, and `RtpReorder` around the wrap of the sequence numbers.  Every safety property of the passing runs is a
theorem, with the assumptions named above.

## 5. Not modelled

Listed with reasons in `PROJECT.json`.  In short: formats, codecs, filters, drawing, options and
texts are data; device drivers' difficulty lies on the other side of a system call; the
vendored Win32 loader is not this program's logic.

The map covers a small share of the 240,000 lines for that reason: most of them are parsers of containers
and protocols, video outputs and filters, decoders' glue, drivers, the loader and tables.  They are sequential conversions from input to output, where a model would repeat the code and a test reaches as much.
The state that several actors share, or that a long sequence of calls can spoil, is in the few thousand lines that the modules above take up
and those of the plan below.

## 6. Plan

In this order, the most important behaviour first:

1. `AudioRing`'s rest: `ao_coreaudio`, whose callback pauses the output by itself, and `ao_portaudio`'s ring with a lock;
   the composition with `PlayLoop`.
2. `PlayLoop`'s rest: timeline parts and `-endpos`, drivers that queue pictures (`vo_vdpau`), autosync.
3. `PlayTree`, `m_config`'s stack, `pullup`'s fields, the time stamps that `dec_video.c` reorders.
4. Proofs: `RtpReorder` without `OneRound`.  A packet must not come late across the wrap (`WrapSwaps`), and the invariant has to say what
   numbers of the round before are left in `seq`, which `rtp_cache` takes for repeats.
