------------------------------ MODULE PlayLoop ------------------------------
(* The play loop of mplayer.c with the video output of libvo/video_out.c: one *)
(* turn of run_playloop writes sound, decodes and shows a picture, notices    *)
(* the end, runs commands and carries out a seek.  Time is counted in         *)
(* pictures; the unit of sound lasts as long as a picture.  The audio output  *)
(* plays on its own.                                                          *)
EXTENDS Integers, FiniteSetsExt

CONSTANTS
    Frames, Sounds,     \* the pictures and the units of sound in the file
    KeyFrames,          \* the pictures that a demuxer can go to
    AoSize,             \* what the audio output's buffer holds
    Setups,             \* the kinds of file, filters and output: see Init
    Targets, Offsets,   \* the positions and distances of seeks
    Loops,              \* the values of opts->loop_times once playing has begun
    MaxCommands         \* bound on the commands

ASSUME LoopAssumption ==
    /\ Frames \in Nat \ {0} /\ Sounds \in Nat /\ AoSize \in Nat \ {0}
    /\ KeyFrames \subseteq 1 .. Frames /\ 1 \in KeyFrames
    /\ Setups \subseteq [kind : {"both", "video", "sound"}, seekable : BOOLEAN,
                         doubling : BOOLEAN, redraws : BOOLEAN]
    /\ Targets \subseteq Nat /\ Offsets \subseteq Int
    /\ Loops \subseteq Nat \union {-1} /\ MaxCommands \in Nat

NoPts == 0
NoPicture == [t |-> NoPts, old |-> FALSE]
NoSeek == [type |-> "none", amount |-> 0, exact |-> FALSE]

VARIABLES
    setup,              \* what is played, through which filters and outputs
    at,                 \* the part of run_playloop that comes next
    vnext, held,        \* the next picture to decode; one that a filter holds
    loaded, waiting, hasframe,  \* vo->frame_loaded, waiting_mpi, hasframe
    vpts, last_pts,     \* sh_video->pts, last_pts
    video_pts,          \* mpctx->video_pts
    anext, abuf,        \* the next sound to decode; length of ao->buffer
    ao,                 \* what the audio output has yet to play
    delay,              \* mpctx->delay
    paused, step_frames, restart_playback, syncing_audio,
    hrseek,             \* hrseek_pts while hrseek_active, or NoPts
    hractive,           \* hrseek_active
    seek,               \* mpctx->seek
    stop_play, loop_times,
    was_restart, video_left, audio_left, full_audio, busy,  \* locals of a turn
    commands            \* the commands run so far

voVars == <<loaded, waiting, hasframe>>
videoVars == <<vnext, held, loaded, waiting, hasframe, vpts, last_pts>>
audioVars == <<anext, abuf, ao, delay, syncing_audio, hrseek, hractive>>
userVars == <<paused, step_frames>>
turnVars == <<was_restart, video_left, audio_left, full_audio, busy>>
vars == <<setup, at, videoVars, video_pts, audioVars, userVars, restart_playback,
          seek, stop_play, loop_times, turnVars, commands>>

HasVideo == setup.kind # "sound"
HasSound == setup.kind # "video"

-----------------------------------------------------------------------------
(* Sound.  A fill of the audio output takes and yields a record of what it    *)
(* works on: n and b are anext and abuf, d the delay, s whether sound is yet  *)
(* to be put in step, h the target of a precise seek.                         *)

Sound0 == [n |-> anext, b |-> abuf, ao |-> ao, d |-> delay,
           s |-> syncing_audio /\ HasVideo, h |-> hractive]

Least(i, j) == IF i < j THEN i ELSE j

\* written_audio_pts: where the sound ends that was handed to the output.
Written(x) == x.n - x.b

\* decode_audio: at least min in the buffer, or all there is.
Decode(x, min) ==
    LET more == IF x.b < min THEN Least(min - x.b, Sounds + 1 - x.n) ELSE 0
    IN  [x EXCEPT !.n = @ + more, !.b = @ + more]

Short(x, min) == Decode(x, min).b < min

\* Mutant: the sound written does not count as written ahead.
WriteToAo_Uncounted(x, took) == [x EXCEPT !.ao = @ + took]

\* write_to_ao, of which the driver takes took.
WriteToAo(x, took) == [x EXCEPT !.ao = @ + took, !.d = @ + took]

Space(p, x) == IF p THEN 1 ELSE AoSize - x.ao

\* The end of fill_audio_out_buffers, with the sound decoded or at its end:
\* the driver may take less than it said it would, but for a final chunk.  One
\* that takes nothing, where the sound is given up (lines 2577 to 2581), is left
\* out: a driver with room takes something.
Play(p, x, eof) ==
    LET size    == Space(p, x)
        n       == Least(size, x.b)
        partial == size > x.b
        takes   == IF p THEN {0} ELSE IF partial /\ eof THEN {n} ELSE {n} \union (1 .. n)
        status  == IF ~partial THEN 0 ELSE -1
    IN  IF n = 0 THEN {[x |-> x, status |-> IF partial /\ eof THEN -2 ELSE status]}
        ELSE {[x |-> [WriteToAo(x, took) EXCEPT !.b = @ - took], status |-> status] : took \in takes}

\* audio_start_sync: silence is written while the sound is ahead of the picture
\* v, and sound thrown away that is behind.  A seek in a file of sound alone
\* is made precise here.
Ahead(x, v) ==
    IF x.h THEN Written(x) - hrseek
    ELSE IF v = NoPts THEN 0 ELSE Written(x) - v - x.d

StartSync(p, x0, v) ==
    LET x     == Decode(x0, 1)
        size  == Space(p, x)
        ahead == Ahead(x, v)
        y     == [x EXCEPT !.h = FALSE]
        insync == [y EXCEPT !.s = FALSE]
    IN  IF Short(x0, 1) THEN Play(p, x, TRUE)
        ELSE IF ahead > 0 /\ x.h THEN Play(p, y, FALSE)
        ELSE IF ahead > 0 /\ ahead >= size
             THEN {[x |-> WriteToAo(y, IF p THEN 0 ELSE size), status |-> 0]}
        ELSE IF ahead > 0
             THEN LET z == [insync EXCEPT !.b = @ + ahead]
                  IN  Play(p, Decode(z, size), Short(z, size))
        ELSE LET all == Decode(insync, -ahead)
                 z   == [all EXCEPT !.b = IF @ + ahead > 0 THEN @ + ahead ELSE 0]
             IN  IF Short(insync, -ahead) THEN Play(p, z, TRUE)
                 ELSE Play(p, Decode(z, size), Short(z, size))

\* fill_audio_out_buffers: what it may make of x, and its result.
Fill(p, x, v) ==
    IF x.s \/ x.h THEN StartSync(p, x, v)
    ELSE Play(p, Decode(x, Space(p, x)), Short(x, Space(p, x)))

SetSound(x) ==
    /\ anext' = x.n /\ abuf' = x.b /\ ao' = x.ao /\ delay' = x.d
    /\ syncing_audio' = x.s /\ hractive' = x.h

-----------------------------------------------------------------------------
(* The parts of a turn.                                                       *)

\* Mutant: sound is written at once after a seek.
MayWrite_Always == HasSound

\* After a seek the sound waits for the first picture.
MayWrite == HasSound /\ ~restart_playback

\* pause_player from p with n steps to go.
PausePlayer(p, n) == paused' = TRUE /\ step_frames' = IF p THEN n ELSE 0

Start ==
    /\ at = "start"
    /\ was_restart' = restart_playback
    /\ IF step_frames > 0 /\ ~HasVideo
       THEN PausePlayer(paused, 0)
       ELSE UNCHANGED userVars
    /\ IF MayWrite
       THEN \E r \in Fill(paused', Sound0, vpts) :
               /\ SetSound(r.x)
               /\ full_audio' = (r.status >= 0) /\ audio_left' = (r.status > -2)
       ELSE /\ full_audio' = FALSE /\ audio_left' = FALSE
            /\ UNCHANGED <<anext, abuf, ao, delay, syncing_audio, hractive>>
    /\ video_left' = FALSE /\ busy' = FALSE
    /\ at' = IF HasVideo THEN "video" ELSE "after"
    /\ UNCHANGED <<setup, videoVars, video_pts, hrseek, restart_playback, seek,
                   stop_play, loop_times, commands>>

\* vo_draw_image: the picture is the next to show.
DrawImage(pic) == loaded' = TRUE /\ waiting' = pic

\* The rest of update_video once the picture pic is loaded: a picture before the
\* target of a precise seek is skipped (vo_skip_frame).
Took(pic) ==
    LET from == IF last_pts = NoPts \/ last_pts > pic.t THEN pic.t ELSE last_pts
    IN  IF hractive /\ pic.t < hrseek
        THEN /\ loaded' = FALSE /\ waiting' = pic
             /\ UNCHANGED <<vpts, last_pts, hractive, delay>>
        ELSE /\ DrawImage(pic)
             /\ hractive' = FALSE
             /\ vpts' = pic.t /\ last_pts' = pic.t
             /\ delay' = IF HasSound THEN delay - (pic.t - from) ELSE delay

NeedPicture == ~loaded /\ (~paused \/ restart_playback)

InVideo == at = "video" /\ at' = "decide"

\* No picture is wanted of update_video.
KeepPicture ==
    /\ InVideo /\ ~NeedPicture
    /\ video_left' = (hasframe \/ loaded)
    /\ UNCHANGED <<videoVars, delay, hractive>>

\* vf_output_queued_frame: what a filter holds comes first.
TakeHeld ==
    /\ InVideo /\ NeedPicture
    /\ held # NoPicture
    /\ held' = NoPicture
    /\ Took(held)
    /\ video_left' = TRUE
    /\ UNCHANGED <<vnext, hasframe>>

\* A picture is decoded and goes through the filters, which may hold another
\* one made from it.  The output may be configured anew for it (vo_config).
DecodePicture ==
    /\ InVideo /\ NeedPicture
    /\ held = NoPicture /\ vnext <= Frames
    /\ vnext' = vnext + 1
    /\ LET pic == [t |-> vnext, old |-> FALSE]
       IN  Took(pic) /\ held' = IF setup.doubling THEN pic ELSE NoPicture
    /\ hasframe' \in {hasframe, FALSE}
    /\ video_left' = TRUE

\* Or it is dropped, because it is late or before the target of a seek.
DropPicture ==
    /\ InVideo /\ NeedPicture
    /\ held = NoPicture /\ vnext <= Frames
    /\ \/ HasSound /\ ~paused /\ ~restart_playback
       \/ hractive /\ vnext < hrseek
    /\ vnext' = vnext + 1
    /\ video_left' = TRUE
    /\ UNCHANGED <<held, voVars, vpts, last_pts, delay, hractive>>

\* Mutant: the last picture counts as one that is left.
NoMorePictures_Left ==
    /\ InVideo /\ NeedPicture
    /\ held = NoPicture /\ vnext > Frames
    /\ video_left' = hasframe
    /\ UNCHANGED <<videoVars, delay, hractive>>

NoMorePictures ==
    /\ InVideo /\ NeedPicture
    /\ held = NoPicture /\ vnext > Frames
    /\ video_left' = FALSE
    /\ UNCHANGED <<videoVars, delay, hractive>>

Video ==
    /\ KeepPicture \/ TakeHeld \/ DecodePicture \/ DropPicture \/ NoMorePictures
    /\ UNCHANGED <<setup, video_pts, anext, abuf, ao, syncing_audio, hrseek, userVars,
                   restart_playback, seek, stop_play, loop_times, commands,
                   was_restart, audio_left, full_audio, busy>>

\* Mutant: a paused player shows nothing, not even after a seek.
Shows_Unpaused == video_left /\ ~paused

Shows == video_left /\ (~paused \/ restart_playback)

\* With sound, the picture waits until what is heard has come to it; without,
\* for the time between two pictures.
Heard == Written(Sound0) - ao
OnTime == restart_playback \/ ~full_audio \/ ao <= delay
TooEarly == ~restart_playback /\ (full_audio => ao > delay)

\* Nothing to show in this turn.
ShowNothing ==
    /\ at = "decide" /\ at' = "after"
    /\ ~Shows \/ ~loaded \/ TooEarly
    /\ busy' = (Shows /\ ~loaded)
    /\ UNCHANGED <<setup, videoVars, video_pts, audioVars, userVars, restart_playback, seek,
                   stop_play, loop_times, was_restart, video_left, audio_left, full_audio,
                   commands>>

\* vo_new_frame_imminent and vo_flip_page.  The first picture after a seek sets
\* off the sound; the last of a number of steps pauses.
Flip ==
    /\ at = "decide" /\ at' = "after"
    /\ Shows /\ loaded /\ OnTime
    /\ loaded' = FALSE /\ waiting' = NoPicture /\ hasframe' = TRUE
    /\ video_pts' = vpts
    /\ IF restart_playback /\ HasSound
       THEN \E r \in Fill(paused, [Sound0 EXCEPT !.s = TRUE], vpts) : SetSound(r.x)
       ELSE /\ syncing_audio' = (syncing_audio \/ restart_playback)
            /\ UNCHANGED <<anext, abuf, ao, delay, hractive>>
    /\ restart_playback' = FALSE
    /\ IF step_frames = 1
       THEN PausePlayer(paused, 0)
       ELSE /\ step_frames' = IF step_frames > 0 THEN step_frames - 1 ELSE 0
            /\ UNCHANGED paused
    /\ busy' = TRUE
    /\ UNCHANGED <<setup, vnext, held, vpts, last_pts, hrseek, seek, stop_play, loop_times,
                   was_restart, video_left, audio_left, full_audio, commands>>

\* add_step_frame.
AddStep == step_frames' = step_frames + 1 /\ paused' = FALSE

\* Mutant: the sound that the output has yet to play is not waited for.
Ended_Early(left, out) == ~left /\ ~video_left /\ (~paused \/ was_restart)

\* All was shown and heard; a player that is paused at the end stays there.
Ended(left, out) ==
    LET buffered == IF HasSound /\ ~paused THEN out ELSE 0
    IN  ~left /\ ~video_left /\ buffered = 0 /\ (~paused \/ was_restart)

\* Sound is written though no picture came; the end is noticed; or else the
\* loop may wait, and redraw a picture that the output no longer has.
After ==
    /\ at = "after" /\ at' = "commands"
    /\ IF HasSound /\ restart_playback /\ ~video_left
       THEN \E r \in Fill(paused, Sound0, vpts) :
               /\ SetSound(r.x)
               /\ full_audio' = (r.status >= 0) /\ audio_left' = (r.status > -2)
       ELSE UNCHANGED <<anext, abuf, ao, delay, syncing_audio, hractive, full_audio, audio_left>>
    /\ restart_playback' = (restart_playback /\ video_left)
    /\ IF Ended(audio_left', ao')
       THEN stop_play' = "eof" /\ UNCHANGED userVars
       ELSE /\ UNCHANGED stop_play
            /\ \/ UNCHANGED userVars
               \/ /\ HasVideo /\ ~busy /\ ~(setup.redraws /\ hasframe)
                  /\ paused /\ video_left
                  /\ AddStep
    /\ UNCHANGED <<setup, videoVars, video_pts, hrseek, seek, loop_times, was_restart,
                   video_left, busy, commands>>

-----------------------------------------------------------------------------
(* Commands.  One that comes while the loop is elsewhere waits for this part. *)

Command(isSeek) ==
    /\ at = "commands"
    /\ commands < MaxCommands /\ commands' = commands + 1
    /\ seek.type # "none" => isSeek
    /\ UNCHANGED <<setup, videoVars, video_pts, audioVars, restart_playback, loop_times, turnVars>>

\* The loop over the commands ends when one has stopped the player.
GoOn == at' = IF stop_play' # "no" THEN "tail" ELSE "commands"

\* queue_seek.
QueueSeek(type, amount, exact) ==
    LET sum == seek.amount + amount
        both == exact \/ seek.exact
    IN  CASE type = "absolute" -> seek' = [type |-> type, amount |-> amount, exact |-> exact]
          [] type = "relative" /\ seek.type = "absolute" ->
                seek' = [type |-> "absolute", amount |-> sum, exact |-> both]
          [] type = "relative" /\ seek.type # "absolute" ->
                seek' = IF sum = 0 THEN NoSeek
                        ELSE [type |-> type, amount |-> sum, exact |-> both]

\* While a seek has shown no picture yet, another one waits for 300 ms.
CommandSeek ==
    /\ Command(TRUE)
    /\ \E exact \in BOOLEAN :
         \/ \E t \in Targets : QueueSeek("absolute", t, exact)
         \/ \E d \in Offsets : QueueSeek("relative", d, exact)
    /\ UNCHANGED <<userVars, stop_play>>
    /\ GoOn

CommandStep == Command(FALSE) /\ AddStep /\ UNCHANGED <<seek, stop_play>> /\ GoOn

CommandPause ==
    /\ Command(FALSE)
    /\ IF paused THEN paused' = FALSE /\ UNCHANGED step_frames ELSE PausePlayer(FALSE, 0)
    /\ UNCHANGED <<seek, stop_play>>
    /\ GoOn

CommandNext == Command(FALSE) /\ stop_play' = "next" /\ UNCHANGED <<userVars, seek>> /\ GoOn

\* No command is left, or the next one waits for the seek to be carried out.
CommandsDone ==
    /\ at = "commands" /\ at' = "tail"
    /\ UNCHANGED <<setup, videoVars, video_pts, audioVars, userVars, restart_playback, seek,
                   stop_play, loop_times, turnVars, commands>>

-----------------------------------------------------------------------------
(* Seeks.                                                                     *)

\* demux_seek_lavf: the key picture at or before t, or else, forward, at or
\* after it; when there is none, the other one.
Landing(t, back) ==
    LET before == {k \in KeyFrames : k <= t}
        after  == {k \in KeyFrames : k >= t}
    IN  IF (back /\ before # {}) \/ after = {} THEN Max(before) ELSE Min(after)

\* A picture from before a seek.
Old(pic) == IF pic = NoPicture THEN pic ELSE [t |-> pic.t, old |-> TRUE]

\* Mutant: the picture that is loaded stays so.
VoSeekReset_Loaded ==
    /\ waiting' = Old(waiting)
    /\ hasframe' = FALSE /\ UNCHANGED loaded

\* vo_seek_reset, which leaves waiting_mpi as it is.
VoSeekReset ==
    /\ waiting' = Old(waiting)
    /\ hasframe' = FALSE /\ loaded' = FALSE

\* Mutant: a precise seek forwards goes to the key picture after the target.
Backwards_Forgets(s) == s.type = "relative" /\ s.amount < 0

\* Whether the demuxer is to go to the key picture before the target.
Backwards(s) == s.exact \/ (s.type = "relative" /\ s.amount < 0)

\* get_current_time.
Now == IF HasVideo THEN video_pts ELSE Heard

\* seek() and the seek_reset() in it, which leaves whatever a filter holds.
\* An unseekable file plays on.  The sound goes on near the picture that the demuxer found.
DoSeek(s) ==
    LET t == IF s.type = "relative" THEN s.amount + Now ELSE s.amount
        k == Landing(t, Backwards(s))
    IN  IF ~setup.seekable
        THEN /\ UNCHANGED <<videoVars, video_pts, audioVars, restart_playback>>
        ELSE /\ vnext' = k
             /\ held' = Old(held)
             /\ VoSeekReset
             /\ vpts' = NoPts /\ last_pts' = NoPts
             /\ video_pts' = t
             /\ anext' \in IF HasSound THEN (k - 1 .. k + 1) \cap (1 .. Sounds + 1) ELSE {1}
             /\ abuf' = 0 /\ ao' = 0 /\ delay' = IF HasVideo THEN 0 ELSE delay
             /\ restart_playback' = TRUE
             /\ hractive' = s.exact /\ hrseek' = IF s.exact THEN t ELSE hrseek
             /\ UNCHANGED syncing_audio

\* The end of the turn: the file is played once more, and a seek carried out.
Again == loop_times >= 0 /\ stop_play # "no"

Tail ==
    /\ at = "tail"
    /\ LET s == IF Again THEN [type |-> "absolute", amount |-> 1, exact |-> FALSE] ELSE seek
           reason == IF Again THEN "no" ELSE stop_play
       IN  /\ IF s.type # "none"
              THEN /\ DoSeek(s)
                   /\ stop_play' = IF reason = "eof" THEN "no" ELSE reason
              ELSE /\ UNCHANGED <<videoVars, video_pts, audioVars, restart_playback>>
                   /\ stop_play' = reason
    /\ loop_times' = IF ~Again \/ loop_times = 0 THEN loop_times
                     ELSE IF loop_times > 1 THEN loop_times - 1 ELSE -1
    /\ seek' = NoSeek
    /\ at' = IF stop_play' = "no" THEN "start" ELSE "stopped"
    /\ UNCHANGED <<setup, userVars, turnVars, commands>>

\* The audio output plays.
AoPlay ==
    /\ ao > 0 /\ ~paused
    /\ at # "stopped"
    /\ ao' = ao - 1
    /\ UNCHANGED <<setup, at, videoVars, video_pts, anext, abuf, delay, syncing_audio, hrseek,
                   hractive, userVars, restart_playback, seek, stop_play, loop_times,
                   turnVars, commands>>

-----------------------------------------------------------------------------
Init ==
    /\ setup \in Setups
    /\ at = "start"
    /\ vnext = 1 /\ held = NoPicture
    /\ loaded = FALSE /\ waiting = NoPicture /\ hasframe = FALSE
    /\ vpts = NoPts /\ last_pts = NoPts /\ video_pts = 0
    /\ anext \in IF HasSound THEN {1, 2} \cap (1 .. Sounds + 1) ELSE {1}
    /\ abuf = 0 /\ ao = 0 /\ delay = 0
    /\ paused \in BOOLEAN /\ step_frames = 0
    /\ restart_playback = TRUE /\ syncing_audio = TRUE
    /\ hractive = FALSE /\ hrseek = NoPts
    /\ seek = NoSeek /\ stop_play = "no" /\ loop_times \in Loops
    /\ was_restart = FALSE /\ video_left = FALSE /\ audio_left = FALSE
    /\ full_audio = FALSE /\ busy = FALSE
    /\ commands = 0

Turn == Start \/ Video \/ ShowNothing \/ Flip \/ After \/ CommandsDone \/ Tail

Next ==
    \/ Turn
    \/ CommandSeek \/ CommandStep \/ CommandPause \/ CommandNext
    \/ AoPlay

\* The loop runs on, the output plays on, and the time of a picture comes.
Fairness == WF_vars(Turn) /\ WF_vars(AoPlay) /\ SF_vars(Flip)

Spec == Init /\ [][Next]_vars /\ Fairness

-----------------------------------------------------------------------------
Pictures == [t : 0 .. Frames, old : BOOLEAN]
SeekTypes == [type : {"none", "relative", "absolute"}, amount : Int, exact : BOOLEAN]

PictureTypes ==
    /\ vnext \in 1 .. Frames + 1 /\ held \in Pictures
    /\ loaded \in BOOLEAN /\ waiting \in Pictures /\ hasframe \in BOOLEAN
    /\ vpts \in 0 .. Frames /\ last_pts \in 0 .. Frames

SoundTypes ==
    /\ anext \in 1 .. Sounds + 1 /\ abuf \in Nat /\ ao \in 0 .. AoSize /\ delay \in Int
    /\ syncing_audio \in BOOLEAN /\ hractive \in BOOLEAN

UserTypes == paused \in BOOLEAN /\ step_frames \in Nat

LoopTypes ==
    /\ setup \in Setups
    /\ at \in {"start", "video", "decide", "after", "commands", "tail", "stopped"}
    /\ video_pts \in Int /\ hrseek \in Int
    /\ restart_playback \in BOOLEAN /\ was_restart \in BOOLEAN
    /\ video_left \in BOOLEAN /\ audio_left \in BOOLEAN
    /\ full_audio \in BOOLEAN /\ busy \in BOOLEAN
    /\ seek \in SeekTypes
    /\ stop_play \in {"no", "eof", "next"} /\ loop_times \in Nat \union {-1}
    /\ commands \in Nat

TypeOK == PictureTypes /\ SoundTypes /\ UserTypes /\ LoopTypes

\* Once the first picture after a start or a seek is shown and the sound has been
\* put in step, what is written to the audio output is ahead of the picture by
\* exactly mpctx->delay, whatever is dropped, paused, refused or padded.
InStep ==
    setup.kind = "both" /\ hasframe /\ ~restart_playback /\ ~syncing_audio /\ anext <= Sounds =>
        Written(Sound0) = vpts + delay

\* No sound is written before the picture it belongs to.
SilentUntilShown == HasVideo /\ restart_playback => ao = 0

\* A picture that is shown is the one whose time the player takes for its own,
\* and none from before the last seek.
ShownIsCurrent ==
    [][Flip => waiting.t = vpts /\ ~waiting.old]_vars

\* The first picture after a precise seek is the one that was asked for.
PreciseSeek ==
    [][hractive /\ ~hractive' /\ loaded' /\ hrseek \in 1 .. Frames =>
        waiting'.t = hrseek]_vars

\* At the end of the file everything has been shown and heard.
EndHonest ==
    stop_play = "eof" =>
        /\ HasVideo => vnext = Frames + 1 /\ held = NoPicture /\ ~loaded
        /\ HasSound => anext = Sounds + 1 /\ ao = 0 /\ abuf = 0

\* A seek, precise or not, ends in a picture or in the end of the file.
SeekSettles == restart_playback ~> ~restart_playback \/ at = "stopped"

\* A player that is not left paused comes to the end.
PlayEnds == <>[](~paused) => <>(at = "stopped")

=============================================================================
