----------------------------- MODULE InputQueue -----------------------------
(***************************************************************************)
(* From key presses to commands (mp_fifo.c, input/input.c, and the loops   *)
(* of mplayer.c that take them).  Keys that are held down together are     *)
(* looked up in the bindings as one chord; the commands they are bound to  *)
(* go into key_cmd_queue, those of slave mode and of the player itself     *)
(* into control_cmd_queue, which goes first.  Events are read wherever the *)
(* player looks for a command, and wherever a blocking operation asks      *)
(* whether it should give up.                                              *)
(*                                                                         *)
(* Of a command only what the queues and the loops tell apart is kept: its *)
(* kind and, when a key gave it, its number.  "quit" and "prev"            *)
(* (play_tree_step) are the two abort commands.                            *)
(***************************************************************************)
EXTENDS Integers, Sequences, SequencesExt, FiniteSets

CONSTANTS
    Keys,         \* keys that have no release event
    Buttons,      \* keys with a press and a release
    Mouse,        \* those of them that double-click, and never repeat
    Dbl,          \* the code of a mouse button's double-click
    Bind,         \* the bindings: a kind of command for some chords
    MaxKeyDown,   \* MP_MAX_KEY_DOWN (32)
    KeyFifoSize,  \* -key-fifo-size (2 or more)
    CmdKinds,     \* the kinds of command that slave mode may send
    Signals,      \* may a signal ask the player to quit?
    BadFiles,     \* may a file fail to open though nobody interrupts it?
    MaxCmds       \* how many commands there are (bounds the model)

Kinds == {"seek", "other", "prev", "quit"}

ASSUME InputAssumption ==
    /\ Mouse \subseteq Buttons /\ Keys \cap Buttons = {}
    /\ DOMAIN Dbl = Mouse
    /\ \A chord \in DOMAIN Bind : Bind[chord] \in Kinds
    /\ MaxKeyDown \in Nat \ {0} /\ KeyFifoSize \in Nat \ {0}
    /\ CmdKinds \subseteq Kinds
    /\ Signals \in BOOLEAN /\ BadFiles \in BOOLEAN /\ MaxCmds \in Nat

VARIABLES
    \* input_ctx: the keys down, the autorepeat, the two queues
    key_down, last_key_down, ar_state, ar_cmd,
    key_q, key_aborts, ctl_q, ctl_aborts,
    \* mp_fifo: the button pressed last
    fifo_last,
    async_quit,
    \* the player: where it is, the command in hand, seek.type,
    \* restart_playback, whether the last seek (start_timestamp) is less
    \* than 300 ms ago, stop_play
    pc, cmd, seeking, restart, recent, stop,
    \* how many commands there were, and the last of a key that was taken
    made, taken

chord   == <<key_down, last_key_down>>
repeat  == <<ar_state, ar_cmd>>
key_cmd == <<key_q, key_aborts>>
ctl_cmd == <<ctl_q, ctl_aborts>>
queues  == <<key_cmd, ctl_cmd>>
timing  == <<restart, recent>>
player  == <<pc, cmd, seeking, timing, stop>>
vars    == <<chord, repeat, queues, fifo_last, async_quit, player, made, taken>>

NoCmd   == [kind |-> "none", n |-> 0]
QuitNow == [kind |-> "quit", n |-> 0]    \* async_quit_request's "quit 1"

Init ==
    /\ key_down = <<>> /\ last_key_down = FALSE
    /\ ar_state = -1 /\ ar_cmd = "none"
    /\ key_q = <<>> /\ key_aborts = 0 /\ ctl_q = <<>> /\ ctl_aborts = 0
    /\ fifo_last = "none" /\ async_quit = FALSE
    /\ pc = "open" /\ cmd = NoCmd /\ seeking = FALSE
    /\ restart = TRUE /\ recent = FALSE
    /\ stop = "none" /\ made = 0 /\ taken = 0

----------------------------------------------------------------------------
(* Keys.  Some calls of mp_input_feed_key add a command to the queue.      *)

IsAbort(kind) == kind \in {"quit", "prev"}
Ones(test)    == IF test THEN 1 ELSE 0

Bound(keys) == IF keys \in DOMAIN Bind THEN Bind[keys] ELSE "none"

Full(kind) == /\ Len(key_q) >= KeyFifoSize
              /\ ~IsAbort(kind) \/ key_aborts > 0

(* Mutant: what is dropped counts.                                         *)
Counted_Always(kind) == key_aborts + Ones(IsAbort(kind))

Counted(kind) == key_aborts + Ones(IsAbort(kind) /\ ~Full(kind))

(* Mutant: at_head.                                                        *)
Queued_AtHead(c) == <<c>> \o key_q

Queued(c) == Append(key_q, c)

(* A command of a key: unless there is none, or no room.                   *)
Offer(kind) ==
    IF kind = "none" THEN UNCHANGED <<key_cmd, made>>
    ELSE /\ made < MaxCmds /\ made' = made + 1
         /\ key_q' = IF Full(kind) THEN key_q
                     ELSE Queued([kind |-> kind, n |-> made + 1])
         /\ key_aborts' = Counted(kind)

(* Where the player reads events: read_all_events, and the window's.       *)
Places == {"frame", "peek", "get", "open", "failed"}

(* Mutant: the repeat of the keys held before goes on.                     *)
Restarted_Kept == IF ar_state = 1 THEN 1 ELSE 0

Restarted == 0

(* mplayer_put_key: a mouse button that goes down a second time soon after *)
(* is a double-click, too.                                                 *)
DoubleClick(b, twice) == twice /\ fifo_last = b /\ b \in Mouse

(* A button goes down; a double-click is looked up in place of the button  *)
(* that went down last.                                                    *)
Down(b, twice) ==
    LET new   == b \notin ToSet(key_down) /\ Len(key_down) < MaxKeyDown
        keys  == IF new THEN Append(key_down, b) ELSE key_down
        held  == last_key_down \/ new
        last  == Len(keys)
        click == DoubleClick(b, twice) /\ last > 0 /\ keys[last] = b /\ held
    IN  /\ pc \in Places
        /\ twice => fifo_last = b
        /\ key_down' = keys /\ last_key_down' = held
        /\ ar_state' = IF new THEN Restarted ELSE ar_state
        /\ Offer(IF click THEN Bound([keys EXCEPT ![last] = Dbl[b]]) ELSE "none")
        /\ fifo_last' = b
        /\ UNCHANGED <<ar_cmd, ctl_cmd, async_quit, player, taken>>

(* A key, or a button that comes up.  A key that was not down is put down  *)
(* for the while; of a chord only the first to come up makes a command.    *)
KeysWith(k) == IF k \in ToSet(key_down) THEN key_down ELSE Append(key_down, k)

PressKind(k) == IF k \notin ToSet(key_down) \/ last_key_down
                THEN Bound(KeysWith(k)) ELSE "none"

(* With MaxKeyDown keys down there is no place for one more: nothing is    *)
(* said of what follows.                                                   *)
Press(k) ==
    /\ pc \in Places
    /\ Offer(PressKind(k))
    /\ key_down' = Remove(KeysWith(k), k) /\ last_key_down' = FALSE
    /\ ar_state' = -1 /\ ar_cmd' = "none"
    /\ pc' = IF Len(KeysWith(k)) > MaxKeyDown THEN "wild" ELSE pc
    /\ UNCHANGED <<ctl_cmd, fifo_last, async_quit, cmd, seeking, timing,
                   stop, taken>>

(* MP_INPUT_RELEASE_ALL.                                                   *)
ReleaseAll ==
    /\ pc \in Places /\ key_down # <<>>
    /\ key_down' = <<>> /\ last_key_down' = FALSE
    /\ UNCHANGED <<repeat, queues, fifo_last, async_quit, player, made, taken>>

(* A line of slave mode (read_cmd_fd), and one of the player's own, which  *)
(* goes to the head of the queue (mp_input_queue_cmd).                     *)
CtlCmd(kind) == [kind |-> kind, n |-> 0]

Control(kind, queue) ==
    /\ made < MaxCmds /\ made' = made + 1
    /\ ctl_q' = queue
    /\ ctl_aborts' = ctl_aborts + Ones(IsAbort(kind))

SlaveCmd(kind) ==
    /\ pc \in Places
    /\ Control(kind, Append(ctl_q, CtlCmd(kind)))
    /\ UNCHANGED <<chord, repeat, key_cmd, fifo_last, async_quit, player, taken>>

QueueCmd ==
    /\ pc = "frame" /\ "other" \in CmdKinds
    /\ Control("other", <<CtlCmd("other")>> \o ctl_q)
    /\ UNCHANGED <<chord, repeat, key_cmd, fifo_last, async_quit, player, taken>>

(* SIGTERM, SIGINT: at any time.                                           *)
Signal ==
    /\ Signals /\ ~async_quit /\ pc # "exit"
    /\ async_quit' = TRUE
    /\ UNCHANGED <<chord, repeat, queues, fifo_last, player, made, taken>>

----------------------------------------------------------------------------
(* mp_input_get_cmd, once events are read.                                 *)

Idle == ctl_q = <<>> /\ key_q = <<>>

(* The queue that goes first.                                              *)
FirstQueue == IF ctl_q # <<>> THEN ctl_q ELSE key_q

Held == /\ key_down # <<>> /\ ar_state >= 0
        /\ Last(key_down) \notin Mouse

(* check_autorepeat's delay or period is over, ...                         *)
Repeated(kind) ==
    /\ Held /\ kind # "none"
    /\ kind = IF ar_state = 0 THEN Bound(key_down) ELSE ar_cmd
    /\ ar_state' = 1 /\ ar_cmd' = kind
    /\ made < MaxCmds /\ made' = made + 1

(* ... or not, or the chord is bound to nothing.                           *)
NotRepeated ==
    \/ UNCHANGED repeat
    \/ Held /\ ar_state = 0 /\ Bound(key_down) = "none"
       /\ ar_state' = -1 /\ ar_cmd' = "none"

(* peek_only: c is returned, and stays.                                    *)
Look(c) ==
    \/ async_quit /\ c = QuitNow /\ UNCHANGED <<repeat, queues, made>>
    \/ ~async_quit /\ ~Idle /\ c = Head(FirstQueue) /\ UNCHANGED <<repeat, queues, made>>
    \/ /\ ~async_quit /\ Idle /\ c.n = made + 1 /\ Repeated(c.kind)
       /\ key_q' = <<c>> /\ key_aborts' = Ones(IsAbort(c.kind))
       /\ UNCHANGED ctl_cmd

Popped(aborts, c) == aborts - Ones(IsAbort(c.kind))

(* c is returned, and taken out of its queue.                              *)
Fetch(c) ==
    \/ async_quit /\ c = QuitNow /\ UNCHANGED <<repeat, queues, made, taken>>
    \/ /\ ~async_quit /\ ctl_q # <<>> /\ c = Head(ctl_q)
       /\ ctl_q' = Tail(ctl_q) /\ ctl_aborts' = Popped(ctl_aborts, c)
       /\ UNCHANGED <<repeat, key_cmd, made, taken>>
    \/ /\ ~async_quit /\ ctl_q = <<>> /\ key_q # <<>> /\ c = Head(key_q)
       /\ key_q' = Tail(key_q) /\ key_aborts' = Popped(key_aborts, c)
       /\ taken' = c.n
       /\ UNCHANGED <<repeat, ctl_cmd, made>>
    \/ /\ ~async_quit /\ Idle /\ c.n = made + 1 /\ Repeated(c.kind)
       /\ taken' = c.n /\ UNCHANGED queues

NoneFound == ~async_quit /\ Idle /\ NotRepeated /\ UNCHANGED <<queues, made>>

Cmds == [kind : Kinds, n : 0 .. MaxCmds]

----------------------------------------------------------------------------
(* The play loop: a frame, then the commands, then the seek they asked for.*)

World == <<chord, fifo_last, async_quit>>

(* "don't wait too long here": sleeps with a look at the queue.            *)
Sleep ==
    /\ pc = "frame" /\ stop = "none"
    /\ (\E c \in Cmds : Look(c)) \/ NoneFound
    /\ UNCHANGED <<World, player, taken>>

(* The end of the file, or a read given up because of an abort command.    *)
EndOfFile ==
    /\ pc = "frame" /\ stop = "none"
    /\ stop' = "eof"
    /\ UNCHANGED <<World, repeat, queues, pc, cmd, seeking, timing, made, taken>>

FrameDone ==
    /\ pc = "frame"
    /\ pc' = "peek"
    /\ UNCHANGED <<World, repeat, queues, cmd, seeking, timing, stop, made, taken>>

(* A frame is shown, or what is left of the sound plays on.                *)
Shown ==
    /\ pc = "frame" /\ restart
    /\ restart' = FALSE
    /\ UNCHANGED <<World, repeat, queues, pc, cmd, seeking, recent, stop, made, taken>>

(* 300 ms pass.                                                            *)
Elapse ==
    /\ recent /\ pc \notin {"exit", "wild"}
    /\ recent' = FALSE
    /\ UNCHANGED <<World, repeat, queues, pc, cmd, seeking, restart, stop, made, taken>>

(* "execute the seek before running other commands"; and a frame from one  *)
(* place is shown before another seek.                                     *)
NotYet(kind) == IF kind = "seek" THEN restart /\ recent ELSE seeking

Peek ==
    /\ pc = "peek"
    /\ \/ \E c \in Cmds : Look(c) /\ pc' = IF NotYet(c.kind) THEN "seek" ELSE "get"
       \/ NoneFound /\ pc' = "seek"
    /\ UNCHANGED <<World, cmd, seeking, timing, stop, taken>>

(* The second mp_input_get_cmd, which reads events again.                  *)
Get ==
    /\ pc = "get"
    /\ \E c \in Cmds : Fetch(c) /\ cmd' = c
    /\ pc' = "run"
    /\ UNCHANGED <<World, seeking, timing, stop>>

(* run_command: seeks add up and may cancel out; a step in the play tree   *)
(* may lead nowhere.                                                       *)
Run ==
    /\ pc = "run"
    /\ seeking' \in IF cmd.kind = "seek" THEN BOOLEAN ELSE {seeking}
    /\ stop' \in IF cmd.kind = "prev" THEN {stop, "prev"} ELSE {stop}
    /\ pc' = IF cmd.kind = "quit" THEN "exit"
             ELSE IF stop' # "none" THEN "seek" ELSE "peek"
    /\ cmd' = NoCmd
    /\ UNCHANGED <<World, repeat, queues, timing, made, taken>>

(* Mutant: the seek stays queued.                                          *)
SeekLeft_Kept == seeking

SeekLeft == FALSE

(* After the commands: the seek, which takes back the end of the file.     *)
DoSeek ==
    LET left == IF seeking /\ stop = "eof" THEN "none" ELSE stop IN
    /\ pc = "seek"
    /\ seeking' = SeekLeft
    /\ restart' = (restart \/ seeking) /\ recent' = (recent \/ seeking)
    /\ stop' = "none"
    /\ pc' = IF left = "none" THEN "frame" ELSE "open"
    /\ UNCHANGED <<World, repeat, queues, cmd, made, taken>>

----------------------------------------------------------------------------
(* The next file: opening it may block, and mp_input_check_interrupt asks  *)
(* whether there is an abort command.                                      *)

Aborting == async_quit \/ key_aborts > 0 \/ ctl_aborts > 0

(* What the keys are bound to in this file's section (mp_input_set_section)*)
(* is not modelled: a key has one command.                                 *)
Opened ==
    /\ pc = "open"
    /\ pc' = "frame" /\ restart' = TRUE
    /\ UNCHANGED <<World, repeat, queues, cmd, seeking, recent, stop, made, taken>>

OpenFails ==
    /\ pc = "open" /\ (Aborting \/ BadFiles)
    /\ pc' = "failed"
    /\ UNCHANGED <<World, repeat, queues, cmd, seeking, timing, stop, made, taken>>

(* libmpdemux_was_interrupted: takes one command ...                       *)
TakeOne ==
    /\ pc = "failed"
    /\ \/ \E c \in Cmds : Fetch(c) /\ cmd' = c /\ pc' = "obey"
       \/ NoneFound /\ pc' = "open" /\ UNCHANGED <<cmd, taken>>
    /\ UNCHANGED <<World, seeking, timing, stop>>

(* ... and does what an abort command says, with the next file or another. *)
Obey ==
    /\ pc = "obey"
    /\ pc' = IF cmd.kind = "quit" THEN "exit" ELSE "open"
    /\ cmd' = NoCmd
    /\ UNCHANGED <<World, repeat, queues, seeking, timing, stop, made, taken>>

Player ==
    \/ Sleep \/ EndOfFile \/ Shown \/ FrameDone \/ Peek \/ Get \/ Run \/ DoSeek
    \/ Opened \/ OpenFails \/ TakeOne \/ Obey

User ==
    \/ \E b \in Buttons, twice \in BOOLEAN : Down(b, twice)
    \/ \E k \in Keys \cup Buttons : Press(k)
    \/ \E kind \in CmdKinds : SlaveCmd(kind)
    \/ ReleaseAll \/ QueueCmd \/ Signal

Next == Player \/ User \/ Elapse

Spec == Init /\ [][Next]_vars

(* The player goes on, and time passes.                                    *)
FairSpec == Spec /\ WF_vars(Player) /\ WF_vars(Elapse)

----------------------------------------------------------------------------
Count(q) == Cardinality({i \in DOMAIN q : IsAbort(q[i].kind)})

(* mp_input_check_interrupt gives up a blocking operation exactly when an  *)
(* abort command is waiting: the two counters never drift from the queues. *)
AbortsCounted == key_aborts = Count(key_q) /\ ctl_aborts = Count(ctl_q)

(* "limit to avoid repeated slow commands piling up": the limit, and one   *)
(* abort command above it.                                                 *)
KeysBounded == Len(key_q) <= KeyFifoSize + 1

(* The commands of keys are taken in the order of the keys.                *)
KeysInOrder ==
    \A i \in 1 .. Len(key_q) :
        key_q[i].n > IF i = 1 THEN taken ELSE key_q[i - 1].n

(* A repeated command is that of the keys that are down now.               *)
RepeatsHeldKeys ==
    ar_state = 1 /\ key_down # <<>> => ar_cmd = Bound(key_down)

(* "execute the seek before running other commands" (mplayer.c line 3734). *)
SeekFirst == pc = "run" /\ cmd.kind # "seek" => ~seeking

(* The command of a key is taken in the end.                               *)
KeysTaken == key_q # <<>> ~> key_q = <<>> \/ pc \in {"exit", "wild"}
=============================================================================
