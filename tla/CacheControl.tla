---------------------------- MODULE CacheControl ----------------------------
(***************************************************************************)
(* Commands to the stream through the cache (stream/cache2.c): while the   *)
(* cache runs, the player's stream_control is cache_do_control, which      *)
(* leaves the command in shared memory and waits until the filler, between *)
(* two calls of cache_fill, has carried it out (cache_execute_control).    *)
(* The fields of this exchange are volatile: each load and each store is a *)
(* step, in the order of the code.  Everything else is StreamCache, and    *)
(* the two share the stream, its position and the window.                  *)
(*                                                                         *)
(* A command is one that asks (STREAM_CTRL_GET_NUM_CHAPTERS, ...), one     *)
(* that moves the stream (STREAM_CTRL_SEEK_TO_CHAPTER, ...), "quit", the   *)
(* -2 that stops the filler where the cache is a thread, or "zero": the 0  *)
(* that cache_init's memset leaves in control, which is a command too      *)
(* (STREAM_CTRL_RESET) and one that nobody gave.                           *)
(***************************************************************************)
EXTENDS StreamCache

CONSTANTS
    Asks,      \* the commands that ask: their answers are their own names
    Chapters,  \* the stream positions that a seek command may go to
    Forked,    \* TRUE: the cache is a process; FALSE: a thread
    MaxGivenUp \* how many commands are left behind (bounds the model)

ASSUME ControlAssumption ==
    /\ Chapters \subseteq Nat
    /\ Asks \cap {"none", "seek", "quit", "zero"} = {}
    /\ Forked \in BOOLEAN
    /\ MaxGivenUp \in Nat

VARIABLES
    \* shared memory, volatile
    control, control_arg, control_res, control_new_pos,
    \* the filler: where it is in cache_execute_control, and its uint_res
    xpc, uint_res,
    \* the player, in cache_do_control: its command and its argument
    cmd, arg,
    \* history, no state of the program: how many commands the player has
    \* left behind, and did it ask the filler to quit too late for this turn?
    given_up, late

handshake == <<control, control_arg, control_res, control_new_pos>>
executor  == <<xpc, uint_res>>
history   == <<given_up, late>>
caller    == <<cmd, arg, history>>
cvars     == <<vars, handshake, executor, caller>>

NoAnswer == <<"none">>
Said(x)  == <<"said", x>>     \* the answer to a command that asks
At(p)    == <<"at", p>>       \* a position: an argument, or the answer to a seek
OK       == <<"ok">>          \* STREAM_OK
Failed   == <<"failed">>      \* STREAM_UNSUPPORTED, STREAM_ERROR

CInit ==
    /\ Init
    /\ control = "zero" /\ control_arg = NoAnswer
    /\ control_res = NoAnswer /\ control_new_pos = NoAnswer
    /\ xpc = "off" /\ uint_res = NoAnswer
    /\ cmd = "none" /\ arg = NoAnswer /\ given_up = 0 /\ late = FALSE

----------------------------------------------------------------------------
(* The filler.                                                             *)

(* Mutant: a full cache is not asked.                                      *)
Filled_WhenRead == fpc = "publish" /\ fpc' = "fill"

Filled == fpc' = "fill"

(* Every cache_fill is followed by cache_execute_control.                  *)
Fill ==
    /\ xpc = "off" /\ FillerNext
    /\ xpc' = IF Filled THEN "look" ELSE "off"
    /\ UNCHANGED <<handshake, uint_res, caller>>

(* Mutant: the main loop goes on after a quit.                             *)
AfterQuit_Fill == "fill"

AfterQuit == "dead"

(* The first load of control.  -2: the thread says so, and is gone.        *)
Quit ==
    /\ xpc = "look" /\ fpc # "dead" /\ control = "quit"
    /\ control_res' = Failed /\ control_new_pos' = At(0)
    /\ control' = "none"
    /\ xpc' = "off" /\ fpc' = AfterQuit
    /\ UNCHANGED <<shared, locals, pending, stream, reader, control_arg,
                   uint_res, caller>>

(* From here on this turn's quit test is over.                             *)
NotQuit ==
    /\ xpc = "look" /\ fpc # "dead" /\ control # "quit"
    /\ xpc' = "asked"
    /\ UNCHANGED <<vars, handshake, uint_res, caller>>

(* The second load.  No command: back to cache_fill.                       *)
NoCommand ==
    /\ xpc = "asked" /\ fpc # "dead" /\ control = "none"
    /\ xpc' = "off"
    /\ UNCHANGED <<vars, handshake, uint_res, caller>>

Command ==
    /\ xpc = "asked" /\ fpc # "dead" /\ control # "none"
    /\ xpc' = "switch"
    /\ UNCHANGED <<vars, handshake, uint_res, caller>>

(* The third: the switch on the command, which takes its argument.         *)
TakeArg ==
    /\ xpc = "switch" /\ fpc # "dead" /\ control \in Asks \cup {"seek"}
    /\ uint_res' = IF control = "seek" THEN control_arg ELSE uint_res
    /\ xpc' = "call"
    /\ UNCHANGED <<vars, handshake, caller>>

(* The switch's default: for 0, and for a -2 that was not there at the     *)
(* first load.  The filler goes on.                                        *)
Unsupported ==
    /\ xpc = "switch" /\ fpc # "dead" /\ control \in {"zero", "quit"}
    /\ control_res' = Failed
    /\ xpc' = "pos"
    /\ UNCHANGED <<vars, control, control_arg, control_new_pos, uint_res, caller>>

(* s->stream->control(s->stream, s->control, &uint_res).  A seek moves the *)
(* stream, and nothing is done about the window.                           *)
ExecuteAsk ==
    /\ xpc = "call" /\ fpc # "dead" /\ control \in Asks
    /\ \/ control_res' = OK /\ uint_res' = Said(control)
       \/ control_res' = Failed /\ uint_res' = uint_res
    /\ xpc' = "arg"
    /\ UNCHANGED <<vars, control, control_arg, control_new_pos, caller>>

ExecuteSeek ==
    /\ xpc = "call" /\ fpc # "dead" /\ control = "seek"
    /\ \/ /\ control_res' = OK
          /\ \E p \in Chapters :
                /\ uint_res[1] = "at" => p = uint_res[2]
                /\ stream_pos' = p /\ device' = p
       \/ control_res' = Failed /\ UNCHANGED <<stream_pos, device>>
    /\ xpc' = "arg"
    /\ UNCHANGED <<shared, filler, stream_eof, reader, control, control_arg,
                   control_new_pos, uint_res, caller>>

(* A -2 that came after the switch is no command to the stream.            *)
ExecuteQuit ==
    /\ xpc = "call" /\ fpc # "dead" /\ control = "quit"
    /\ control_res' = Failed
    /\ xpc' = "arg"
    /\ UNCHANGED <<vars, control, control_arg, control_new_pos, uint_res, caller>>

(* Mutant: what the stream answered is not passed on.                      *)
ArgOut_Kept == control_arg

ArgOut == uint_res

PutArg ==
    /\ xpc = "arg" /\ fpc # "dead"
    /\ control_arg' = ArgOut
    /\ xpc' = "pos"
    /\ UNCHANGED <<vars, control, control_res, control_new_pos, uint_res, caller>>

PutPos ==
    /\ xpc = "pos" /\ fpc # "dead"
    /\ control_new_pos' = At(stream_pos)
    /\ xpc' = "done"
    /\ UNCHANGED <<vars, control, control_arg, control_res, uint_res, caller>>

(* control = -1: the player may have its answer.                           *)
Executed ==
    /\ xpc = "done" /\ fpc # "dead"
    /\ control' = "none"
    /\ xpc' = "off"
    /\ UNCHANGED <<vars, control_arg, control_res, control_new_pos, uint_res, caller>>

CFillerNext ==
    \/ Fill \/ Quit \/ NotQuit \/ NoCommand \/ Command \/ TakeArg \/ Unsupported
    \/ ExecuteAsk \/ ExecuteSeek \/ ExecuteQuit \/ PutArg \/ PutPos \/ Executed

----------------------------------------------------------------------------
(* The player: cache_do_control, between two calls of the stream.          *)

Quiet ==
    UNCHANGED <<shared, filler, stream, call, got, pos, s_eof, buf, history>>

Ask(c) ==
    /\ rpc = "ready"
    /\ control' = c
    /\ rpc' = "control" /\ cmd' = c /\ arg' = NoAnswer
    /\ UNCHANGED <<control_arg, control_res, control_new_pos, executor>> /\ Quiet

(* A seek command stores its argument first.                               *)
AskSeek(p) ==
    /\ rpc = "ready"
    /\ control_arg' = At(p)
    /\ rpc' = "command" /\ cmd' = "seek" /\ arg' = At(p)
    /\ UNCHANGED <<control, control_res, control_new_pos, executor>> /\ Quiet

PutCommand ==
    /\ rpc = "command"
    /\ control' = cmd
    /\ rpc' = "control"
    /\ UNCHANGED <<control_arg, control_res, control_new_pos, executor, cmd, arg>>
    /\ Quiet

(* cache_do_control returns; after a quit cache_uninit frees the memory.    *)
Answered ==
    /\ rpc' = IF cmd = "quit" THEN "closed" ELSE "ready"
    /\ cmd' = "none" /\ arg' = NoAnswer
    /\ UNCHANGED <<handshake, executor>>

(* A key was pressed while it waits: the command stays where it is.        *)
GiveUp ==
    /\ rpc = "control" /\ control # "none" /\ Interrupts /\ given_up < MaxGivenUp
    /\ eof' = TRUE /\ given_up' = given_up + 1
    /\ Answered
    /\ UNCHANGED <<buffer, min_filepos, max_filepos, offset, read_filepos, filler,
                   stream, call, got, pos, s_eof, buf, late>>

(* The wait is over: a failure is passed on, ...                           *)
AnswerFailed ==
    /\ rpc = "control" /\ control = "none" /\ control_res # OK
    /\ Answered /\ Quiet

(* ... an answer is fetched (a quit has none), ...                         *)
AnswerAsk ==
    /\ rpc = "control" /\ control = "none" /\ control_res = OK /\ cmd # "seek"
    /\ Answered /\ Quiet

(* ... and after a seek the reader goes on where the stream is now.        *)
AnswerSeek ==
    /\ rpc = "control" /\ control = "none" /\ control_res = OK /\ cmd = "seek"
    /\ pos' = control_new_pos[2] /\ read_filepos' = control_new_pos[2]
    /\ Answered
    /\ UNCHANGED <<buffer, min_filepos, max_filepos, offset, eof, filler, stream,
                   call, got, s_eof, buf, history>>

(* cache_uninit of a thread asks it to quit; a process is killed (Uninit). *)
(* Past its quit test the filler answers this -2 like any other command.   *)
AskQuit ==
    /\ ~Forked
    /\ rpc = "ready" \/ (rpc = "prefill" /\ Interrupts)
    /\ control' = "quit"
    /\ rpc' = "control" /\ cmd' = "quit" /\ arg' = NoAnswer
    /\ late' = (xpc \notin {"off", "look"})
    /\ UNCHANGED <<control_arg, control_res, control_new_pos, executor, shared,
                   filler, stream, call, got, pos, s_eof, buf, given_up>>

(* What StreamCache's reader does between the commands.                    *)
Read ==
    /\ ReaderStep \/ (NewCall /\ (Forked \/ ~Uninit))
    /\ UNCHANGED <<handshake, executor, caller>>

ResetStream == Reset /\ UNCHANGED <<handshake, executor, caller>>

CReaderStep ==
    \/ Read /\ ReaderStep
    \/ PutCommand \/ AnswerFailed \/ AnswerAsk \/ AnswerSeek

CNext ==
    \/ CFillerNext \/ Read \/ ResetStream \/ PutCommand \/ AskQuit \/ GiveUp
    \/ AnswerFailed \/ AnswerAsk \/ AnswerSeek
    \/ \E c \in Asks : Ask(c)
    \/ \E p \in Chapters : AskSeek(p)

CSpec == CInit /\ [][CNext]_cvars

(* Neither the player nor the filler stops for good on its own.            *)
FairCSpec == CSpec /\ WF_cvars(CFillerNext) /\ WF_cvars(CReaderStep)

----------------------------------------------------------------------------
OwnAnswer ==
    rpc = "control" /\ control = "none" /\ control_res = OK =>
        IF cmd = "seek" THEN control_new_pos = arg ELSE control_arg = Said(cmd)

StoppedFirst == rpc = "closed" => fpc = "dead"

(* Until a wait is cut short by a key press, a command gets its own answer: *)
(* what it asked for, or the place it asked to go to, and never that of a   *)
(* command given before it.                                                 *)
AnswerIsMine == given_up = 0 => OwnAnswer

(* cache_uninit frees the shared memory when it returns.  Nobody fills that *)
(* memory any more, unless the quit came between the filler's quit test and *)
(* the end of that turn, or it or a command before it was given up.         *)
FreedAfterStop == given_up = 0 /\ ~late => StoppedFirst

(* A command is answered, however full the cache is.                       *)
CommandReturns == rpc = "control" ~> rpc # "control"

(* A read or a seek between the commands ends, also where seeks fail or go *)
(* past the goal, and whatever a key press left undone: it comes back, or  *)
(* it is the wild copy that NoWildCopy is about.                           *)
CallEnds == rpc \in InCall ~> rpc \notin InCall
=============================================================================
