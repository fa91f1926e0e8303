------------------------- MODULE CacheControlProofs -------------------------
(***************************************************************************)
(* Theorems about CacheControl, for every size of the cache, every set of  *)
(* commands, and as long as no key press made the player leave a command:  *)
(*   - AnswersMatch: a command gets its own answer;                        *)
(*   - MemoryFreedInTime: when cache_uninit frees the shared memory, the   *)
(*     filler has stopped, be it a process or a thread that was asked to   *)
(*     quit before its quit test.                                          *)
(***************************************************************************)
EXTENDS CacheControl, TLAPS

(* What the handshake relies on: while the player has a command out, it    *)
(* stores nothing, and the filler clears control last of all.  The answer  *)
(* to the command 0 that nobody gave, or to a late quit, is a failure, and *)
(* may be the one that the player's first command gets.                    *)

Looking == {"off", "look", "asked", "switch"}   \* no command is taken yet
Telling == {"pos", "done"}
Unasked == {"none", "zero"}                     \* not what the player put

(* While the player has no command out, the filler can be busy with the 0. *)
Idle ==
    /\ control \in Unasked /\ xpc \in Looking \cup Telling
    /\ xpc \in Telling => control_res = Failed

NoneOut == rpc \notin {"command", "control"} => cmd = "none" /\ Idle

Placing ==
    rpc = "command" =>
        /\ Idle
        /\ cmd = "seek" /\ control_arg = arg /\ arg = At(arg[2])

Waiting ==
    rpc = "control" =>
        /\ cmd \in Asks \cup {"seek", "quit"} /\ control \in {"none", cmd}
        /\ cmd = "seek" => arg = At(arg[2])

SeekGoesOn ==
    rpc = "control" /\ control = "seek" =>
        /\ xpc \in Looking => control_arg = arg
        /\ xpc \in {"call", "arg"} => uint_res = arg
        /\ xpc \in {"arg"} \cup Telling /\ control_res = OK => stream_pos = arg[2]
        /\ xpc = "done" /\ control_res = OK => control_new_pos = arg

AskGoesOn ==
    rpc = "control" /\ control \in Asks =>
        /\ xpc = "arg" /\ control_res = OK => uint_res = Said(control)
        /\ xpc \in Telling /\ control_res = OK => control_arg = Said(control)

(* A quit is out and not yet answered: in time, it is found by the test.   *)
QuitGoesOn ==
    rpc = "control" /\ control = "quit" =>
        /\ xpc \in Looking \cup Telling
        /\ xpc \in Telling => control_res = Failed
        /\ late \/ xpc \in {"off", "look"}

Finished ==
    rpc = "control" /\ control = "none" =>
        /\ xpc \in Looking
        /\ cmd = "quit" => control_res = Failed /\ (late \/ fpc = "dead")

Freed == ~late => StoppedFirst

(* Past the second load there is a command.                                *)
Places ==
    /\ xpc \in Looking \cup Telling \cup {"call", "arg"}
    /\ xpc = "switch" => control # "none"
    /\ xpc \in Telling \cup {"call", "arg"} => control # "none"

HandInv == /\ NoneOut /\ Placing /\ Waiting
           /\ SeekGoesOn /\ AskGoesOn /\ QuitGoesOn
           /\ Finished /\ OwnAnswer /\ Freed /\ Places

LEMMA Names == Asks \cap {"none", "seek", "quit", "zero"} = {}
BY ControlAssumption

LEMMA HandInit == CInit => HandInv
BY DEF CInit, Init, HandInv, NoneOut, Idle, Placing, Waiting, SeekGoesOn,
       AskGoesOn, QuitGoesOn, Finished, OwnAnswer, Freed, StoppedFirst, Places,
       Looking, Telling, Unasked

-----------------------------------------------------------------------------
(* cache_fill and cache_read leave the handshake alone.                    *)
LEMMA FillHand ==
    ASSUME HandInv, Fill
    PROVE  HandInv'
<1>1. /\ UNCHANGED <<rpc, control, control_arg, control_res, control_new_pos,
                     uint_res, cmd, arg, late>>
      /\ xpc = "off" /\ xpc' \in {"off", "look"}
  BY DEF Fill, FillerNext, FillStart, PlanFull, PlanRead, ReadByte, FillEnd,
         DropSeek, ReadDone, Publish, DropStore, handshake, caller, history, reader
<1>2. fpc # "dead"
  BY DEF Fill, FillerNext, FillStart, PlanFull, PlanRead, ReadByte, FillEnd,
         DropSeek, ReadDone, Publish, DropStore
<1>3. NoneOut' /\ Placing' /\ Waiting'
  BY <1>1 DEF HandInv, NoneOut, Placing, Waiting, Idle, Looking, Telling
<1>4. SeekGoesOn' /\ AskGoesOn' /\ QuitGoesOn'
  BY <1>1 DEF HandInv, SeekGoesOn, AskGoesOn, QuitGoesOn, Looking, Telling
<1>5. Finished' /\ OwnAnswer' /\ Freed'
  BY <1>1, <1>2 DEF HandInv, Finished, OwnAnswer, Freed, StoppedFirst, Looking
<1>6. Places'
  BY <1>1 DEF Places, Looking, Telling
<1>7. QED BY <1>3, <1>4, <1>5, <1>6 DEF HandInv

LEMMA ReadHand ==
    ASSUME HandInv, Read \/ ResetStream
    PROVE  HandInv'
<1>1. /\ UNCHANGED <<control, control_arg, control_res, control_new_pos, xpc,
                     uint_res, cmd, arg, late>>
      /\ rpc \notin {"command", "control"} /\ rpc' \notin {"command", "control"}
      /\ rpc' = "closed" => rpc = "closed" \/ fpc' = "dead"
  <2>1. UNCHANGED <<control, control_arg, control_res, control_new_pos, xpc,
                    uint_res, cmd, arg, late>>
    BY DEF Read, ResetStream, handshake, executor, caller, history
  <2>2. CASE ReaderStep
    BY <2>1, <2>2 DEF ReaderStep, PrefillDone, SeekClearEof, CheckMax, CheckMin,
         WaitEof, WaitRetry, CountNew, Locate, CopyByte, Advance, Return
  <2>3. CASE ReaderCall
    BY <2>1, <2>3 DEF ReaderCall, NewCall, FillBuffer, Reset, Uninit, WaitInterrupt,
         SeekInBuf, SeekLong
  <2>4. QED BY <2>2, <2>3 DEF Read, ResetStream, ReaderCall
<1>2. fpc = "dead" => fpc' = "dead"
  <2>1. CASE ReaderStep
    BY <2>1 DEF ReaderStep, PrefillDone, SeekClearEof, CheckMax, CheckMin,
         WaitEof, WaitRetry, CountNew, Locate, CopyByte, Advance, Return, filler
  <2>2. CASE ReaderCall
    BY <2>2 DEF ReaderCall, NewCall, FillBuffer, Reset, Uninit, WaitInterrupt,
         SeekInBuf, SeekLong, filler
  <2>3. QED BY <2>1, <2>2 DEF Read, ResetStream, ReaderCall
<1>3. NoneOut' /\ Placing' /\ Waiting'
  BY <1>1 DEF HandInv, NoneOut, Idle, Placing, Waiting
<1>4. SeekGoesOn' /\ AskGoesOn' /\ QuitGoesOn' /\ Finished' /\ OwnAnswer'
  BY <1>1 DEF SeekGoesOn, AskGoesOn, QuitGoesOn, Finished, OwnAnswer
<1>5. Freed'
  BY <1>1, <1>2 DEF HandInv, Freed, StoppedFirst
<1>6. Places'
  BY <1>1 DEF HandInv, Places
<1>7. QED BY <1>3, <1>4, <1>5, <1>6 DEF HandInv

-----------------------------------------------------------------------------
(* cache_execute_control: what a command's call finds there was put by the *)
(* command the player is waiting for.                                      *)
LEMMA ExecutedIsMine ==
    ASSUME HandInv, control \notin Unasked
    PROVE  rpc = "control" /\ cmd = control /\ control \in Asks \cup {"seek", "quit"}
BY DEF HandInv, NoneOut, Placing, Waiting, Idle, Unasked

LEMMA TakenIsMine ==
    ASSUME HandInv, xpc \in {"call", "arg"}
    PROVE  rpc = "control" /\ cmd = control /\ control \in Asks \cup {"seek"}
<1>1. rpc = "control" /\ control # "none"
  BY DEF HandInv, NoneOut, Placing, Idle, Places, Looking, Telling
<1>2. control \in Asks \cup {"seek", "quit"} /\ cmd = control
  BY <1>1 DEF HandInv, Waiting
<1>3. control # "quit"
  BY <1>1 DEF HandInv, QuitGoesOn, Looking, Telling
<1>4. QED BY <1>1, <1>2, <1>3

(* The filler's looks at control, and the answer it gives by itself.       *)
LEMMA LookHand ==
    ASSUME HandInv, Quit \/ NotQuit \/ NoCommand \/ Command \/ TakeArg \/ Unsupported
    PROVE  HandInv'
<1> USE Names
<1>1. UNCHANGED <<rpc, cmd, arg, late, stream_pos, control_arg>> /\ fpc # "dead"
  BY DEF Quit, NotQuit, NoCommand, Command, TakeArg, Unsupported, caller, history,
         vars, reader, stream, handshake
<1>2. Freed'
  BY <1>1 DEF HandInv, Freed, StoppedFirst
<1>3. CASE Quit
  <2>1. rpc = "control" /\ cmd = "quit"
    BY <1>3, ExecutedIsMine DEF Quit, Unasked
  <2>2. /\ control' = "none" /\ control_res' = Failed
        /\ xpc' = "off" /\ fpc' = "dead"
    BY <1>3 DEF Quit, AfterQuit
  <2>3. NoneOut' /\ Placing' /\ Waiting'
    BY <1>1, <2>1, <2>2 DEF NoneOut, Placing, Waiting
  <2>4. SeekGoesOn' /\ AskGoesOn' /\ QuitGoesOn'
    BY <2>2 DEF SeekGoesOn, AskGoesOn, QuitGoesOn
  <2>5. Finished' /\ OwnAnswer' /\ Places'
    BY <1>1, <2>1, <2>2 DEF Finished, OwnAnswer, Places, Failed, OK, Looking, Telling
  <2>6. QED BY <1>2, <2>3, <2>4, <2>5 DEF HandInv
<1>4. CASE NotQuit \/ NoCommand \/ Command
  <2>1. /\ xpc \in {"look", "asked"} /\ xpc' \in {"off", "asked", "switch"}
        /\ xpc' = "switch" => control # "none"
        /\ control = "quit" => xpc = "asked"
        /\ UNCHANGED <<control, control_arg, control_res, control_new_pos, fpc,
                       uint_res>>
    BY <1>4 DEF NotQuit, NoCommand, Command, handshake, vars, filler
  <2>2. NoneOut' /\ Placing' /\ Waiting'
    BY <1>1, <2>1 DEF HandInv, NoneOut, Placing, Waiting, Idle, Looking, Telling
  <2>3. SeekGoesOn' /\ AskGoesOn' /\ QuitGoesOn'
    BY <1>1, <2>1 DEF HandInv, SeekGoesOn, AskGoesOn, QuitGoesOn, Looking, Telling
  <2>4. Finished' /\ OwnAnswer' /\ Places'
    BY <1>1, <2>1 DEF HandInv, Finished, OwnAnswer, Places, Looking, Telling
  <2>5. QED BY <1>2, <2>2, <2>3, <2>4 DEF HandInv
<1>5. CASE TakeArg
  <2>1. /\ rpc = "control" /\ cmd = control /\ control \in Asks \cup {"seek"}
    BY <1>5, ExecutedIsMine DEF TakeArg, Unasked
  <2>2. /\ xpc = "switch" /\ xpc' = "call"
        /\ UNCHANGED <<control, control_res, control_new_pos>>
        /\ control = "seek" => uint_res' = control_arg
    BY <1>5 DEF TakeArg, handshake
  <2>3. NoneOut' /\ Placing' /\ Waiting'
    BY <1>1, <2>1, <2>2 DEF HandInv, NoneOut, Placing, Waiting
  <2>4. SeekGoesOn'
    BY <1>1, <2>1, <2>2 DEF HandInv, SeekGoesOn, Looking, Telling
  <2>5. AskGoesOn' /\ QuitGoesOn' /\ Finished' /\ OwnAnswer' /\ Places'
    BY <2>1, <2>2
       DEF AskGoesOn, QuitGoesOn, Finished, OwnAnswer, Places, Telling
  <2>6. QED BY <1>2, <2>3, <2>4, <2>5 DEF HandInv
<1>6. CASE Unsupported
  <2>1. /\ xpc = "switch" /\ xpc' = "pos" /\ control_res' = Failed
        /\ control \in {"zero", "quit"}
        /\ UNCHANGED <<control, control_new_pos, uint_res>>
    BY <1>6 DEF Unsupported
  <2>2. NoneOut' /\ Placing' /\ Waiting'
    BY <1>1, <2>1
       DEF HandInv, NoneOut, Placing, Waiting, Idle, Looking, Telling
  <2>3. SeekGoesOn' /\ AskGoesOn'
    BY <2>1 DEF SeekGoesOn, AskGoesOn
  <2>4. QuitGoesOn'
    BY <1>1, <2>1 DEF HandInv, QuitGoesOn, Telling
  <2>5. Finished' /\ OwnAnswer' /\ Places'
    BY <2>1 DEF Finished, OwnAnswer, Places, Telling
  <2>6. QED BY <1>2, <2>2, <2>3, <2>4, <2>5 DEF HandInv
<1>7. QED BY <1>3, <1>4, <1>5, <1>6

(* The call of the stream's control function, and the answer's stores.     *)
LEMMA ExecuteHand ==
    ASSUME HandInv,
           ExecuteAsk \/ ExecuteSeek \/ ExecuteQuit \/ PutArg \/ PutPos \/ Executed
    PROVE  HandInv'
<1> USE Names
<1>1. UNCHANGED <<rpc, cmd, arg, late>> /\ fpc # "dead"
  BY DEF ExecuteAsk, ExecuteSeek, ExecuteQuit, PutArg, PutPos, Executed, caller,
         history, vars, reader
<1>2. Freed'
  BY <1>1 DEF HandInv, Freed, StoppedFirst
<1>3. CASE ExecuteAsk
  <2>1. /\ rpc = "control" /\ cmd = control /\ control \in Asks
    BY <1>3, TakenIsMine DEF ExecuteAsk
  <2>2. /\ xpc = "call" /\ xpc' = "arg"
        /\ UNCHANGED <<control, control_arg, control_new_pos>>
        /\ control_res' = OK => uint_res' = Said(control)
    BY <1>3 DEF ExecuteAsk, Failed, OK
  <2>3. NoneOut' /\ Placing' /\ Waiting'
    BY <1>1, <2>1, <2>2 DEF HandInv, NoneOut, Placing, Waiting
  <2>4. AskGoesOn'
    BY <2>1, <2>2 DEF AskGoesOn, Telling
  <2>5. SeekGoesOn' /\ QuitGoesOn' /\ Finished' /\ OwnAnswer' /\ Places'
    BY <2>1, <2>2 DEF SeekGoesOn, QuitGoesOn, Finished, OwnAnswer, Places
  <2>6. QED BY <1>2, <2>3, <2>4, <2>5 DEF HandInv
<1>4. CASE ExecuteSeek
  <2>1. /\ rpc = "control" /\ cmd = control /\ control = "seek"
    BY <1>4, TakenIsMine DEF ExecuteSeek
  <2>2. /\ xpc = "call" /\ xpc' = "arg"
        /\ UNCHANGED <<control, control_arg, control_new_pos, uint_res>>
    BY <1>4 DEF ExecuteSeek
  <2>3. uint_res = arg /\ arg = At(arg[2])
    BY <2>1, <2>2 DEF HandInv, SeekGoesOn, Waiting
  <2>4. control_res' = OK => stream_pos' = arg[2]
    <3>1. uint_res[1] = "at"
      BY <2>3 DEF At
    <3>2. QED BY <1>4, <2>3, <3>1 DEF ExecuteSeek, Failed, OK
  <2>5. NoneOut' /\ Placing' /\ Waiting'
    BY <1>1, <2>1, <2>2 DEF HandInv, NoneOut, Placing, Waiting
  <2>6. SeekGoesOn'
    BY <1>1, <2>1, <2>2, <2>3, <2>4 DEF SeekGoesOn, Looking
  <2>7. AskGoesOn' /\ QuitGoesOn' /\ Finished' /\ OwnAnswer' /\ Places'
    BY <2>1, <2>2 DEF AskGoesOn, QuitGoesOn, Finished, OwnAnswer, Places
  <2>8. QED BY <1>2, <2>5, <2>6, <2>7 DEF HandInv
<1>5. ~ExecuteQuit
  BY TakenIsMine DEF ExecuteQuit
<1>6. CASE PutArg
  <2>1. /\ rpc = "control" /\ cmd = control /\ control \in Asks \cup {"seek"}
    BY <1>6, TakenIsMine DEF PutArg
  <2>2. /\ xpc' = "pos" /\ xpc = "arg" /\ control_arg' = uint_res
        /\ UNCHANGED <<control, control_res, control_new_pos, uint_res, stream_pos>>
    BY <1>6 DEF PutArg, ArgOut, vars, stream
  <2>3. NoneOut' /\ Placing' /\ Waiting'
    BY <1>1, <2>1, <2>2 DEF HandInv, NoneOut, Placing, Waiting
  <2>4. SeekGoesOn' /\ AskGoesOn'
    BY <1>1, <2>1, <2>2 DEF HandInv, SeekGoesOn, AskGoesOn, Looking, Telling
  <2>5. QuitGoesOn' /\ Finished' /\ OwnAnswer' /\ Places'
    BY <2>1, <2>2 DEF QuitGoesOn, Finished, OwnAnswer, Places, Telling
  <2>6. QED BY <1>2, <2>3, <2>4, <2>5 DEF HandInv
<1>7. CASE PutPos
  <2>1. /\ xpc' = "done" /\ xpc = "pos" /\ control_new_pos' = At(stream_pos)
        /\ UNCHANGED <<control, control_arg, control_res, uint_res, stream_pos>>
        /\ control # "none"
    BY <1>7 DEF PutPos, vars, stream, HandInv, Places, Telling
  <2>2. NoneOut' /\ Placing' /\ Waiting'
    BY <1>1, <2>1 DEF HandInv, NoneOut, Placing, Waiting, Idle, Telling
  <2>3. ASSUME rpc = "control", control = "seek"
        PROVE  arg = At(arg[2]) /\ (control_res = OK => stream_pos = arg[2])
    BY <2>1, <2>3 DEF HandInv, Waiting, SeekGoesOn, Telling
  <2>4. SeekGoesOn'
    BY <1>1, <2>1, <2>3 DEF SeekGoesOn, Looking
  <2>5. AskGoesOn' /\ QuitGoesOn'
    BY <1>1, <2>1 DEF HandInv, AskGoesOn, QuitGoesOn, Telling
  <2>6. Finished' /\ OwnAnswer' /\ Places'
    BY <2>1 DEF Finished, OwnAnswer, Places, Telling
  <2>7. QED BY <1>2, <2>2, <2>4, <2>5, <2>6 DEF HandInv
<1>8. CASE Executed
  <2>1. /\ xpc = "done" /\ control' = "none" /\ xpc' = "off" /\ control # "none"
        /\ UNCHANGED <<control_arg, control_res, control_new_pos>>
    BY <1>8 DEF Executed, HandInv, Places, Telling
  <2>2. NoneOut' /\ Placing' /\ Waiting'
    BY <1>1, <2>1
       DEF HandInv, NoneOut, Placing, Waiting, Idle, Looking, Telling, Unasked
  <2>3. SeekGoesOn' /\ AskGoesOn' /\ QuitGoesOn'
    BY <2>1 DEF SeekGoesOn, AskGoesOn, QuitGoesOn
  <2>4. rpc = "control" => control = cmd /\ cmd \in Asks \cup {"seek", "quit"}
    BY <2>1 DEF HandInv, Waiting
  <2>5. rpc = "control" /\ cmd = "quit" => control_res = Failed /\ late
    BY <2>1, <2>4 DEF HandInv, QuitGoesOn, Telling
  <2>6. Finished' /\ Places'
    BY <1>1, <2>1, <2>5 DEF Finished, Places, Looking, Telling
  <2>7. rpc = "control" /\ cmd = "seek" /\ control_res = OK => control_new_pos = arg
    BY <2>1, <2>4 DEF HandInv, SeekGoesOn
  <2>8. rpc = "control" /\ cmd \in Asks /\ control_res = OK
           => control_arg = Said(cmd)
    BY <2>1, <2>4 DEF HandInv, AskGoesOn, Telling
  <2>9. OwnAnswer'
    BY <1>1, <2>1, <2>4, <2>5, <2>7, <2>8 DEF OwnAnswer, Failed, OK
  <2>10. QED BY <1>2, <2>2, <2>3, <2>6, <2>9 DEF HandInv
<1>9. QED BY <1>3, <1>4, <1>5, <1>6, <1>7, <1>8

-----------------------------------------------------------------------------
(* cache_do_control.                                                       *)
LEMMA CallerHand ==
    ASSUME given_up' = 0, given_up \in Nat, HandInv,
           \/ \E c \in Asks : Ask(c)
           \/ \E p \in Chapters : AskSeek(p)
           \/ PutCommand \/ AskQuit \/ GiveUp
           \/ AnswerFailed \/ AnswerAsk \/ AnswerSeek
    PROVE  HandInv'
<1> USE Names
<1>1. UNCHANGED <<control_res, control_new_pos, xpc, uint_res, fpc, stream_pos>>
  BY DEF Ask, AskSeek, PutCommand, AskQuit, GiveUp, AnswerFailed, AnswerAsk,
         AnswerSeek, Answered, Quiet, executor, handshake, filler, stream
<1>2. ASSUME NEW c \in Asks \cup {"quit"},
             (c \in Asks /\ Ask(c)) \/ (c = "quit" /\ AskQuit)
      PROVE  HandInv'
  <2>1. /\ rpc \in {"ready", "prefill"} /\ rpc' = "control"
        /\ control' = c /\ cmd' = c
        /\ c = "quit" => late' = (xpc \notin {"off", "look"})
    BY <1>2 DEF Ask, AskQuit
  <2>2. xpc \in Looking \cup Telling /\ (xpc \in Telling => control_res = Failed)
    BY <2>1 DEF HandInv, NoneOut, Idle
  <2>3. NoneOut' /\ Placing' /\ Waiting'
    BY <2>1 DEF NoneOut, Placing, Waiting
  <2>4. SeekGoesOn' /\ AskGoesOn'
    BY <1>1, <2>1, <2>2 DEF SeekGoesOn, AskGoesOn, Looking, Telling, Failed, OK
  <2>5. QuitGoesOn'
    BY <1>1, <2>1, <2>2 DEF QuitGoesOn
  <2>6. Finished' /\ OwnAnswer' /\ Freed'
    BY <2>1 DEF Finished, OwnAnswer, Freed, StoppedFirst
  <2>7. Places'
    BY <1>1, <2>1, <2>2 DEF Places
  <2>8. QED BY <2>3, <2>4, <2>5, <2>6, <2>7 DEF HandInv
<1>3. ASSUME NEW p \in Chapters, AskSeek(p)
      PROVE  HandInv'
  <2>1. /\ rpc = "ready" /\ rpc' = "command" /\ UNCHANGED <<control, late>>
        /\ cmd' = "seek" /\ arg' = At(p) /\ control_arg' = At(p)
    BY <1>3 DEF AskSeek, Quiet, history
  <2>2. Idle
    BY <2>1 DEF HandInv, NoneOut
  <2>3. At(p) = At(At(p)[2])
    BY DEF At
  <2>4. NoneOut' /\ Placing' /\ Waiting'
    BY <1>1, <2>1, <2>2, <2>3 DEF NoneOut, Placing, Waiting, Idle
  <2>5. SeekGoesOn' /\ AskGoesOn' /\ QuitGoesOn'
    BY <2>1 DEF SeekGoesOn, AskGoesOn, QuitGoesOn
  <2>6. Finished' /\ OwnAnswer' /\ Freed' /\ Places'
    BY <1>1, <2>1 DEF HandInv, Finished, OwnAnswer, Freed, StoppedFirst, Places
  <2>7. QED BY <2>4, <2>5, <2>6 DEF HandInv
<1>4. CASE PutCommand
  <2>1. /\ rpc = "command" /\ rpc' = "control" /\ control' = cmd
        /\ UNCHANGED <<cmd, arg, control_arg, late>>
    BY <1>4 DEF PutCommand, Quiet, history
  <2>2. /\ Idle /\ cmd = "seek" /\ control_arg = arg /\ arg = At(arg[2])
    BY <2>1 DEF HandInv, Placing
  <2>3. NoneOut' /\ Placing' /\ Waiting'
    BY <2>1, <2>2 DEF NoneOut, Placing, Waiting
  <2>4. SeekGoesOn' /\ AskGoesOn' /\ QuitGoesOn'
    BY <1>1, <2>1, <2>2
       DEF Idle, SeekGoesOn, AskGoesOn, QuitGoesOn, Looking, Telling, Failed, OK
  <2>5. Finished' /\ OwnAnswer' /\ Freed' /\ Places'
    BY <1>1, <2>1, <2>2 DEF HandInv, Finished, OwnAnswer, Freed, StoppedFirst, Places
  <2>6. QED BY <2>3, <2>4, <2>5 DEF HandInv
<1>5. CASE AnswerFailed \/ AnswerAsk \/ AnswerSeek
  <2>1. /\ rpc = "control" /\ control = "none" /\ control' = "none"
        /\ cmd' = "none" /\ late' = late
        /\ rpc' = IF cmd = "quit" THEN "closed" ELSE "ready"
    BY <1>5 DEF AnswerFailed, AnswerAsk, AnswerSeek, Answered, handshake, Quiet,
                history
  <2>2. xpc \in Looking /\ (cmd = "quit" => late \/ fpc = "dead")
    BY <2>1 DEF HandInv, Finished
  <2>3. NoneOut' /\ Placing' /\ Waiting'
    BY <1>1, <2>1, <2>2
       DEF NoneOut, Placing, Waiting, Idle, Looking, Telling, Unasked
  <2>4. SeekGoesOn' /\ AskGoesOn' /\ QuitGoesOn'
    BY <2>1 DEF SeekGoesOn, AskGoesOn, QuitGoesOn
  <2>5. Finished' /\ OwnAnswer'
    BY <2>1 DEF Finished, OwnAnswer
  <2>6. Freed' /\ Places'
    BY <1>1, <2>1, <2>2 DEF HandInv, Freed, StoppedFirst, Places
  <2>7. QED BY <2>3, <2>4, <2>5, <2>6 DEF HandInv
<1>6. ~GiveUp
  BY DEF GiveUp
<1>7. QED BY <1>2, <1>3, <1>4, <1>5, <1>6

LEMMA HandStep ==
    ASSUME given_up' = 0, given_up \in Nat, HandInv, [CNext]_cvars
    PROVE  HandInv'
<1>1. CASE CFillerNext
  BY <1>1, FillHand, LookHand, ExecuteHand DEF CFillerNext
<1>2. CASE CNext /\ ~CFillerNext
  BY <1>2, ReadHand, CallerHand DEF CNext
<1>3. CASE UNCHANGED cvars
  <2>1. UNCHANGED <<rpc, fpc, stream_pos, control, control_arg, control_res,
                    control_new_pos, xpc, uint_res, cmd, arg, late>>
    BY <1>3 DEF cvars, vars, filler, stream, reader, handshake, executor, caller,
                history
  <2>2. NoneOut' /\ Placing' /\ Waiting'
    BY <2>1 DEF HandInv, NoneOut, Placing, Waiting, Idle
  <2>3. SeekGoesOn' /\ AskGoesOn' /\ QuitGoesOn'
    BY <2>1 DEF HandInv, SeekGoesOn, AskGoesOn, QuitGoesOn
  <2>4. Finished' /\ OwnAnswer' /\ Freed' /\ Places'
    BY <2>1 DEF HandInv, Finished, OwnAnswer, Freed, StoppedFirst, Places
  <2>5. QED BY <2>2, <2>3, <2>4 DEF HandInv
<1>4. QED BY <1>1, <1>2, <1>3

(* A command left behind stays on record.                                  *)
LEMMA GivenUpCounts ==
    ASSUME given_up \in Nat, [CNext]_cvars
    PROVE  given_up' \in {given_up, given_up + 1}
<1>1. CASE CFillerNext
  BY <1>1 DEF CFillerNext, Fill, Quit, NotQuit, NoCommand, Command, TakeArg,
     Unsupported, ExecuteAsk, ExecuteSeek, ExecuteQuit, PutArg, PutPos, Executed,
     caller, history
<1>2. CASE CNext /\ ~CFillerNext
  BY <1>2 DEF CNext, Read, PutCommand, AskQuit, GiveUp, AnswerFailed, AnswerAsk,
     AnswerSeek, Ask, AskSeek, Quiet, ResetStream, caller, history
<1>3. CASE UNCHANGED cvars
  BY <1>3 DEF cvars, caller, history
<1>4. QED BY <1>1, <1>2, <1>3

UntilGivenUp == given_up \in Nat /\ (given_up = 0 => HandInv)

LEMMA HandAlways == CSpec => []UntilGivenUp
<1>1. CInit => UntilGivenUp
  BY HandInit DEF UntilGivenUp, CInit
<1>2. UntilGivenUp /\ [CNext]_cvars => UntilGivenUp'
  <2>1. SUFFICES ASSUME UntilGivenUp, [CNext]_cvars PROVE UntilGivenUp'
    OBVIOUS
  <2>2. given_up \in Nat /\ given_up' \in {given_up, given_up + 1}
    BY <2>1, GivenUpCounts DEF UntilGivenUp
  <2>3. given_up' \in Nat /\ (given_up' = 0 => given_up = 0)
    BY <2>2
  <2>4. given_up' = 0 => HandInv'
    BY <2>1, <2>2, <2>3, HandStep DEF UntilGivenUp
  <2>5. QED BY <2>3, <2>4 DEF UntilGivenUp
<1>3. QED BY <1>1, <1>2, PTL DEF CSpec

(* Until one is given up, a command through the cache gets its own answer, *)
(* or is told that it failed: never another's answer, nor half of one.     *)
THEOREM AnswersMatch == CSpec => []AnswerIsMine
<1>1. UntilGivenUp => AnswerIsMine
  BY DEF UntilGivenUp, HandInv, AnswerIsMine
<1>2. QED BY <1>1, HandAlways, PTL

(* When cache_uninit frees the shared memory, nobody fills it any more: of *)
(* all the orders of the two threads only those break it where the quit    *)
(* comes between a turn's quit test and its end, and is answered by the    *)
(* switch's default, or where a key press made the player give up a        *)
(* command.                                                                *)
THEOREM MemoryFreedInTime == CSpec => []FreedAfterStop
<1>1. UntilGivenUp => FreedAfterStop
  BY DEF UntilGivenUp, HandInv, Freed, FreedAfterStop
<1>2. QED BY <1>1, HandAlways, PTL
=============================================================================
