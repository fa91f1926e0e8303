-------------------------- MODULE InputQueueProofs --------------------------
(***************************************************************************)
(* Theorems about InputQueue, for every set of keys and bindings, every    *)
(* limit and every number of commands.                                     *)
(***************************************************************************)
EXTENDS InputQueue, FiniteSetTheorems, FunctionTheorems, TLAPS

Commands == [kind : Kinds, n : Nat]

\* What the proofs need to know of the variables' types.
QueueTypes ==
    /\ key_q \in Seq(Commands) /\ ctl_q \in Seq(Commands)
    /\ key_aborts \in Int /\ ctl_aborts \in Int
    /\ made \in Nat /\ taken \in Nat

----------------------------------------------------------------------------
(* What an action may do to the queue of the keys, and to the other one.   *)

\* A command is offered and may be put at the queue's end.
KeyOffered ==
    \/ UNCHANGED <<key_q, key_aborts, made>>
    \/ \E kind \in Kinds :
          /\ made' = made + 1
          /\ key_q' = IF Full(kind) THEN key_q
                      ELSE Append(key_q, [kind |-> kind, n |-> made + 1])
          /\ key_aborts' = key_aborts + Ones(IsAbort(kind) /\ ~Full(kind))

\* A repeated command is looked at, and stays.
KeyRepeated ==
    \E kind \in Kinds :
        /\ key_q = <<>> /\ made' = made + 1
        /\ key_q' = <<[kind |-> kind, n |-> made + 1]>>
        /\ key_aborts' = Ones(IsAbort(kind))

KeyPopped ==
    /\ key_q # <<>>
    /\ key_q' = Tail(key_q) /\ key_aborts' = key_aborts - Ones(IsAbort(Head(key_q).kind))
    /\ made' = made /\ taken' = Head(key_q).n

\* A repeated command is taken at once.
KeyPassed ==
    /\ key_q = <<>> /\ key_q' = <<>> /\ key_aborts' = key_aborts
    /\ made' = made + 1 /\ taken' = made + 1

KeyStays ==
    /\ UNCHANGED <<key_q, key_aborts, taken>>
    /\ made' \in {made, made + 1}

KeyChange ==
    \/ KeyStays
    \/ taken' = taken /\ (KeyOffered \/ KeyRepeated)
    \/ KeyPopped
    \/ KeyPassed

CtlAdded ==
    \E kind \in Kinds :
        /\ ctl_q' = Append(ctl_q, CtlCmd(kind)) \/ ctl_q' = <<CtlCmd(kind)>> \o ctl_q
        /\ ctl_aborts' = ctl_aborts + Ones(IsAbort(kind))

CtlPopped ==
    /\ ctl_q # <<>>
    /\ ctl_q' = Tail(ctl_q) /\ ctl_aborts' = ctl_aborts - Ones(IsAbort(Head(ctl_q).kind))

CtlChange == UNCHANGED ctl_cmd \/ CtlAdded \/ CtlPopped

LEMMA BoundKinds == ASSUME NEW keys PROVE Bound(keys) \in Kinds \cup {"none"}
BY InputAssumption DEF Bound

LEMMA OfferQueues ==
    ASSUME NEW kind \in Kinds \cup {"none"}, Offer(kind), taken' = taken
    PROVE  KeyChange
<1>1. CASE kind = "none"
  BY <1>1 DEF Offer, KeyChange, KeyStays, key_cmd
<1>2. CASE kind # "none"
  BY <1>2 DEF Offer, KeyChange, KeyOffered, Queued, Counted
<1>3. QED BY <1>1, <1>2

LEMMA LookQueues ==
    ASSUME NEW c \in Cmds, Look(c), taken' = taken
    PROVE  KeyChange /\ CtlChange
<1>1. CASE UNCHANGED <<repeat, queues, made>>
  BY <1>1 DEF KeyChange, KeyStays, CtlChange, queues, key_cmd, ctl_cmd
<1>2. CASE /\ ~async_quit /\ Idle /\ c.n = made + 1 /\ Repeated(c.kind)
           /\ key_q' = <<c>> /\ key_aborts' = Ones(IsAbort(c.kind))
           /\ UNCHANGED ctl_cmd
  <2>1. c.kind \in Kinds /\ c = [kind |-> c.kind, n |-> made + 1]
    BY <1>2 DEF Cmds
  <2>2. key_q = <<>> /\ made' = made + 1
    BY <1>2 DEF Idle, Repeated
  <2>3. KeyRepeated
    BY <1>2, <2>1, <2>2 DEF KeyRepeated
  <2>4. QED BY <1>2, <2>3 DEF KeyChange, CtlChange
<1>3. QED BY <1>1, <1>2 DEF Look

LEMMA FetchQueues ==
    ASSUME NEW c \in Cmds, Fetch(c)
    PROVE  KeyChange /\ CtlChange
<1>1. CASE UNCHANGED <<repeat, queues, made, taken>>
  BY <1>1 DEF KeyChange, KeyStays, CtlChange, queues, key_cmd, ctl_cmd
<1>2. CASE /\ ctl_q # <<>> /\ c = Head(ctl_q)
           /\ ctl_q' = Tail(ctl_q) /\ ctl_aborts' = Popped(ctl_aborts, c)
           /\ UNCHANGED <<repeat, key_cmd, made, taken>>
  BY <1>2 DEF KeyChange, KeyStays, CtlChange, CtlPopped, Popped, key_cmd
<1>3. CASE /\ key_q # <<>> /\ c = Head(key_q)
           /\ key_q' = Tail(key_q) /\ key_aborts' = Popped(key_aborts, c)
           /\ taken' = c.n
           /\ UNCHANGED <<repeat, ctl_cmd, made>>
  BY <1>3 DEF KeyChange, KeyPopped, CtlChange, Popped
<1>4. CASE /\ Idle /\ c.n = made + 1 /\ Repeated(c.kind)
           /\ taken' = c.n /\ UNCHANGED queues
  BY <1>4 DEF KeyChange, KeyPassed, CtlChange, Idle, Repeated, queues, key_cmd
<1>5. QED BY <1>1, <1>2, <1>3, <1>4 DEF Fetch

(* Every step of the system is one of these.                               *)
LEMMA StepQueues ==
    ASSUME [Next]_vars
    PROVE  KeyChange /\ CtlChange
<1>1. CASE \E b \in Buttons, twice \in BOOLEAN : Down(b, twice)
  <2>1. PICK b \in Buttons, twice \in BOOLEAN : Down(b, twice)
    BY <1>1
  <2>2. \E kind \in Kinds \cup {"none"} : Offer(kind)
    BY <2>1, BoundKinds, Zenon DEF Down
  <2>3. taken' = taken /\ UNCHANGED ctl_cmd
    BY <2>1 DEF Down
  <2>4. QED BY <2>2, <2>3, OfferQueues DEF CtlChange
<1>2. CASE \E k \in Keys \cup Buttons : Press(k)
  <2>1. PICK k \in Keys \cup Buttons : Press(k)
    BY <1>2
  <2>2. PressKind(k) \in Kinds \cup {"none"}
    BY BoundKinds DEF PressKind
  <2>3. taken' = taken /\ UNCHANGED ctl_cmd /\ Offer(PressKind(k))
    BY <2>1 DEF Press
  <2>4. QED BY <2>2, <2>3, OfferQueues DEF CtlChange
<1>3. CASE (\E kind \in CmdKinds : SlaveCmd(kind)) \/ QueueCmd
  <2>1. UNCHANGED <<key_cmd, taken>>
    BY <1>3 DEF SlaveCmd, QueueCmd
  <2>2. /\ made' = made + 1
        /\ CtlAdded
    <3>1. CASE \E kind \in CmdKinds : SlaveCmd(kind)
      BY <3>1, InputAssumption DEF SlaveCmd, Control, CtlAdded
    <3>2. CASE QueueCmd
      BY <3>2, InputAssumption DEF QueueCmd, Control, CtlAdded
    <3>3. QED BY <1>3, <3>1, <3>2
  <2>3. QED BY <2>1, <2>2 DEF KeyChange, KeyStays, key_cmd, CtlChange
<1>4. CASE ReleaseAll \/ Signal \/ Elapse \/ EndOfFile \/ FrameDone \/ Shown
           \/ Run \/ DoSeek \/ Opened \/ OpenFails \/ Obey \/ UNCHANGED vars
  <2>1. UNCHANGED <<queues, made, taken>>
    BY <1>4 DEF ReleaseAll, Signal, Elapse, EndOfFile, FrameDone, Shown, Run,
                DoSeek, Opened, OpenFails, Obey, vars
  <2>2. QED BY <2>1 DEF KeyChange, KeyStays, CtlChange, queues, key_cmd
<1>5. CASE Sleep \/ Peek
  <2>1. taken' = taken
    BY <1>5 DEF Sleep, Peek
  <2>2. (\E c \in Cmds : Look(c)) \/ NoneFound
    BY <1>5 DEF Sleep, Peek
  <2>3. CASE NoneFound
    BY <2>1, <2>3 DEF NoneFound, KeyChange, KeyStays, CtlChange, queues, key_cmd
  <2>4. QED BY <2>1, <2>2, <2>3, LookQueues
<1>6. CASE Get \/ TakeOne
  <2>1. (\E c \in Cmds : Fetch(c)) \/ (NoneFound /\ taken' = taken)
    BY <1>6 DEF Get, TakeOne
  <2>2. CASE NoneFound /\ taken' = taken
    BY <2>2 DEF NoneFound, KeyChange, KeyStays, CtlChange, queues, key_cmd
  <2>3. QED BY <2>1, <2>2, FetchQueues
<1>7. QED
  BY <1>1, <1>2, <1>3, <1>4, <1>5, <1>6 DEF Next, Player, User

----------------------------------------------------------------------------
LEMMA OnesIs == \A test : Ones(test) \in {0, 1}
BY DEF Ones

LEMMA TypesInit == Init => QueueTypes
BY DEF Init, QueueTypes

LEMMA TypesStep ==
    ASSUME QueueTypes, [Next]_vars
    PROVE  QueueTypes'
<1>1. KeyChange /\ CtlChange
  BY StepQueues
<1>2. /\ key_q \in Seq(Commands) /\ ctl_q \in Seq(Commands)
      /\ key_aborts \in Int /\ ctl_aborts \in Int
      /\ made \in Nat /\ taken \in Nat
  BY DEF QueueTypes
<1>3. key_q' \in Seq(Commands) /\ key_aborts' \in Int /\ made' \in Nat /\ taken' \in Nat
  <2>1. CASE KeyStays
    BY <1>2, <2>1 DEF KeyStays
  <2>2. CASE taken' = taken /\ KeyOffered
    <3>1. CASE UNCHANGED <<key_q, key_aborts, made>>
      BY <1>2, <2>2, <3>1
    <3>2. ASSUME NEW kind \in Kinds,
                 /\ made' = made + 1
                 /\ key_q' = IF Full(kind) THEN key_q
                             ELSE Append(key_q, [kind |-> kind, n |-> made + 1])
                 /\ key_aborts' = key_aborts + Ones(IsAbort(kind) /\ ~Full(kind))
          PROVE  key_q' \in Seq(Commands) /\ key_aborts' \in Int /\ made' \in Nat
      <4>1. [kind |-> kind, n |-> made + 1] \in Commands
        BY <1>2 DEF Commands
      <4>2. key_aborts' \in Int
        BY <1>2, <3>2, OnesIs
      <4>3. QED BY <1>2, <3>2, <4>1, <4>2
    <3>3. QED BY <1>2, <2>2, <3>1, <3>2 DEF KeyOffered
  <2>3. CASE taken' = taken /\ KeyRepeated
    <3>1. PICK kind \in Kinds : /\ made' = made + 1
                                /\ key_q' = <<[kind |-> kind, n |-> made + 1]>>
                                /\ key_aborts' = Ones(IsAbort(kind))
      BY <2>3 DEF KeyRepeated
    <3>2. [kind |-> kind, n |-> made + 1] \in Commands
      BY <1>2 DEF Commands
    <3>3. QED BY <1>2, <2>3, <3>1, <3>2, OnesIs
  <2>4. CASE KeyPopped
    <3>1. Head(key_q) \in Commands /\ Tail(key_q) \in Seq(Commands)
      BY <1>2, <2>4 DEF KeyPopped
    <3>2. Head(key_q).n \in Nat
      BY <3>1 DEF Commands
    <3>3. key_aborts' \in Int
      BY <1>2, <2>4, OnesIs DEF KeyPopped
    <3>4. QED BY <1>2, <2>4, <3>1, <3>2, <3>3 DEF KeyPopped
  <2>5. CASE KeyPassed
    BY <1>2, <2>5 DEF KeyPassed
  <2>6. QED BY <1>1, <2>1, <2>2, <2>3, <2>4, <2>5 DEF KeyChange
<1>4. ctl_q' \in Seq(Commands) /\ ctl_aborts' \in Int
  <2>1. CASE CtlAdded
    <3>1. PICK kind \in Kinds :
             /\ ctl_q' = Append(ctl_q, CtlCmd(kind)) \/ ctl_q' = <<CtlCmd(kind)>> \o ctl_q
             /\ ctl_aborts' = ctl_aborts + Ones(IsAbort(kind))
      BY <2>1 DEF CtlAdded
    <3>2. CtlCmd(kind) \in Commands
      BY DEF CtlCmd, Commands
    <3>3. Append(ctl_q, CtlCmd(kind)) \in Seq(Commands)
      BY <1>2, <3>2
    <3>4. <<CtlCmd(kind)>> \o ctl_q \in Seq(Commands)
      BY <1>2, <3>2
    <3>5. ctl_aborts' \in Int
      BY <1>2, <3>1, OnesIs
    <3>6. QED BY <3>1, <3>3, <3>4, <3>5
  <2>2. CASE CtlPopped
    BY <1>2, <2>2, OnesIs DEF CtlPopped
  <2>3. QED BY <1>1, <1>2, <2>1, <2>2 DEF CtlChange, ctl_cmd
<1>5. QED BY <1>3, <1>4 DEF QueueTypes

LEMMA TypesAlways == Spec => []QueueTypes
BY TypesInit, TypesStep, PTL DEF Spec

----------------------------------------------------------------------------
(* What the counters count.                                                *)

Aborts(q) == {i \in DOMAIN q : IsAbort(q[i].kind)}

LEMMA CountFinite ==
    ASSUME NEW q \in Seq(Commands)
    PROVE  /\ IsFiniteSet(Aborts(q)) /\ Count(q) \in Nat
           /\ Count(q) = Cardinality(Aborts(q))
<1>1. DOMAIN q = 1 .. Len(q) /\ Len(q) \in Nat
  OBVIOUS
<1>2. IsFiniteSet(1 .. Len(q))
  BY <1>1, FS_Interval
<1>3. Aborts(q) \in SUBSET (1 .. Len(q))
  BY <1>1 DEF Aborts
<1>4. IsFiniteSet(Aborts(q))
  BY <1>2, <1>3, FS_Subset
<1>5. QED BY <1>4, FS_CardinalityType DEF Count, Aborts

LEMMA CountEmpty == Count(<<>>) = 0
<1>1. {i \in DOMAIN <<>> : IsAbort(<<>>[i].kind)} = {}
  OBVIOUS
<1>2. QED BY <1>1, FS_EmptySet DEF Count

LEMMA CountAppend ==
    ASSUME NEW q \in Seq(Commands), NEW c \in Commands
    PROVE  Count(Append(q, c)) = Count(q) + Ones(IsAbort(c.kind))
<1> DEFINE n == Len(q) + 1
           r == Append(q, c)
<1>1. /\ r \in Seq(Commands) /\ Len(r) = n /\ r[n] = c /\ Len(q) \in Nat
      /\ DOMAIN r = 1 .. n /\ DOMAIN q = 1 .. Len(q)
      /\ \A i \in 1 .. Len(q) : r[i] = q[i]
  OBVIOUS
<1>2. /\ IsFiniteSet(Aborts(q)) /\ Count(q) \in Nat
      /\ Count(q) = Cardinality(Aborts(q)) /\ Count(r) = Cardinality(Aborts(r))
  BY <1>1, CountFinite
<1>3. CASE IsAbort(c.kind)
  <2>1. Aborts(r) = Aborts(q) \cup {n}
    BY <1>1, <1>3 DEF Aborts
  <2>2. n \notin Aborts(q)
    BY <1>1 DEF Aborts
  <2>3. Cardinality(Aborts(r)) = Cardinality(Aborts(q)) + 1
    BY <1>2, <2>1, <2>2, FS_AddElement
  <2>4. QED BY <1>2, <1>3, <2>3 DEF Ones
<1>4. CASE ~IsAbort(c.kind)
  <2>1. Aborts(r) = Aborts(q)
    BY <1>1, <1>4 DEF Aborts
  <2>2. QED BY <1>2, <1>4, <2>1 DEF Ones
<1>5. QED BY <1>3, <1>4

LEMMA CountCons ==
    ASSUME NEW q \in Seq(Commands), NEW c \in Commands
    PROVE  Count(<<c>> \o q) = Count(q) + Ones(IsAbort(c.kind))
<1> DEFINE r == <<c>> \o q
           moved == {i \in 2 .. Len(q) + 1 : IsAbort(q[i - 1].kind)}
           f == [i \in Aborts(q) |-> i + 1]
<1>1. /\ r \in Seq(Commands) /\ Len(r) = Len(q) + 1 /\ r[1] = c /\ Len(q) \in Nat
      /\ DOMAIN r = 1 .. Len(q) + 1 /\ DOMAIN q = 1 .. Len(q)
      /\ \A i \in 2 .. Len(q) + 1 : r[i] = q[i - 1]
  OBVIOUS
<1>2. /\ IsFiniteSet(Aborts(q)) /\ Count(q) \in Nat
      /\ Count(q) = Cardinality(Aborts(q)) /\ Count(r) = Cardinality(Aborts(r))
  BY <1>1, CountFinite
<1>3. f \in Bijection(Aborts(q), moved)
  <2>1. f \in [Aborts(q) -> moved]
    BY <1>1 DEF Aborts
  <2>2. \A a, b \in Aborts(q) : f[a] = f[b] => a = b
    BY <1>1 DEF Aborts
  <2>3. \A t \in moved : \E s \in Aborts(q) : f[s] = t
    <3>1. SUFFICES ASSUME NEW t \in moved PROVE t - 1 \in Aborts(q) /\ f[t - 1] = t
      OBVIOUS
    <3>2. QED BY <1>1 DEF Aborts
  <2> HIDE DEF f, moved
  <2>4. QED BY <2>1, <2>2, <2>3, Fun_IsBij
<1>4. IsFiniteSet(moved) /\ Cardinality(moved) = Cardinality(Aborts(q))
  <2> HIDE DEF f, moved
  <2>1. ExistsBijection(Aborts(q), moved)
    BY <1>3 DEF ExistsBijection
  <2>2. QED BY <1>2, <2>1, FS_Bijection
<1>5. CASE IsAbort(c.kind)
  <2>1. Aborts(r) = moved \cup {1}
    BY <1>1, <1>5 DEF Aborts
  <2>2. 1 \notin moved
    OBVIOUS
  <2>3. Cardinality(Aborts(r)) = Cardinality(moved) + 1
    BY <1>4, <2>1, <2>2, FS_AddElement
  <2>4. QED BY <1>2, <1>4, <1>5, <2>3 DEF Ones
<1>6. CASE ~IsAbort(c.kind)
  <2>1. Aborts(r) = moved
    BY <1>1, <1>6 DEF Aborts
  <2>2. Ones(IsAbort(c.kind)) = 0
    BY <1>6 DEF Ones
  <2> HIDE DEF r, moved, f
  <2>3. Count(r) = Count(q)
    BY <1>2, <1>4, <2>1
  <2>4. Count(r) = Count(q) + Ones(IsAbort(c.kind))
    BY <1>2, <2>2, <2>3
  <2>5. QED BY <2>4 DEF r
<1>7. QED BY <1>5, <1>6

LEMMA CountTail ==
    ASSUME NEW q \in Seq(Commands), q # <<>>
    PROVE  Count(Tail(q)) = Count(q) - Ones(IsAbort(Head(q).kind))
<1>1. Head(q) \in Commands /\ Tail(q) \in Seq(Commands) /\ q = <<Head(q)>> \o Tail(q)
  OBVIOUS
<1>2. Count(q) = Count(Tail(q)) + Ones(IsAbort(Head(q).kind))
  BY <1>1, CountCons
<1>3. Count(q) \in Nat /\ Count(Tail(q)) \in Nat
  BY <1>1, CountFinite
<1>4. QED BY <1>2, <1>3, OnesIs

LEMMA AbortsStep ==
    ASSUME QueueTypes, AbortsCounted, [Next]_vars
    PROVE  AbortsCounted'
<1>1. KeyChange /\ CtlChange
  BY StepQueues
<1>2. /\ key_q \in Seq(Commands) /\ ctl_q \in Seq(Commands) /\ made \in Nat
      /\ key_aborts = Count(key_q) /\ ctl_aborts = Count(ctl_q)
  BY DEF QueueTypes, AbortsCounted
<1> HIDE DEF Count
<1>3. key_aborts' = Count(key_q')
  <2>1. CASE UNCHANGED <<key_q, key_aborts>>
    BY <1>2, <2>1
  <2>2. ASSUME NEW kind \in Kinds,
               /\ key_q' = IF Full(kind) THEN key_q
                           ELSE Append(key_q, [kind |-> kind, n |-> made + 1])
               /\ key_aborts' = key_aborts + Ones(IsAbort(kind) /\ ~Full(kind))
        PROVE  key_aborts' = Count(key_q')
    <3>1. [kind |-> kind, n |-> made + 1] \in Commands
      BY <1>2 DEF Commands
    <3>2. CASE Full(kind)
      <4>1. Ones(IsAbort(kind) /\ ~Full(kind)) = 0
        BY <3>2 DEF Ones
      <4>2. QED BY <1>2, <2>2, <3>2, <4>1, CountFinite
    <3>3. CASE ~Full(kind)
      <4>1. Ones(IsAbort(kind) /\ ~Full(kind)) = Ones(IsAbort(kind))
        BY <3>3 DEF Ones
      <4>2. QED BY <1>2, <2>2, <3>1, <3>3, <4>1, CountAppend
    <3>4. QED BY <3>2, <3>3
  <2>3. CASE KeyRepeated
    <3>1. PICK kind \in Kinds : /\ key_q = <<>>
                                /\ key_q' = <<[kind |-> kind, n |-> made + 1]>>
                                /\ key_aborts' = Ones(IsAbort(kind))
      BY <2>3 DEF KeyRepeated
    <3>2. [kind |-> kind, n |-> made + 1] \in Commands
      BY <1>2 DEF Commands
    <3>3. key_q' = Append(<<>>, [kind |-> kind, n |-> made + 1])
      BY <3>1
    <3>4. Count(key_q') = 0 + Ones(IsAbort(kind))
      BY <1>2, <3>1, <3>2, <3>3, CountAppend, CountEmpty
    <3>5. QED BY <3>1, <3>4, OnesIs
  <2>4. CASE KeyPopped
    BY <1>2, <2>4, CountTail DEF KeyPopped
  <2>5. CASE KeyPassed
    BY <1>2, <2>5 DEF KeyPassed
  <2>6. QED
    BY <1>1, <2>1, <2>2, <2>3, <2>4, <2>5 DEF KeyChange, KeyStays, KeyOffered
<1>4. ctl_aborts' = Count(ctl_q')
  <2>1. CASE CtlAdded
    <3>1. PICK kind \in Kinds :
             /\ ctl_q' = Append(ctl_q, CtlCmd(kind)) \/ ctl_q' = <<CtlCmd(kind)>> \o ctl_q
             /\ ctl_aborts' = ctl_aborts + Ones(IsAbort(kind))
      BY <2>1 DEF CtlAdded
    <3>2. CtlCmd(kind) \in Commands /\ CtlCmd(kind).kind = kind
      BY DEF CtlCmd, Commands
    <3>3. Count(ctl_q') = Count(ctl_q) + Ones(IsAbort(kind))
      BY <1>2, <3>1, <3>2, CountAppend, CountCons
    <3>4. QED BY <1>2, <3>1, <3>3
  <2>2. CASE CtlPopped
    BY <1>2, <2>2, CountTail DEF CtlPopped
  <2>3. QED BY <1>1, <1>2, <2>1, <2>2 DEF CtlChange, ctl_cmd
<1>5. QED BY <1>3, <1>4 DEF AbortsCounted

(* mp_input_check_interrupt gives up a blocking read exactly when an abort *)
(* command waits in a queue: the counters it looks at (input.c line 1713)  *)
(* count the queues, whatever was pushed, dropped, repeated or popped.     *)
THEOREM AbortsAlwaysCounted == Spec => []AbortsCounted
<1>1. Init => AbortsCounted
  BY CountEmpty DEF Init, AbortsCounted
<1>2. QED BY <1>1, AbortsStep, TypesAlways, PTL DEF Spec

----------------------------------------------------------------------------
(* The limit.                                                              *)

\* One command may be above the limit, and then an abort command is queued.
Bounded ==
    /\ Len(key_q) <= KeyFifoSize + 1
    /\ Len(key_q) > KeyFifoSize => key_aborts >= 1

\* The counter of an abort command is not counted down for another one.
LEMMA BoundedStep ==
    ASSUME QueueTypes, AbortsCounted, Bounded, [Next]_vars
    PROVE  Bounded'
<1>1. KeyChange
  BY StepQueues
<1>2. /\ key_q \in Seq(Commands) /\ Len(key_q) \in Nat /\ KeyFifoSize \in Nat \ {0}
      /\ Len(key_q) <= KeyFifoSize + 1
      /\ Len(key_q) > KeyFifoSize => key_aborts >= 1
      /\ key_aborts \in Nat
  BY InputAssumption, CountFinite DEF QueueTypes, Bounded, AbortsCounted
<1>3. CASE UNCHANGED <<key_q, key_aborts>>
  BY <1>2, <1>3 DEF Bounded
<1>4. ASSUME NEW kind \in Kinds,
             /\ key_q' = IF Full(kind) THEN key_q
                         ELSE Append(key_q, [kind |-> kind, n |-> made + 1])
             /\ key_aborts' = key_aborts + Ones(IsAbort(kind) /\ ~Full(kind))
      PROVE  Bounded'
  <2>1. CASE Full(kind)
    BY <1>2, <1>4, <2>1 DEF Bounded, Ones
  <2>2. CASE ~Full(kind)
    <3>1. Len(key_q') = Len(key_q) + 1
      BY <1>2, <1>4, <2>2
    <3>2. CASE Len(key_q) < KeyFifoSize
      BY <1>2, <3>1, <3>2 DEF Bounded
    <3>3. CASE Len(key_q) >= KeyFifoSize
      <4>1. IsAbort(kind) /\ ~(key_aborts > 0)
        BY <2>2, <3>3 DEF Full
      <4>2. Ones(IsAbort(kind) /\ ~Full(kind)) = 1
        BY <2>2, <4>1 DEF Ones
      <4>3. key_aborts' = key_aborts + 1
        BY <1>4, <4>2
      <4>4. Len(key_q) = KeyFifoSize
        BY <1>2, <3>3, <4>1
      <4>5. QED BY <1>2, <3>1, <4>3, <4>4 DEF Bounded
    <3>4. QED BY <1>2, <3>2, <3>3
  <2>3. QED BY <2>1, <2>2
<1>5. CASE KeyRepeated
  <2>1. Len(key_q') = 1
    BY <1>5 DEF KeyRepeated
  <2>2. QED BY <1>2, <2>1 DEF Bounded
<1>6. CASE KeyPopped
  <2>1. Len(key_q') = Len(key_q) - 1
    BY <1>2, <1>6 DEF KeyPopped
  <2>2. QED BY <1>2, <2>1 DEF Bounded
<1>7. QED
  BY <1>1, <1>3, <1>4, <1>5, <1>6 DEF KeyChange, KeyStays, KeyOffered, KeyPassed

(* "limit to avoid repeated slow commands piling up" (input.c line 451):   *)
(* the queue of the keys holds as many as the option allows, and one abort *)
(* command above that.                                                     *)
THEOREM KeysAlwaysBounded == Spec => []KeysBounded
<1>1. Init => Bounded
  BY InputAssumption DEF Init, Bounded
<1>2. Bounded => KeysBounded
  BY DEF Bounded, KeysBounded
<1>3. QED BY <1>1, <1>2, BoundedStep, AbortsAlwaysCounted, TypesAlways, PTL DEF Spec

----------------------------------------------------------------------------
(* The order of the keys.                                                  *)

Numbered ==
    /\ KeysInOrder
    /\ taken <= made
    /\ \A i \in 1 .. Len(key_q) : key_q[i].n <= made

LEMMA NumberedStep ==
    ASSUME QueueTypes, Numbered, [Next]_vars
    PROVE  Numbered'
<1>1. KeyChange
  BY StepQueues
<1>2. /\ key_q \in Seq(Commands) /\ made \in Nat /\ taken \in Nat
      /\ \A i \in 1 .. Len(key_q) : key_q[i] \in Commands /\ key_q[i].n \in Nat
      /\ taken <= made
      /\ \A i \in 1 .. Len(key_q) : key_q[i].n <= made
      /\ \A i \in 1 .. Len(key_q) : key_q[i].n > IF i = 1 THEN taken ELSE key_q[i - 1].n
  <2>1. key_q \in Seq(Commands) /\ made \in Nat /\ taken \in Nat
    BY DEF QueueTypes
  <2>2. \A i \in 1 .. Len(key_q) : key_q[i] \in Commands
    BY <2>1
  <2>3. \A i \in 1 .. Len(key_q) : key_q[i].n \in Nat
    BY <2>2 DEF Commands
  <2>4. QED BY <2>1, <2>2, <2>3 DEF Numbered, KeysInOrder
<1>3. CASE UNCHANGED <<key_q, taken>> /\ made' \in {made, made + 1}
  BY <1>2, <1>3 DEF Numbered, KeysInOrder
<1>4. ASSUME NEW kind \in Kinds, taken' = taken, made' = made + 1,
             key_q' = Append(key_q, [kind |-> kind, n |-> made + 1])
      PROVE  Numbered'
  <2> DEFINE last == Len(key_q) + 1
  <2>1. /\ Len(key_q') = last /\ key_q'[last].n = made + 1
        /\ \A i \in 1 .. Len(key_q) : key_q'[i] = key_q[i]
    BY <1>2, <1>4
  <2>2. \A i \in 1 .. last : key_q'[i].n <= made'
    BY <1>2, <1>4, <2>1
  <2>3. ASSUME NEW i \in 1 .. last
        PROVE  key_q'[i].n > IF i = 1 THEN taken' ELSE key_q'[i - 1].n
    <3>1. CASE i = last
      BY <1>2, <1>4, <2>1, <3>1
    <3>2. CASE i # last
      BY <1>2, <1>4, <2>1, <3>2
    <3>3. QED BY <3>1, <3>2
  <2>4. QED BY <1>2, <1>4, <2>1, <2>2, <2>3 DEF Numbered, KeysInOrder
<1>5. CASE taken' = taken /\ KeyRepeated
  <2>1. PICK kind \in Kinds : /\ key_q = <<>> /\ made' = made + 1
                              /\ key_q' = <<[kind |-> kind, n |-> made + 1]>>
    BY <1>5 DEF KeyRepeated
  <2>2. key_q' = Append(key_q, [kind |-> kind, n |-> made + 1])
    BY <2>1
  <2>3. QED BY <1>4, <1>5, <2>1, <2>2
<1>6. CASE KeyPopped
  <2>1. /\ Len(key_q') = Len(key_q) - 1 /\ Len(key_q) \in Nat \ {0}
        /\ taken' = key_q[1].n /\ made' = made
        /\ \A i \in 1 .. Len(key_q) - 1 : key_q'[i] = key_q[i + 1]
    BY <1>2, <1>6 DEF KeyPopped
  <2>2. taken' <= made' /\ \A i \in 1 .. Len(key_q') : key_q'[i].n <= made'
    BY <1>2, <2>1
  <2>3. ASSUME NEW i \in 1 .. Len(key_q')
        PROVE  key_q'[i].n > IF i = 1 THEN taken' ELSE key_q'[i - 1].n
    <3>1. i + 1 \in 1 .. Len(key_q) /\ i + 1 # 1
      BY <2>1
    <3>2. key_q[i + 1].n > key_q[i].n
      BY <1>2, <3>1
    <3>3. i # 1 => key_q'[i - 1] = key_q[i]
      BY <2>1
    <3>4. QED BY <2>1, <3>2, <3>3
  <2>4. QED BY <2>2, <2>3 DEF Numbered, KeysInOrder
<1>7. CASE KeyPassed
  <2>1. key_q' = <<>> /\ taken' = made' /\ made' \in Nat
    BY <1>2, <1>7 DEF KeyPassed
  <2>2. QED BY <2>1 DEF Numbered, KeysInOrder
<1>8. CASE taken' = taken /\ KeyOffered
  <2>1. CASE UNCHANGED <<key_q, key_aborts, made>>
    BY <1>3, <1>8, <2>1
  <2>2. ASSUME NEW kind \in Kinds, made' = made + 1,
               key_q' = IF Full(kind) THEN key_q
                        ELSE Append(key_q, [kind |-> kind, n |-> made + 1])
        PROVE  Numbered'
    BY <1>3, <1>4, <1>8, <2>2
  <2>3. QED BY <1>8, <2>1, <2>2 DEF KeyOffered
<1>9. QED BY <1>1, <1>3, <1>5, <1>6, <1>7, <1>8 DEF KeyChange, KeyStays

(* The commands of keys are taken in the order of the keys, whatever the   *)
(* limit drops and autorepeat adds in between.                             *)
THEOREM KeysAlwaysInOrder == Spec => []KeysInOrder
<1>1. Init => Numbered
  BY DEF Init, Numbered, KeysInOrder
<1>2. Numbered => KeysInOrder
  BY DEF Numbered
<1>3. QED BY <1>1, <1>2, NumberedStep, TypesAlways, PTL DEF Spec

----------------------------------------------------------------------------
(* Autorepeat.                                                             *)

RepeatOk == ar_state \in {-1, 0, 1} /\ RepeatsHeldKeys

KeyboardStays == UNCHANGED <<key_down, ar_state, ar_cmd>>

LEMMA RepeatedKeeps ==
    ASSUME RepeatOk, NEW kind \in Kinds, Repeated(kind), key_down' = key_down
    PROVE  RepeatOk'
<1>1. /\ ar_state \in {0, 1} /\ key_down # <<>>
      /\ ar_state' = 1 /\ ar_cmd' = kind
      /\ kind = IF ar_state = 0 THEN Bound(key_down) ELSE ar_cmd
  BY DEF Repeated, Held, RepeatOk
<1>2. kind = Bound(key_down)
  BY <1>1 DEF RepeatOk, RepeatsHeldKeys
<1>3. Bound(key_down)' = Bound(key_down)
  BY DEF Bound
<1>4. QED BY <1>1, <1>2, <1>3 DEF RepeatOk, RepeatsHeldKeys

LEMMA NoneFoundKeeps ==
    ASSUME RepeatOk, NoneFound, key_down' = key_down
    PROVE  RepeatOk'
BY DEF RepeatOk, RepeatsHeldKeys, Bound, NoneFound, NotRepeated, repeat

LEMMA StaysKeeps ==
    ASSUME RepeatOk, KeyboardStays
    PROVE  RepeatOk'
BY DEF RepeatOk, RepeatsHeldKeys, Bound, KeyboardStays

\* With no key down the table has room, so a key that goes down is new.
LEMMA DownKeeps ==
    ASSUME RepeatOk, NEW b, NEW twice, Down(b, twice)
    PROVE  RepeatOk'
<1> DEFINE new == b \notin ToSet(key_down) /\ Len(key_down) < MaxKeyDown
<1>1. /\ ar_state' = IF new THEN 0 ELSE ar_state
      /\ key_down' = IF new THEN Append(key_down, b) ELSE key_down
      /\ ar_cmd' = ar_cmd
  BY Zenon DEF Down, Restarted
<1>2. CASE new
  BY <1>1, <1>2 DEF RepeatOk, RepeatsHeldKeys
<1>3. CASE ~new
  BY <1>1, <1>3, StaysKeeps DEF KeyboardStays
<1>4. QED BY <1>2, <1>3

LEMMA RepeatStep ==
    ASSUME RepeatOk, [Next]_vars
    PROVE  RepeatOk'
<1>1. CASE \E b \in Buttons, twice \in BOOLEAN : Down(b, twice)
  BY <1>1, DownKeeps
<1>2. CASE (\E k \in Keys \cup Buttons : Press(k)) \/ ReleaseAll
  <2>1. ar_state' = -1 \/ (key_down' = <<>> /\ ar_state' = ar_state)
    BY <1>2 DEF Press, ReleaseAll, repeat
  <2>2. QED BY <2>1 DEF RepeatOk, RepeatsHeldKeys
<1>3. CASE \/ \E kind \in CmdKinds : SlaveCmd(kind)
           \/ QueueCmd \/ Signal \/ Elapse \/ EndOfFile \/ FrameDone \/ Shown
           \/ Run \/ DoSeek \/ Opened \/ OpenFails \/ Obey \/ UNCHANGED vars
  <2>1. KeyboardStays
    BY <1>3 DEF SlaveCmd, QueueCmd, Signal, Elapse, EndOfFile, FrameDone, Shown, Run,
                DoSeek, Opened, OpenFails, Obey, vars, World, chord, repeat,
                KeyboardStays
  <2>2. QED BY <2>1, StaysKeeps
<1>4. CASE Sleep \/ Peek \/ Get \/ TakeOne
  <2>1. key_down' = key_down
    BY <1>4 DEF Sleep, Peek, Get, TakeOne, World, chord
  <2>2. (\E c \in Cmds : Look(c) \/ Fetch(c)) \/ NoneFound
    BY <1>4 DEF Sleep, Peek, Get, TakeOne
  <2>3. (\E c \in Cmds : UNCHANGED repeat \/ Repeated(c.kind)) \/ NoneFound
    BY <2>2 DEF Look, Fetch
  <2>4. CASE UNCHANGED repeat
    BY <2>1, <2>4, StaysKeeps DEF KeyboardStays, repeat
  <2>5. ASSUME NEW c \in Cmds, Repeated(c.kind)
        PROVE  RepeatOk'
    <3>1. c.kind \in Kinds
      BY <2>5 DEF Cmds
    <3>2. QED BY <2>1, <2>5, <3>1, RepeatedKeeps
  <2>6. QED BY <2>1, <2>3, <2>4, <2>5, NoneFoundKeeps
<1>5. QED
  BY <1>1, <1>2, <1>3, <1>4 DEF Next, Player, User

(* The command that check_autorepeat repeats is the one bound to the keys  *)
(* that are down, whichever went down or came up since it was looked up    *)
(* (input.c line 1099).                                                    *)
THEOREM RepeatsAlwaysHeldKeys == Spec => []RepeatsHeldKeys
<1>1. Init => RepeatOk
  BY DEF Init, RepeatOk, RepeatsHeldKeys
<1>2. RepeatOk => RepeatsHeldKeys
  BY DEF RepeatOk
<1>3. QED BY <1>1, <1>2, RepeatStep, PTL DEF Spec

----------------------------------------------------------------------------
(* The seek before other commands.                                         *)

(* Commands from outside are seeks, and no signal asks the player to quit. *)
OnlySeeksOutside == CmdKinds \subseteq {"seek"} /\ ~Signals

\* What the loop has looked at and found to be a seek still goes first when
\* it is fetched: a key's command comes behind it, a slave's is a seek.
SeekInv ==
    /\ ctl_q \in Seq({CtlCmd("seek")}) /\ ~async_quit
    /\ pc = "get" /\ seeking =>
           ctl_q # <<>> \/ (key_q # <<>> /\ Head(key_q).kind = "seek")
    /\ pc = "run" /\ seeking => cmd.kind = "seek"

LEMMA OfferKeepsHead ==
    ASSUME key_q \in Seq(Commands), NEW kind, Offer(kind), key_q # <<>>
    PROVE  key_q' # <<>> /\ Head(key_q') = Head(key_q)
<1>1. \A c : Append(key_q, c) # <<>> /\ Head(Append(key_q, c)) = Head(key_q)
  OBVIOUS
<1>2. key_q' = key_q \/ \E c : key_q' = Append(key_q, c)
  BY Zenon DEF Offer, Queued, key_cmd
<1>3. QED BY <1>1, <1>2

LEMMA KeyKeepsSeek ==
    ASSUME SeekInv, key_q \in Seq(Commands), NEW kind, Offer(kind),
           UNCHANGED <<ctl_q, async_quit, cmd, seeking>>, pc' \in {pc, "wild"}
    PROVE  SeekInv'
<1>1. key_q # <<>> => key_q' # <<>> /\ Head(key_q') = Head(key_q)
  BY OfferKeepsHead
<1>2. pc' = "get" \/ pc' = "run" => pc' = pc
  OBVIOUS
<1>3. QED BY <1>1, <1>2 DEF SeekInv

LEMMA ControlKeepsSeek ==
    ASSUME SeekInv, OnlySeeksOutside,
           (\E kind \in CmdKinds : SlaveCmd(kind)) \/ QueueCmd
    PROVE  SeekInv'
<1>1. ~QueueCmd
  BY DEF QueueCmd, OnlySeeksOutside
<1>2. SlaveCmd("seek")
  BY <1>1 DEF OnlySeeksOutside
<1>3. /\ ctl_q' = Append(ctl_q, CtlCmd("seek"))
      /\ UNCHANGED <<key_q, async_quit, pc, cmd, seeking>>
  BY <1>2 DEF SlaveCmd, Control, key_cmd, player
<1>4. ctl_q' \in Seq({CtlCmd("seek")}) /\ ctl_q' # <<>>
  BY <1>3 DEF SeekInv
<1>5. QED BY <1>3, <1>4 DEF SeekInv

LEMMA PeekKeepsSeek ==
    ASSUME SeekInv, Peek
    PROVE  SeekInv'
<1>1. ctl_q' = ctl_q /\ UNCHANGED <<async_quit, cmd, seeking>>
  BY DEF Peek, Look, NoneFound, World, queues, ctl_cmd
<1>2. pc' # "run"
  BY DEF Peek
<1>3. ASSUME pc' = "get", seeking, ctl_q = <<>>
      PROVE  key_q' # <<>> /\ Head(key_q').kind = "seek"
  <2>1. PICK c \in Cmds : Look(c) /\ ~NotYet(c.kind)
    BY <1>3 DEF Peek
  <2>2. c.kind = "seek"
    BY <1>3, <2>1 DEF NotYet
  <2>3. CASE ~async_quit /\ ~Idle /\ c = Head(FirstQueue)
             /\ UNCHANGED <<repeat, queues, made>>
    BY <1>3, <2>2, <2>3 DEF Idle, FirstQueue, queues, key_cmd
  <2>4. CASE key_q' = <<c>>
    <3>1. <<c>> # <<>> /\ Head(<<c>>) = c
      OBVIOUS
    <3>2. QED BY <2>2, <2>4, <3>1
  <2>5. QED BY <2>1, <2>3, <2>4 DEF Look, SeekInv
<1>4. QED BY <1>1, <1>2, <1>3 DEF SeekInv

LEMMA GetKeepsSeek ==
    ASSUME SeekInv, Get \/ TakeOne
    PROVE  SeekInv'
<1>1. UNCHANGED <<async_quit, seeking>> /\ pc' # "get"
  BY DEF Get, TakeOne, World
<1>2. ctl_q' \in Seq({CtlCmd("seek")})
  <2>1. ctl_q' = ctl_q \/ (ctl_q # <<>> /\ ctl_q' = Tail(ctl_q))
    BY DEF Get, TakeOne, Fetch, NoneFound, queues, ctl_cmd
  <2>2. ctl_q # <<>> => Tail(ctl_q) \in Seq({CtlCmd("seek")})
    BY DEF SeekInv
  <2>3. QED BY <2>1, <2>2 DEF SeekInv
<1>3. ASSUME pc' = "run", seeking PROVE cmd'.kind = "seek"
  <2>1. PICK c \in Cmds : Fetch(c) /\ cmd' = c /\ pc = "get"
    BY <1>3 DEF Get, TakeOne
  <2>2. ctl_q # <<>> \/ (key_q # <<>> /\ Head(key_q).kind = "seek")
    BY <1>3, <2>1 DEF SeekInv
  <2>3. CASE ctl_q # <<>>
    <3>1. c = Head(ctl_q)
      BY <2>1, <2>3 DEF Fetch, Idle, SeekInv
    <3>2. Head(ctl_q) = CtlCmd("seek")
      BY <2>3 DEF SeekInv
    <3>3. QED BY <2>1, <3>1, <3>2 DEF CtlCmd
  <2>4. CASE ctl_q = <<>>
    BY <2>1, <2>2, <2>4 DEF Fetch, Idle, SeekInv
  <2>5. QED BY <2>3, <2>4
<1>4. QED BY <1>1, <1>2, <1>3 DEF SeekInv

LEMMA SeekStep ==
    ASSUME OnlySeeksOutside, QueueTypes, SeekInv, [Next]_vars
    PROVE  SeekInv'
<1>1. CASE \E b \in Buttons, twice \in BOOLEAN : Down(b, twice)
  <2>1. PICK b \in Buttons, twice \in BOOLEAN : Down(b, twice)
    BY <1>1
  <2>2. \E kind : Offer(kind)
    BY <2>1, Zenon DEF Down
  <2>3. UNCHANGED <<ctl_q, async_quit, cmd, seeking, pc>>
    BY <2>1 DEF Down, ctl_cmd, player
  <2>4. QED BY <2>2, <2>3, KeyKeepsSeek DEF QueueTypes
<1>2. CASE \E k \in Keys \cup Buttons : Press(k)
  <2>1. PICK k \in Keys \cup Buttons : Press(k)
    BY <1>2
  <2>2. /\ Offer(PressKind(k)) /\ pc' \in {pc, "wild"}
        /\ UNCHANGED <<ctl_q, async_quit, cmd, seeking>>
    BY <2>1 DEF Press, ctl_cmd
  <2>3. QED BY <2>2, KeyKeepsSeek DEF QueueTypes
<1>3. CASE (\E kind \in CmdKinds : SlaveCmd(kind)) \/ QueueCmd
  BY <1>3, ControlKeepsSeek
<1>4. CASE Peek
  BY <1>4, PeekKeepsSeek
<1>5. CASE Get \/ TakeOne
  BY <1>5, GetKeepsSeek
<1>6. CASE ReleaseAll \/ Elapse \/ UNCHANGED vars
  BY <1>6 DEF ReleaseAll, Elapse, vars, queues, key_cmd, ctl_cmd, player, World,
              SeekInv
<1>7. CASE Sleep
  BY <1>7 DEF Sleep, Look, NoneFound, queues, ctl_cmd, player, World, SeekInv
<1>8. CASE \/ EndOfFile \/ Shown \/ FrameDone \/ Run \/ DoSeek
           \/ Opened \/ OpenFails \/ Obey
  <2>1. /\ UNCHANGED <<ctl_q, key_q, async_quit>>
        /\ pc' # "get" /\ pc' # "run"
    BY <1>8 DEF EndOfFile, Shown, FrameDone, Run, DoSeek, Opened, OpenFails, Obey,
                World, queues, key_cmd, ctl_cmd
  <2>2. QED BY <2>1 DEF SeekInv
<1>9. ~Signal
  BY DEF Signal, OnlySeeksOutside
<1>10. QED
  BY <1>1, <1>2, <1>3, <1>4, <1>5, <1>6, <1>7, <1>8, <1>9 DEF Next, Player, User

(* The second mp_input_get_cmd of the loop never fetches another command   *)
(* than a seek while a seek is pending, however keys come in between, as    *)
(* long as only seeks come from outside and no signal does: what runs a     *)
(* command before the seek is slave mode, or a signal.                      *)
THEOREM KeysNeverOvertakeSeek ==
    ASSUME OnlySeeksOutside
    PROVE  Spec => []SeekFirst
<1>1. Init => SeekInv
  BY DEF Init, SeekInv
<1>2. SeekInv => SeekFirst
  BY DEF SeekInv, SeekFirst
<1>3. SeekInv /\ QueueTypes /\ [Next]_vars => SeekInv'
  BY SeekStep
<1>4. QED BY <1>1, <1>2, <1>3, TypesAlways, PTL DEF Spec
=============================================================================
