---------------------------- MODULE CallsProofs ----------------------------
(***************************************************************************)
(* Proofs about Calls, for any calls, methods, peers, faults and sounds.   *)
(*                                                                         *)
(* TypeOK and UpAfterRing hold without further assumptions.  That ends and *)
(* holds are told, that events come in order, and that the live call can   *)
(* be reached and no held sound outlives its call, hold only of some       *)
(* applications and peers: AccountStays, OnlyPeersEnd, ~ Overlap and what  *)
(* the theorem on holds assumes of Peer say of which.                      *)
(***************************************************************************)
EXTENDS Calls, ScriptParts, SequenceTheorems, TLAPS

-----------------------------------------------------------------------------
(* What scripts contain.                                                   *)

(* What a script contains after its first operation gave way to ops.       *)
LEMMA HasContinue ==
    ASSUME NEW T, NEW s \in Seq(T), s # <<>>, NEW ops \in Seq(T), NEW S
    PROVE  /\ ops \o Tail(s) \in Seq(T)
           /\ Tail(s) \in Seq(T)
           /\ Head(s) \in T
           /\ Has(ops \o Tail(s), S) <=> Has(ops, S) \/ Has(Tail(s), S)
           /\ Has(s, S) <=> Head(s) \in S \/ Has(Tail(s), S)
<1> DEFINE r == ops \o Tail(s)
<1>1. /\ Head(s) \in T /\ Tail(s) \in Seq(T) /\ Len(Tail(s)) = Len(s) - 1
      /\ \A i \in 1 .. Len(Tail(s)) : Tail(s)[i] = s[i + 1]
  BY HeadTailProperties
<1>2. /\ r \in Seq(T) /\ Len(r) = Len(ops) + Len(Tail(s))
      /\ \A i \in 1 .. Len(ops) + Len(Tail(s)) :
            r[i] = IF i <= Len(ops) THEN ops[i] ELSE Tail(s)[i - Len(ops)]
  BY <1>1, ConcatProperties
<1>3. Len(s) \in Nat \ {0} /\ Len(ops) \in Nat /\ Len(Tail(s)) \in Nat /\ Head(s) = s[1]
  BY <1>1, LenProperties, EmptySeq
<1>4. Has(r, S) <=> Has(ops, S) \/ Has(Tail(s), S)
  <2>1. ASSUME Has(r, S) PROVE Has(ops, S) \/ Has(Tail(s), S)
    <3>1. PICK i \in 1 .. Len(r) : r[i] \in S  BY <2>1 DEF Has
    <3>2. CASE i <= Len(ops)  BY <1>2, <1>3, <3>1, <3>2 DEF Has
    <3>3. CASE ~ i <= Len(ops)
      <4>1. i - Len(ops) \in 1 .. Len(Tail(s))  BY <1>2, <1>3, <3>3
      <4>2. Tail(s)[i - Len(ops)] \in S  BY <1>2, <1>3, <3>1, <3>3
      <4> QED  BY <4>1, <4>2 DEF Has
    <3> QED  BY <3>2, <3>3
  <2>2. ASSUME Has(ops, S) PROVE Has(r, S)
    <3>1. PICK i \in 1 .. Len(ops) : ops[i] \in S  BY <2>2 DEF Has
    <3>2. i \in 1 .. Len(r) /\ r[i] = ops[i]  BY <1>2, <1>3
    <3> QED  BY <3>1, <3>2 DEF Has
  <2>3. ASSUME Has(Tail(s), S) PROVE Has(r, S)
    <3>1. PICK i \in 1 .. Len(Tail(s)) : Tail(s)[i] \in S  BY <2>3 DEF Has
    <3>2. Len(ops) + i \in 1 .. Len(r) /\ r[Len(ops) + i] = Tail(s)[i]  BY <1>2, <1>3
    <3> QED  BY <3>1, <3>2 DEF Has
  <2> QED  BY <2>1, <2>2, <2>3
<1>5. Has(s, S) <=> Head(s) \in S \/ Has(Tail(s), S)
  <2>1. ASSUME Has(s, S), Head(s) \notin S PROVE Has(Tail(s), S)
    <3>1. PICK i \in 1 .. Len(s) : s[i] \in S  BY <2>1 DEF Has
    <3>2. i - 1 \in 1 .. Len(Tail(s)) /\ Tail(s)[i - 1] = s[i]
      BY <1>1, <1>3, <2>1, <3>1
    <3> QED  BY <3>1, <3>2 DEF Has
  <2>2. ASSUME Head(s) \in S PROVE Has(s, S)
    BY <1>3, <2>2 DEF Has
  <2>3. ASSUME Has(Tail(s), S) PROVE Has(s, S)
    <3>1. PICK i \in 1 .. Len(Tail(s)) : Tail(s)[i] \in S  BY <2>3 DEF Has
    <3>2. i + 1 \in 1 .. Len(s) /\ s[i + 1] = Tail(s)[i]  BY <1>1, <1>3
    <3> QED  BY <3>1, <3>2 DEF Has
  <2> QED  BY <2>1, <2>2, <2>3
<1> QED  BY <1>1, <1>2, <1>4, <1>5

(* What small scripts contain.                                             *)
LEMMA HasSmall ==
    ASSUME NEW S
    PROVE  /\ ~ Has(<<>>, S)
           /\ \A a : Has(<<a>>, S) <=> a \in S
           /\ \A a, b : Has(<<a, b>>, S) <=> a \in S \/ b \in S
<1>1. ~ Has(<<>>, S)
  BY DEF Has
<1>2. ASSUME NEW a  PROVE Has(<<a>>, S) <=> a \in S
  BY DEF Has
<1>3. ASSUME NEW a, NEW b  PROVE Has(<<a, b>>, S) <=> a \in S \/ b \in S
  <2>1. Len(<<a, b>>) = 2 /\ <<a, b>>[1] = a /\ <<a, b>>[2] = b
    OBVIOUS
  <2> QED  BY <2>1 DEF Has
<1> QED  BY <1>1, <1>2, <1>3

(* What a script of three operations contains.                             *)
LEMMA HasThree ==
    ASSUME NEW S
    PROVE  \A a, b, c : Has(<<a, b, c>>, S) <=> a \in S \/ b \in S \/ c \in S
<1> TAKE a, b, c
<1>1. /\ Len(<<a, b, c>>) = 3
      /\ <<a, b, c>>[1] = a /\ <<a, b, c>>[2] = b /\ <<a, b, c>>[3] = c
  OBVIOUS
<1> QED  BY <1>1 DEF Has

(* Small scripts that contain one operation of A at most.                  *)
LEMMA OnceSmall ==
    ASSUME NEW A
    PROVE  /\ Once(<<>>, A)
           /\ \A a : Once(<<a>>, A)
           /\ \A a, b : b \notin A => Once(<<a, b>>, A) /\ Once(<<b, a>>, A)
           /\ \A a, b, c : b \notin A /\ c \notin A => Once(<<a, b, c>>, A)
<1>1. Once(<<>>, A) /\ \A a : Once(<<a>>, A)
  BY DEF Once
<1>2. ASSUME NEW a, NEW b, b \notin A  PROVE Once(<<a, b>>, A) /\ Once(<<b, a>>, A)
  <2>1. Len(<<a, b>>) = 2 /\ <<a, b>>[1] = a /\ <<a, b>>[2] = b
    OBVIOUS
  <2>2. Len(<<b, a>>) = 2 /\ <<b, a>>[1] = b /\ <<b, a>>[2] = a
    OBVIOUS
  <2> QED  BY <1>2, <2>1, <2>2 DEF Once
<1>3. ASSUME NEW a, NEW b, NEW c, b \notin A, c \notin A  PROVE Once(<<a, b, c>>, A)
  <2>1. /\ Len(<<a, b, c>>) = 3
        /\ <<a, b, c>>[1] = a /\ <<a, b, c>>[2] = b /\ <<a, b, c>>[3] = c
    OBVIOUS
  <2> QED  BY <1>3, <2>1 DEF Once
<1> QED  BY <1>1, <1>2, <1>3

(* The operation stays the only one when the first of the script gives way *)
(* to others, one of which takes its place or none is of A.                *)
LEMMA OnceContinue ==
    ASSUME NEW T, NEW s \in Seq(T), s # <<>>, NEW A, Once(s, A)
    PROVE  /\ Head(s) \in A => ~ Has(Tail(s), A)
           /\ \A ops \in Seq(T) :
                 Once(ops, A) /\ (Head(s) \in A \/ ~ Has(ops, A)) => Once(ops \o Tail(s), A)
<1>1. /\ Tail(s) \in Seq(T) /\ Len(Tail(s)) = Len(s) - 1 /\ Len(s) \in Nat \ {0}
      /\ Head(s) = s[1]
      /\ \A i \in 1 .. Len(Tail(s)) : Tail(s)[i] = s[i + 1]
  BY HeadTailProperties, LenProperties, EmptySeq
<1>2. ASSUME Head(s) \in A, Has(Tail(s), A)  PROVE FALSE
  <2>1. PICK i \in 1 .. Len(Tail(s)) : Tail(s)[i] \in A
    BY <1>2 DEF Has
  <2>2. 1 \in 1 .. Len(s) /\ i + 1 \in 1 .. Len(s) /\ 1 # i + 1
    BY <1>1
  <2> QED  BY <1>1, <1>2, <2>1, <2>2 DEF Once
<1>3. Once(Tail(s), A)
  <2> SUFFICES ASSUME NEW i \in 1 .. Len(Tail(s)), NEW j \in 1 .. Len(Tail(s)),
                      Tail(s)[i] \in A, Tail(s)[j] \in A
               PROVE  i = j
    BY DEF Once
  <2>1. i + 1 \in 1 .. Len(s) /\ j + 1 \in 1 .. Len(s)
    BY <1>1
  <2>2. i + 1 = j + 1
    BY <1>1, <2>1 DEF Once
  <2> QED  BY <2>2
<1>4. ASSUME NEW ops \in Seq(T), Once(ops, A), ~ Has(Tail(s), A) \/ ~ Has(ops, A)
      PROVE  Once(ops \o Tail(s), A)
  <2> DEFINE r == ops \o Tail(s)
             tl == Tail(s)
  <2>1. /\ Len(r) = Len(ops) + Len(tl) /\ Len(ops) \in Nat /\ Len(tl) \in Nat
        /\ \A i \in 1 .. Len(ops) + Len(tl) :
              r[i] = IF i <= Len(ops) THEN ops[i] ELSE tl[i - Len(ops)]
    BY <1>1, ConcatProperties, LenProperties
  <2> HIDE DEF r, tl
  <2> SUFFICES ASSUME NEW i \in 1 .. Len(r), NEW j \in 1 .. Len(r), r[i] \in A, r[j] \in A
               PROVE  i = j
    BY DEF Once, r
  <2>2. \A k \in 1 .. Len(r) :
           \/ k \in 1 .. Len(ops) /\ r[k] = ops[k]
           \/ k - Len(ops) \in 1 .. Len(tl) /\ r[k] = tl[k - Len(ops)]
    BY <2>1
  <2>3. CASE ~ Has(tl, A)
    <3>1. i \in 1 .. Len(ops) /\ ops[i] \in A /\ j \in 1 .. Len(ops) /\ ops[j] \in A
      BY <2>2, <2>3 DEF Has
    <3> QED  BY <1>4, <3>1 DEF Once
  <2>4. CASE ~ Has(ops, A)
    <3>1. /\ i - Len(ops) \in 1 .. Len(tl) /\ tl[i - Len(ops)] \in A
          /\ j - Len(ops) \in 1 .. Len(tl) /\ tl[j - Len(ops)] \in A
      BY <2>2, <2>4 DEF Has
    <3>2. i - Len(ops) = j - Len(ops)
      BY <1>3, <3>1 DEF Once, tl
    <3> QED  BY <2>1, <3>2
  <2> QED  BY <1>4, <2>3, <2>4 DEF tl
<1> QED  BY <1>2, <1>4

(* The last operation stays last when others are put before it.            *)
LEMMA FinalConcat ==
    ASSUME NEW T, NEW a \in Seq(T), NEW b \in Seq(T), NEW A, ~ Has(a, A), Final(b, A)
    PROVE  Final(a \o b, A)
<1> DEFINE r == a \o b
<1>1. /\ Len(r) = Len(a) + Len(b) /\ Len(a) \in Nat /\ Len(b) \in Nat
      /\ \A i \in 1 .. Len(a) + Len(b) :
            r[i] = IF i <= Len(a) THEN a[i] ELSE b[i - Len(a)]
  BY ConcatProperties, LenProperties
<1> HIDE DEF r
<1> SUFFICES ASSUME NEW i \in 1 .. Len(r), r[i] \in A  PROVE i = Len(r)
  BY DEF Final, r
<1>2. ~ i <= Len(a)
  BY <1>1 DEF Has
<1>3. i - Len(a) \in 1 .. Len(b) /\ r[i] = b[i - Len(a)]
  BY <1>1, <1>2
<1>4. i - Len(a) = Len(b)
  BY <1>3 DEF Final
<1> QED  BY <1>1, <1>4

(* An operation that is not there is nowhere before the last; nor is one   *)
(* that is alone, or that is not the first of two.                         *)
LEMMA FinalSmall ==
    ASSUME NEW A
    PROVE  /\ \A s : ~ Has(s, A) => Final(s, A)
           /\ \A o : Final(<<o>>, A)
           /\ \A a, b : a \notin A => Final(<<a, b>>, A)
<1>1. \A s : ~ Has(s, A) => Final(s, A)
  BY DEF Has, Final
<1>2. \A o : Final(<<o>>, A)
  BY DEF Final
<1>3. ASSUME NEW a, NEW b, a \notin A  PROVE Final(<<a, b>>, A)
  <2>1. Len(<<a, b>>) = 2 /\ <<a, b>>[1] = a /\ <<a, b>>[2] = b
    OBVIOUS
  <2> QED  BY <1>3, <2>1 DEF Final
<1> QED  BY <1>1, <1>2, <1>3

(* What becomes of the last operation when a script goes on.               *)
LEMMA FinalContinue ==
    ASSUME NEW T, NEW s \in Seq(T), s # <<>>, NEW A, Final(s, A)
    PROVE  /\ Final(Tail(s), A)
           /\ Head(s) \in A => Tail(s) = <<>>
           /\ \A ops \in Seq(T) : ~ Has(ops, A) => Final(ops \o Tail(s), A)
<1>1. /\ Tail(s) \in Seq(T)
      /\ Len(Tail(s)) = Len(s) - 1 /\ Len(s) \in Nat \ {0} /\ Head(s) = s[1]
      /\ \A i \in 1 .. Len(Tail(s)) : Tail(s)[i] = s[i + 1]
  BY HeadTailProperties, LenProperties, EmptySeq
<1>2. Final(Tail(s), A)
  <2> SUFFICES ASSUME NEW i \in 1 .. Len(Tail(s)), Tail(s)[i] \in A  PROVE i = Len(Tail(s))
    BY DEF Final
  <2>1. i + 1 \in 1 .. Len(s) /\ s[i + 1] \in A  BY <1>1
  <2>2. i + 1 = Len(s)  BY <2>1 DEF Final
  <2>3. Len(Tail(s)) = Len(s) - 1 /\ i \in Int  BY <1>1
  <2> QED  BY <2>2, <2>3
<1>3. Head(s) \in A => Tail(s) = <<>>
  <2> SUFFICES ASSUME Head(s) \in A  PROVE Tail(s) = <<>>
    OBVIOUS
  <2>1. 1 \in 1 .. Len(s) /\ s[1] \in A  BY <1>1
  <2>2. Len(s) = 1  BY <2>1 DEF Final
  <2>3. Len(Tail(s)) = 0  BY <1>1, <2>2
  <2> QED  BY <1>1, <2>3, EmptySeq
<1>4. ASSUME NEW ops \in Seq(T), ~ Has(ops, A)  PROVE Final(ops \o Tail(s), A)
  BY <1>1, <1>2, <1>4, FinalConcat
<1> QED  BY <1>2, <1>3, <1>4

-----------------------------------------------------------------------------
(* Types.                                                                  *)

\* The operations that concern a call.
CallOps == {"uaEvent", "sipCall", "tell", "delist", "destroy", "sendInvite",
            "sendAnswer", "setCurrent", "answer", "hangup", "pause", "resume"}

\* The operations that concern a timer.
TimerOps == {"newTimer", "schedule", "ifTimer", "cancel", "noTimer"}

(* The fields of an operation have the type that its kind calls for.       *)
LEMMA OpFields ==
    ASSUME NEW o \in Ops
    PROVE  /\ o.op \in CallOps => o.call \in CallIds
           /\ o.op \in {"uaEvent", "sipCall"} => o.event \in Events
           /\ o.op = "tell" => o.event \in {"Ring", "Up", "Paused", "Resuming", "Hangup"}
           /\ o.op = "withCurrent" => o.do \in {"answer", "hangup", "pause", "resume"}
           /\ o.op = "closeCurrent" => o.busy \in BOOLEAN
           /\ o.op \in TimerOps => o.timer \in Timers
           /\ o.op = "newPlayer" => o.tone \in Tones
BY DEF Ops, CallOps, TimerOps

(* The operations that the code calls for are operations.                  *)
LEMMA OpTypes ==
    /\ \A c \in CallIds, e \in Events :
          /\ UaEvent(c, e) \in Ops
          /\ [op |-> "sipCall", call |-> c, event |-> e] \in Ops
    /\ \A c \in CallIds, e \in {"Ring", "Up", "Paused", "Resuming", "Hangup"} :
          Tell(c, e) \in Ops
    /\ \A c \in CallIds, k \in {"delist", "destroy", "sendInvite", "sendAnswer",
                                "setCurrent", "answer", "hangup", "pause", "resume"} :
          OnCall(k, c) \in Ops
    /\ \A b \in BOOLEAN : [op |-> "closeCurrent", busy |-> b] \in Ops
    /\ \A d \in {"answer", "hangup", "pause", "resume"} :
          [op |-> "withCurrent", do |-> d] \in Ops
    /\ \A k \in {"startRinging", "stopRinging", "stopRingtone", "playRingBack", "playBusy",
                 "startPlayer", "stopMediaPlayer", "release", "noPlayer", "setCallVolume",
                 "resetIfCurrent", "resetIfNone", "noCurrent", "noUa", "setUa"} :
          Do(k) \in Ops
    /\ \A k \in Timers, op \in TimerOps : OfTimer(op, k) \in Ops
    /\ \A tone \in Tones : [op |-> "newPlayer", tone |-> tone] \in Ops
BY DEF Ops, UaEvent, Tell, OnCall, Do, OfTimer, TimerOps

(* A script of up to four operations is a sequence of operations.          *)
LEMMA ShortScripts ==
    /\ <<>> \in Seq(Ops)
    /\ \A o \in Ops : <<o>> \in Seq(Ops)
    /\ \A o, p \in Ops : <<o, p>> \in Seq(Ops)
    /\ \A o, p, q \in Ops : <<o, p, q>> \in Seq(Ops)
    /\ \A o, p, q, r \in Ops : <<o, p, q, r>> \in Seq(Ops)
OBVIOUS

(* The platform thread and the baresip thread are all the threads.         *)
LEMMA ThreadNames == "main" \in Threads /\ "re" \in Threads
BY DEF Threads

(* What a method and what an event call for are scripts.                   *)
LEMMA BodyType ==
    \A m \in {"answer", "hangup", "pause", "resume"} : Body(m) \in Seq(Ops)
<1> TAKE m \in {"answer", "hangup", "pause", "resume"}
<1>1. /\ Do("stopRinging") \in Ops /\ Do("stopMediaPlayer") \in Ops
      /\ Do("setCallVolume") \in Ops /\ [op |-> "withCurrent", do |-> m] \in Ops
      /\ [op |-> "withCurrent", do |-> "answer"] \in Ops
  BY OpTypes
<1> QED  BY <1>1, ShortScripts DEF Body

LEMMA ReactionType ==
    ASSUME NEW c \in CallIds, NEW e \in Events
    PROVE  Reaction(c, e) \in Seq(Ops)
<1>1. CASE e = "incoming"
  BY <1>1, OpTypes, ShortScripts DEF Reaction
<1>2. CASE e = "outgoing"
  BY <1>2, OpTypes, ShortScripts DEF Reaction
<1>3. CASE e \in {"ringing", "progress", "early media"}
  BY <1>3, OpTypes, ShortScripts DEF Reaction
<1>4. CASE e \in {"update 0", "update 1", "update 2", "update 3"}
  BY <1>4, OpTypes, ShortScripts DEF Reaction, UpdateTold
<1>5. CASE e = "established"
  BY <1>5, OpTypes, ShortScripts DEF Reaction
<1>6. CASE e \in {"closed", "closed busy"}
  <2> DEFINE o == [op |-> "closeCurrent", busy |-> e = "closed busy"]
  <2>1. Tell(c, "Hangup") \in Ops /\ OnCall("delist", c) \in Ops /\ o \in Ops
    BY OpTypes
  <2>2. Reaction(c, e) = <<Tell(c, "Hangup"), OnCall("delist", c), o>>
    BY <1>6 DEF Reaction, Ending
  <2> HIDE DEF o
  <2> QED  BY <2>1, <2>2, ShortScripts
<1>7. CASE e = "other"
  BY <1>7, ShortScripts DEF Reaction
<1> QED  BY <1>1, <1>2, <1>3, <1>4, <1>5, <1>6, <1>7 DEF Events

(* A step of a thread keeps the scripts scripts.                           *)
LEMMA ContinueType ==
    ASSUME NEW t \in Threads, todo \in [Threads -> Seq(Ops)], todo[t] # <<>>,
           NEW ops \in Seq(Ops), Continue(t, ops)
    PROVE  /\ todo' \in [Threads -> Seq(Ops)]
           /\ Head(todo[t]) \in Ops
<1>1. ops \o Tail(todo[t]) \in Seq(Ops) /\ Head(todo[t]) \in Ops
  BY HasContinue
<1> QED  BY <1>1 DEF Continue

(* Entering a handler keeps the scripts scripts.                           *)
LEMMA StartType ==
    ASSUME NEW t \in Threads, todo \in [Threads -> Seq(Ops)],
           NEW ops \in Seq(Ops), Start(t, ops)
    PROVE  todo' \in [Threads -> Seq(Ops)]
BY DEF Start

(* Calling a method preserves the types.                                   *)
LEMMA MethodType ==
    ASSUME TypeOK,
           \/ \E m \in {"answer", "hangup", "pause", "resume"} : CallMethod(m)
           \/ UnregisterSipAccount \/ InitSipModule \/ Detach
           \/ BusyToneEnds
    PROVE  TypeOK'
<1> USE DEF TypeOK, MediaTypeOK, kotlin, baresip, dart, media
<1>1. CASE \E m \in {"answer", "hangup", "pause", "resume"} : CallMethod(m)
  <2>1. PICK m \in {"answer", "hangup", "pause", "resume"} : CallMethod(m)
    BY <1>1
  <2>2. Body(m) \in Seq(Ops) /\ Start("main", Body(m))
    BY <2>1, BodyType DEF CallMethod
  <2>3. todo' \in [Threads -> Seq(Ops)]
    BY <2>2, StartType, ThreadNames
  <2> QED  BY <2>1, <2>3 DEF CallMethod
<1>2. CASE UnregisterSipAccount
  BY <1>2, OpTypes, ShortScripts, StartType, ThreadNames DEF UnregisterSipAccount
<1>3. CASE InitSipModule
  BY <1>3, OpTypes, ShortScripts, StartType, ThreadNames DEF InitSipModule
<1>4. CASE Detach
  BY <1>4, OpTypes, ShortScripts, StartType, ThreadNames DEF Detach
<1>5. CASE BusyToneEnds
  <2>1. todo' \in [Threads -> Seq(Ops)]
    BY <1>5, OpTypes, ShortScripts, StartType, ThreadNames DEF BusyToneEnds
  <2>2. lost' \subseteq lost
    BY <1>5 DEF BusyToneEnds
  <2>3. player' \in Players \union {NoPlayer}
    <3>1. CASE player = [tone |-> "busy", is |-> "plays"] /\ player' = [player EXCEPT !.is = "stopped"]
      <4>1. player' = [tone |-> "busy", is |-> "stopped"]
        BY <3>1
      <4> QED  BY <4>1 DEF Players
    <3>2. CASE UNCHANGED player
      BY <3>2
    <3> QED  BY <1>5, <3>1, <3>2 DEF BusyToneEnds
  <2> QED  BY <1>5, <2>1, <2>2, <2>3 DEF BusyToneEnds
<1> QED  BY <1>1, <1>2, <1>3, <1>4, <1>5

(* The beginning of a call, and what the peer does, preserve the types.    *)
LEMMA CallStepsType ==
    ASSUME TypeOK, NEW c \in CallIds, CallSteps(c)
    PROVE  TypeOK'
<1> USE DEF TypeOK, MediaTypeOK, Phases, kotlin, baresip, dart, media
<1>1. \A e \in Events : <<UaEvent(c, e)>> \in Seq(Ops)
  BY OpTypes, ShortScripts
<1>2. CASE Call(c)
  <2>1. "outgoing" \in Events
    BY DEF Events
  <2>2. <<UaEvent(c, "outgoing"), OnCall("sendInvite", c)>> \in Seq(Ops)
    BY <2>1, OpTypes, ShortScripts
  <2>3. todo' \in [Threads -> Seq(Ops)]
    BY <1>2, <2>2, StartType, ThreadNames DEF Call
  <2> QED  BY <1>2, <2>3 DEF Call
<1>3. CASE Incoming(c)
  <2>1. "incoming" \in Events
    BY DEF Events
  <2>2. todo' \in [Threads -> Seq(Ops)]
    BY <1>1, <1>3, <2>1, StartType, ThreadNames DEF Incoming, Report
  <2> QED  BY <1>3, <2>2 DEF Incoming
<1>4. CASE Progress(c)
  <2>1. {"ringing", "progress", "early media"} \subseteq Events
    BY DEF Events
  <2>2. todo' \in [Threads -> Seq(Ops)]
    BY <1>1, <1>4, <2>1, StartType, ThreadNames DEF Progress, Report
  <2> QED  BY <1>4, <2>2 DEF Progress
<1>5. CASE Established(c)
  <2>1. "established" \in Events
    BY DEF Events
  <2>2. todo' \in [Threads -> Seq(Ops)]
    BY <1>1, <1>5, <2>1, StartType, ThreadNames DEF Established, Report
  <2> QED  BY <1>5, <2>2 DEF Established
<1>6. CASE PeerUpdate(c)
  <2>1. {"update 0", "update 1", "update 2", "update 3"} \subseteq Events
    BY DEF Events
  <2>2. todo' \in [Threads -> Seq(Ops)]
    BY <1>1, <1>6, <2>1, StartType, ThreadNames DEF PeerUpdate, Report
  <2>3. PICK e : peerHolds' = [peerHolds EXCEPT ![c] = e \in {"update 0", "update 1"}]
    BY <1>6 DEF PeerUpdate
  <2>4. peerHolds' \in [CallIds -> BOOLEAN]
    <3> DEFINE b == e \in {"update 0", "update 1"}
    <3>1. b \in BOOLEAN
      OBVIOUS
    <3>2. peerHolds' = [peerHolds EXCEPT ![c] = b]
      BY <2>3
    <3> HIDE DEF b
    <3> QED  BY <3>1, <3>2
  <2> QED  BY <1>6, <2>2, <2>4 DEF PeerUpdate
<1>7. CASE OtherEvent(c)
  <2>1. "other" \in Events
    BY DEF Events
  <2>2. todo' \in [Threads -> Seq(Ops)]
    BY <1>1, <1>7, <2>1, StartType, ThreadNames DEF OtherEvent, Report
  <2> QED  BY <1>7, <2>2 DEF OtherEvent
<1>8. CASE Close(c)
  <2>1. {"closed", "closed busy"} \subseteq Events
    BY DEF Events
  <2>2. \A e \in {"closed", "closed busy"} :
           <<UaEvent(c, e), OnCall("destroy", c)>> \in Seq(Ops)
    BY <2>1, OpTypes, ShortScripts
  <2>3. todo' \in [Threads -> Seq(Ops)]
    BY <1>8, <2>2, StartType, ThreadNames DEF Close
  <2> QED  BY <1>8, <2>3 DEF Close
<1> QED  BY <1>2, <1>3, <1>4, <1>5, <1>6, <1>7, <1>8 DEF CallSteps

(* What the functions of Media call for: their own accesses to its fields. *)
MediaKinds == {"startRinging", "stopRinging", "stopRingtone", "playRingBack", "playBusy",
               "newPlayer", "startPlayer", "stopMediaPlayer", "release", "noPlayer",
               "setCallVolume", "resetIfCurrent", "resetIfNone"} \union TimerOps

CalledBy(h) ==
    {o \in Ops :
       \/ h.op = "startRinging" /\ o.op \in {"newTimer", "schedule"}
       \/ h.op = "stopRinging" /\ o.op \in {"ifTimer", "stopRingtone"}
       \/ h.op = "ifTimer" /\ o.op \in {"cancel", "noTimer"}
       \/ h.op = "playRingBack" /\ o.op = "newPlayer" /\ o.tone = "ringback"
       \/ h.op = "playBusy" /\ o.op = "newPlayer" /\ o.tone = "busy"
       \/ h.op \in {"playRingBack", "playBusy"} /\ o.op = "startPlayer"
       \/ h.op = "stopMediaPlayer" /\ o.op \in {"release", "noPlayer"}}

LEMMA MediaScript ==
    ASSUME NEW t \in Threads, todo \in [Threads -> Seq(Ops)], MediaStep(t)
    PROVE  /\ todo[t] # <<>>
           /\ Head(todo[t]).op \in MediaKinds
           /\ \E ops \in Seq(Ops) :
                 /\ Continue(t, ops)
                 /\ \A i \in 1 .. Len(ops) :
                       ops[i] \in CalledBy(Head(todo[t])) /\ ops[i].op \in MediaKinds
           /\ UNCHANGED <<kotlin, baresip, dart>>
<1>1. UNCHANGED <<kotlin, baresip, dart>> /\ (MediaSteps(t) \/ Reset(t))
  BY DEF MediaStep
<1>2. todo[t] # <<>>
  BY <1>1 DEF MediaSteps, Reset, At, StartRinging, NewTimer, Schedule, StopRinging, IfTimer,
              Cancel, NoTimer, StopRingtone, PlayRingBack, PlayBusy, NewPlayer, StartPlayer,
              StopMediaPlayer, Release, ForgetPlayer, UsePlayer, SetCallVolume
<1> DEFINE h == Head(todo[t])
<1>3. h \in Ops
  BY <1>2, HeadTailProperties
<1> DEFINE C == CalledBy(h)
<1>4. \A ops \in Seq(C) :
         /\ ops \in Seq(Ops)
         /\ \A i \in 1 .. Len(ops) : ops[i] \in C /\ ops[i].op \in MediaKinds
  <2>1. \A o \in C : o \in Ops /\ o.op \in MediaKinds
    BY DEF CalledBy, MediaKinds, TimerOps
  <2>2. \A ops \in Seq(C) : \A i \in 1 .. Len(ops) : ops[i] \in C
    BY ElementOfSeq
  <2>3. \A ops \in Seq(C) : ops \in Seq(Ops)
    BY <2>1
  <2> QED  BY <2>1, <2>2, <2>3
<1>5. SUFFICES h.op \in MediaKinds /\ \E ops \in Seq(C) : Continue(t, ops)
  BY <1>1, <1>2, <1>4
<1>6. <<>> \in Seq(C) /\ (\A a \in C : <<a>> \in Seq(C)) /\ \A a, b \in C : <<a, b>> \in Seq(C)
  OBVIOUS
<1>7. \A a, b \in Seq(C) : a \o b \in Seq(C)
  BY ConcatProperties
<1>8. CASE NewTimer(t) \/ Schedule(t) \/ Cancel(t) \/ NoTimer(t) \/ StopRingtone(t)
           \/ NewPlayer(t) \/ StartPlayer(t) \/ Release(t) \/ ForgetPlayer(t)
           \/ SetCallVolume(t) \/ Reset(t)
  BY <1>6, <1>8 DEF At, NewTimer, Schedule, Cancel, NoTimer, StopRingtone, NewPlayer, StartPlayer,
                    Release, ForgetPlayer, UsePlayer, SetCallVolume, Reset, MediaKinds, TimerOps
<1>9. CASE StartRinging(t)
  <2>1. h.op = "startRinging" /\ Continue(t, Starting("rt") \o Starting("vb"))
    BY <1>9 DEF StartRinging, At
  <2>2. ASSUME NEW k \in {"rt", "vb"}  PROVE Starting(k) \in Seq(C)
    <3>1. CASE k \in Timers
      <4>1. OfTimer("newTimer", k) \in Ops /\ OfTimer("schedule", k) \in Ops
        BY <3>1, OpTypes DEF TimerOps
      <4>2. OfTimer("newTimer", k) \in C /\ OfTimer("schedule", k) \in C
        BY <2>1, <4>1 DEF CalledBy, OfTimer
      <4> QED  BY <1>6, <3>1, <4>2 DEF Starting, WithTimer
    <3>2. CASE k \notin Timers
      BY <1>6, <3>2 DEF Starting, WithTimer
    <3> QED  BY <3>1, <3>2
  <2> QED  BY <1>7, <2>1, <2>2 DEF MediaKinds
<1>10. CASE StopRinging(t)
  <2>1. h.op = "stopRinging"
        /\ Continue(t, Stopping("rt") \o <<Do("stopRingtone")>> \o Stopping("vb"))
    BY <1>10 DEF StopRinging, At
  <2>2. ASSUME NEW k \in {"rt", "vb"}  PROVE Stopping(k) \in Seq(C)
    <3>1. CASE k \in Timers
      <4>1. OfTimer("ifTimer", k) \in Ops
        BY <3>1, OpTypes DEF TimerOps
      <4>2. OfTimer("ifTimer", k) \in C
        BY <2>1, <4>1 DEF CalledBy, OfTimer
      <4> QED  BY <1>6, <3>1, <4>2 DEF Stopping, WithTimer
    <3>2. CASE k \notin Timers
      BY <1>6, <3>2 DEF Stopping, WithTimer
    <3> QED  BY <3>1, <3>2
  <2>3. Do("stopRingtone") \in Ops
    BY OpTypes
  <2>4. Do("stopRingtone") \in C
    BY <2>1, <2>3 DEF CalledBy, Do
  <2>5. <<Do("stopRingtone")>> \in Seq(C)
    BY <1>6, <2>4
  <2> QED  BY <1>7, <2>1, <2>2, <2>5 DEF MediaKinds
<1>11. CASE IfTimer(t)
  <2>1. h.op = "ifTimer" /\ h.timer \in Timers
    BY <1>3, <1>11, OpFields DEF IfTimer, At, TimerOps
  <2>2. OfTimer("cancel", h.timer) \in Ops /\ OfTimer("noTimer", h.timer) \in Ops
    BY <2>1, OpTypes DEF TimerOps
  <2>3. OfTimer("cancel", h.timer) \in C /\ OfTimer("noTimer", h.timer) \in C
    BY <2>1, <2>2 DEF CalledBy, OfTimer
  <2> QED  BY <1>6, <1>11, <2>1, <2>3 DEF IfTimer, MediaKinds, TimerOps
<1>12. ASSUME NEW tone,
              \/ h.op = "playRingBack" /\ tone = "ringback"
              \/ h.op = "playBusy" /\ tone = "busy",
              PlayTone(t, tone)
       PROVE  h.op \in MediaKinds /\ \E ops \in Seq(C) : Continue(t, ops)
  <2>1. tone \in Tones => [op |-> "newPlayer", tone |-> tone] \in Ops
    BY OpTypes
  <2>2. tone \in Tones => [op |-> "newPlayer", tone |-> tone] \in C
    BY <1>12, <2>1 DEF CalledBy
  <2>3. Do("startPlayer") \in Ops
    BY OpTypes
  <2>4. Do("startPlayer") \in C
    BY <1>12, <2>3 DEF CalledBy, Do
  <2>5. h.op \in MediaKinds
    BY <1>12 DEF MediaKinds
  <2> DEFINE a == [op |-> "newPlayer", tone |-> tone]
             b == Do("startPlayer")
  <2>6. (tone \in Tones /\ Continue(t, <<a, b>>)) \/ Continue(t, <<>>)
    BY <1>12 DEF PlayTone
  <2>7. tone \in Tones => <<a, b>> \in Seq(C)
    BY <1>6, <2>2, <2>4
  <2>8. <<>> \in Seq(C)
    BY <1>6
  <2> HIDE DEF a, b, C, h
  <2> QED  BY <2>5, <2>6, <2>7, <2>8, Zenon
<1>13. CASE PlayRingBack(t) \/ PlayBusy(t)
  BY <1>12, <1>13 DEF PlayRingBack, PlayBusy, At
<1>14. CASE StopMediaPlayer(t)
  <2>1. h.op = "stopMediaPlayer" /\ Continue(t, <<Do("release"), Do("noPlayer")>>)
    BY <1>14 DEF StopMediaPlayer, UsePlayer, At
  <2>2. Do("release") \in Ops /\ Do("noPlayer") \in Ops
    BY OpTypes
  <2>3. Do("release") \in C /\ Do("noPlayer") \in C
    BY <2>1, <2>2 DEF CalledBy, Do
  <2> QED  BY <1>6, <2>1, <2>3 DEF MediaKinds
<1> QED  BY <1>1, <1>8, <1>9, <1>10, <1>11, <1>13, <1>14 DEF MediaSteps

(* A step of Media keeps its types.                                        *)
LEMMA MediaType ==
    ASSUME TypeOK, NEW t \in Threads, MediaStep(t)
    PROVE  MediaTypeOK'
<1>1. todo \in [Threads -> Seq(Ops)] /\ MediaTypeOK
  BY DEF TypeOK
<1>2. todo[t] # <<>>
  BY <1>1, MediaScript
<1> DEFINE h == Head(todo[t])
<1>3. h \in Ops
  BY <1>1, <1>2, HeadTailProperties
<1>4. /\ h.op \in TimerOps => h.timer \in Timers
      /\ h.op = "newPlayer" => h.tone \in {"ringback", "busy"}
  BY <1>3, OpFields, TonesAssumption
<1>5. \A k \in Timers : Loses(k) \subseteq {"rt", "vb", "ringback", "busy"}
  BY <1>1, TimersAssumption DEF MediaTypeOK, Loses
<1>6. Drops \subseteq {"rt", "vb", "ringback", "busy"}
  <2>1. player \in Players => player.tone \in {"ringback", "busy"}
    BY DEF Players
  <2>2. player = NoPlayer => player.is # "plays"
    BY DEF NoPlayer
  <2> QED  BY <1>1, <2>1, <2>2 DEF MediaTypeOK, Drops
<1> HIDE DEF h
<1>7. UNCHANGED media => MediaTypeOK'
  BY <1>1 DEF MediaTypeOK, media
<1>8. CASE StartRinging(t) \/ StopRinging(t) \/ IfTimer(t) \/ StopRingtone(t)
           \/ PlayRingBack(t) \/ PlayBusy(t)
  BY <1>1, <1>7, <1>8 DEF MediaTypeOK, StartRinging, StopRinging, IfTimer, StopRingtone,
                          PlayRingBack, PlayBusy, PlayTone
<1>9. CASE NewTimer(t) \/ Schedule(t) \/ Cancel(t) \/ NoTimer(t)
  <2>1. h.op \in TimerOps
    BY <1>9 DEF At, NewTimer, Schedule, Cancel, NoTimer, TimerOps, h
  <2> DEFINE k == h.timer
  <2>2. k \in Timers
    BY <1>4, <2>1
  <2>3. /\ UNCHANGED <<ringing, player, volume, saved>>
        /\ UNCHANGED timer \/ \E x \in TimerStates : timer' = [timer EXCEPT ![k] = x]
        /\ lost' \in {lost, Loses(k)} /\ thrown' \in {thrown, TRUE}
    BY <1>9 DEF At, NewTimer, Schedule, Cancel, NoTimer, h, TimerStates
  <2> HIDE DEF k
  <2>4. timer' \in [Timers -> TimerStates]
    BY <1>1, <2>2, <2>3 DEF MediaTypeOK
  <2>5. lost' \subseteq {"rt", "vb", "ringback", "busy"}
    BY <1>1, <1>5, <2>2, <2>3 DEF MediaTypeOK
  <2> QED  BY <1>1, <2>3, <2>4, <2>5 DEF MediaTypeOK
<1>10. CASE NewPlayer(t) \/ ForgetPlayer(t)
  <2>1. lost' = Drops /\ UNCHANGED <<ringing, timer, thrown, volume, saved>>
    BY <1>10 DEF NewPlayer, ForgetPlayer
  <2>2. CASE NewPlayer(t)
    <3>1. h.op = "newPlayer" /\ player' = [tone |-> h.tone, is |-> "ready"]
      BY <2>2 DEF NewPlayer, At, h
    <3>2. player' \in Players
      BY <1>4, <3>1 DEF Players
    <3> QED  BY <1>1, <1>6, <2>1, <3>2 DEF MediaTypeOK
  <2>3. CASE ForgetPlayer(t)
    BY <1>1, <1>6, <2>1, <2>3 DEF MediaTypeOK, ForgetPlayer
  <2> QED  BY <1>10, <2>2, <2>3
<1>11. ASSUME NEW op, NEW able,
              NEW next \in {"ready", "plays", "stopped", "released"}, UsePlayer(t, op, able, next)
       PROVE  MediaTypeOK'
  <2>1. player' \in Players \union {NoPlayer}
    BY <1>1, <1>11 DEF UsePlayer, MediaTypeOK, Players
  <2> QED  BY <1>1, <1>11, <2>1 DEF UsePlayer, MediaTypeOK
<1>12. CASE StartPlayer(t) \/ StopMediaPlayer(t) \/ Release(t)
  BY <1>11, <1>12 DEF StartPlayer, StopMediaPlayer, Release
<1>13. CASE SetCallVolume(t)
  BY <1>1, <1>13, RaisesVolumeAssumption DEF MediaTypeOK, SetCallVolume
<1>14. CASE Reset(t)
  BY <1>1, <1>7, <1>14 DEF MediaTypeOK, Reset, ResetCallVolume
<1> QED  BY <1>8, <1>9, <1>10, <1>12, <1>13, <1>14 DEF MediaStep, MediaSteps

(* A step of a thread preserves the types.                                 *)
LEMMA StepType ==
    ASSUME TypeOK, NEW t \in Threads, Step(t)
    PROVE  TypeOK'
<1> USE DEF TypeOK, Phases, kotlin, baresip, dart
<1>1. todo[t] # <<>>
  BY MediaScript
     DEF Step, At, HandleUaEvent, SipCall, TellDart, Delist, CloseCurrent, NoCurrent,
         SendInvite, SetCurrent, WithCurrent, Answer, SendAnswer, Hangup, Destroy,
         Hold, SetUa
<1> DEFINE h == Head(todo[t])
<1>2. h \in Ops
  BY <1>1, HeadTailProperties
<1>3. UNCHANGED media => MediaTypeOK'
  BY DEF MediaTypeOK, media
<1>4. \A ops \in Seq(Ops) : Continue(t, ops) => todo' \in [Threads -> Seq(Ops)]
  BY <1>1, ContinueType
<1>5. h.op \in CallOps => h.call \in CallIds
  BY <1>2, OpFields
<1>6. CASE HandleUaEvent(t)
  <2>1. h.op = "uaEvent" /\ h.call \in CallIds /\ h.event \in Events
    BY <1>2, <1>6, OpFields DEF HandleUaEvent, At, CallOps
  <2>2. <<[op |-> "sipCall", call |-> h.call, event |-> h.event]>> \in Seq(Ops)
    BY <2>1, OpTypes, ShortScripts
  <2> QED  BY <1>3, <1>4, <1>6, <2>2, ShortScripts DEF HandleUaEvent
<1>7. CASE SipCall(t)
  <2>1. h.op = "sipCall" /\ h.call \in CallIds /\ h.event \in Events
    BY <1>2, <1>7, OpFields DEF SipCall, At, CallOps
  <2>2. GetSipCall(h.call) \in SipCalls
    BY <2>1 DEF GetSipCall, SipCalls
  <2>3. Reaction(h.call, h.event) \in Seq(Ops)
    BY <2>1, ReactionType
  <2> QED  BY <1>3, <1>4, <1>7, <2>2, <2>3 DEF SipCall
<1>8. CASE TellDart(t)
  <2>1. /\ h.call \in CallIds
        /\ h.event \in {"Ring", "Up", "Paused", "Resuming", "Hangup"}
    BY <1>2, <1>8, OpFields DEF TellDart, At, CallOps
  <2>2. CASE h.event \in {"Paused", "Resuming"}
    BY <1>3, <1>4, <1>8, <2>1, <2>2, ShortScripts DEF TellDart
  <2>3. CASE h.event \notin {"Paused", "Resuming"}
    <3>1. Append(told[h.call], h.event) \in Seq({"Ring", "Up", "Hangup"})
      BY <2>1, <2>3, AppendProperties
    <3> QED  BY <1>3, <1>4, <1>8, <2>1, <2>3, <3>1, ShortScripts DEF TellDart
  <2> QED  BY <2>2, <2>3
<1>9. CASE Delist(t)
  BY <1>3, <1>4, <1>9, ShortScripts DEF Delist
<1>10. CASE CloseCurrent(t)
  <2>1. /\ Do("stopRinging") \in Ops /\ Do("stopMediaPlayer") \in Ops
        /\ Do("playBusy") \in Ops /\ Do("resetIfCurrent") \in Ops
        /\ Do("noCurrent") \in Ops
    BY OpTypes
  <2> QED  BY <1>3, <1>4, <1>10, <2>1, ShortScripts DEF CloseCurrent
<1>11. CASE NoCurrent(t)
  BY <1>3, <1>4, <1>11, ShortScripts DEF NoCurrent
<1>12. CASE SendInvite(t)
  <2>1. h.call \in CallIds
    BY <1>5, <1>12 DEF SendInvite, At, CallOps
  <2>2. <<OnCall("setCurrent", h.call)>> \in Seq(Ops) /\ <<OnCall("delist", h.call)>> \in Seq(Ops)
    BY <2>1, OpTypes, ShortScripts
  <2> QED  BY <1>3, <1>4, <1>12, <2>1, <2>2 DEF SendInvite
<1>13. CASE SetCurrent(t)
  BY <1>3, <1>4, <1>5, <1>13, ShortScripts DEF SetCurrent, At, CallOps, SipCalls
<1>14. CASE WithCurrent(t)
  <2>1. h.do \in {"answer", "hangup", "pause", "resume"}
    BY <1>2, <1>14, OpFields DEF WithCurrent, At
  <2>2. currentCall # NoCall => <<OnCall(h.do, currentCall.callp)>> \in Seq(Ops)
    BY <2>1, OpTypes, ShortScripts DEF SipCalls
  <2> QED  BY <1>3, <1>4, <1>14, <2>2, ShortScripts DEF WithCurrent
<1>15. CASE Answer(t)
  <2>1. h.call \in CallIds /\ "other" \in Events
    BY <1>5, <1>15 DEF Answer, At, CallOps, Events
  <2>2. <<UaEvent(h.call, "other"), OnCall("sendAnswer", h.call)>> \in Seq(Ops)
    BY <2>1, OpTypes, ShortScripts
  <2> QED  BY <1>3, <1>4, <1>15, <2>2, ShortScripts DEF Answer, Use
<1>16. CASE SendAnswer(t)
  BY <1>3, <1>4, <1>5, <1>16, ShortScripts DEF SendAnswer, Use, At, CallOps
<1>17. CASE Hangup(t)
  <2>1. h.call \in CallIds /\ "closed" \in Events
    BY <1>5, <1>17 DEF Hangup, At, CallOps, Events
  <2>2. <<UaEvent(h.call, "closed"), OnCall("destroy", h.call)>> \in Seq(Ops)
    BY <2>1, OpTypes, ShortScripts
  <2> QED  BY <1>3, <1>4, <1>17, <2>1, <2>2 DEF Hangup, Use
<1>18. CASE Destroy(t)
  BY <1>3, <1>4, <1>5, <1>18, ShortScripts DEF Destroy, Use, At, CallOps
<1>19. CASE Hold(t)
  BY <1>3, <1>4, <1>5, <1>19, ShortScripts DEF Hold, Use, Live, At, CallOps
<1>20. CASE SetUa(t)
  BY <1>3, <1>4, <1>20, ShortScripts DEF SetUa
<1>21. CASE MediaStep(t)
  <2>1. MediaTypeOK'
    BY <1>21, MediaType
  <2>2. PICK ops \in Seq(Ops) : Continue(t, ops)
    BY <1>21, MediaScript
  <2> QED  BY <1>4, <1>21, <2>1, <2>2 DEF MediaStep
<1> QED  BY <1>6, <1>7, <1>8, <1>9, <1>10, <1>11, <1>12, <1>13, <1>14, <1>15,
            <1>16, <1>17, <1>18, <1>19, <1>20, <1>21 DEF Step

(* Every step preserves the types.                                         *)
LEMMA NextType ==
    ASSUME TypeOK, [Next]_vars
    PROVE  TypeOK'
<1>1. CASE Next
  BY <1>1, MethodType, CallStepsType, StepType DEF Next
<1>2. CASE UNCHANGED vars
  BY <1>2 DEF TypeOK, MediaTypeOK, vars, kotlin, baresip, dart, media
<1> QED  BY <1>1, <1>2

(* The model starts with its types.                                        *)
LEMMA InitType ==
    ASSUME Init
    PROVE  TypeOK
<1>1. MediaTypeOK
  BY DEF Init, MediaInit, MediaTypeOK, TimerStates
<1>2. told \in [CallIds -> Seq({"Ring", "Up", "Hangup"})]
  <2>1. <<>> \in Seq({"Ring", "Up", "Hangup"})
    OBVIOUS
  <2> QED  BY <2>1 DEF Init
<1>3. todo \in [Threads -> Seq(Ops)]
  BY ShortScripts DEF Init
<1>4. phase \in [CallIds -> Phases]
  BY DEF Init, Phases
<1>5. held \in [CallIds -> BOOLEAN] /\ peerHolds \in [CallIds -> BOOLEAN]
  BY DEF Init
<1>6. holdTold \in [CallIds -> {"none", "Paused", "Resuming"}]
  BY DEF Init
<1> QED  BY <1>1, <1>2, <1>3, <1>4, <1>5, <1>6 DEF Init, TypeOK

(* The model keeps its types: the current call is a call or none, every    *)
(* event told of a call is one of those that Dart knows, every script      *)
(* consists of calls that the code makes.                                  *)
THEOREM TypeCorrect == Spec => []TypeOK
BY InitType, NextType, PTL DEF Spec

-----------------------------------------------------------------------------
(* Methods, and what becomes of the scripts.                               *)

\* The platform thread enters a handler that no peer has a part in.
MethodCalled ==
    \/ \E m \in {"answer", "hangup", "pause", "resume"} : CallMethod(m)
    \/ UnregisterSipAccount \/ InitSipModule \/ Detach \/ BusyToneEnds

NeverMethods == {"closeCurrent", "noCurrent", "startRinging", "newTimer", "schedule",
                 "playRingBack", "playBusy", "newPlayer", "startPlayer"}

(* What such a handler is to do, and what entering it leaves alone.        *)
MethodScript(ops) ==
    /\ Start("main", ops)
    /\ UNCHANGED <<ua, calls, currentCall, phase, peerHolds, told, holdTold, late, ringing, timer>>
    /\ player' \in {player, [player EXCEPT !.is = "stopped"]}
    /\ isRunning' => isRunning
    /\ \A i \in 1 .. Len(ops) :
          /\ ops[i].op \notin CallOps \union NeverMethods
          /\ ops[i].op = "noUa" => {"unregister", "init"} \cap Methods # {}
          /\ ops[i].op = "setUa" => "init" \in Methods
          /\ ops[i].op = "withCurrent" => ops[i].do \in Methods /\ i = Len(ops)

LEMMA MethodScripts ==
    ASSUME MethodCalled
    PROVE  \E ops \in Seq(Ops) : MethodScript(ops)
<1>1. \A k \in {"stopRinging", "stopMediaPlayer", "setCallVolume", "resetIfNone"} :
         /\ Do(k) \in Ops
         /\ Do(k).op \notin CallOps \union NeverMethods \union {"noUa", "setUa", "withCurrent"}
  BY OpTypes DEF Do, CallOps, NeverMethods
<1>2. \A k \in {"noUa", "setUa"} :
         /\ Do(k) \in Ops /\ Do(k).op = k
         /\ Do(k).op \notin CallOps \union NeverMethods \union {"withCurrent"}
  BY OpTypes DEF Do, CallOps, NeverMethods
<1>3. CASE \E m \in {"answer", "hangup", "pause", "resume"} : CallMethod(m)
  <2>1. PICK m \in {"answer", "hangup", "pause", "resume"} : CallMethod(m)
    BY <1>3
  <2>2. \A d \in {"answer", "hangup", "pause", "resume"} :
           LET o == [op |-> "withCurrent", do |-> d] IN
           /\ o.op \notin CallOps \union NeverMethods \union {"noUa", "setUa"}
           /\ o.do = d
    BY DEF CallOps, NeverMethods
  <2>3. \A i \in 1 .. Len(Body(m)) :
           /\ Body(m)[i].op \notin CallOps \union NeverMethods \union {"noUa", "setUa"}
           /\ Body(m)[i].op = "withCurrent" => Body(m)[i].do = m /\ i = Len(Body(m))
    BY <1>1, <2>2 DEF Body
  <2> QED  BY <2>1, <2>3, BodyType DEF CallMethod, MethodScript, kotlin, baresip, dart, media
<1>4. CASE UnregisterSipAccount
  <2> DEFINE s == <<Do("noUa")>>
  <2>1. s \in Seq(Ops) /\ \A i \in 1 .. Len(s) : s[i] = Do("noUa")
    BY <1>2, ShortScripts
  <2>2. /\ Start("main", s) /\ "unregister" \in Methods
        /\ UNCHANGED <<ua, isRunning, calls, currentCall, phase, peerHolds, told, holdTold, late, media>>
    BY <1>4 DEF UnregisterSipAccount, kotlin, baresip, dart
  <2> HIDE DEF s
  <2> QED  BY <1>2, <2>1, <2>2 DEF MethodScript, media
<1>5. CASE InitSipModule
  <2> DEFINE s == IF ua THEN <<Do("noUa"), Do("setUa")>> ELSE <<Do("setUa")>>
  <2>1. s \in Seq(Ops) /\ \A i \in 1 .. Len(s) : s[i] \in {Do("noUa"), Do("setUa")}
    BY <1>2, ShortScripts
  <2>2. /\ Start("main", s) /\ "init" \in Methods
        /\ UNCHANGED <<ua, isRunning, calls, currentCall, phase, peerHolds, told, holdTold, late, media>>
    BY <1>5 DEF InitSipModule, kotlin, baresip, dart
  <2> HIDE DEF s
  <2> QED  BY <1>2, <2>1, <2>2 DEF MethodScript, media
<1>6. CASE Detach
  <2> DEFINE s == <<Do("stopRinging"), Do("stopMediaPlayer")>>
  <2>1. s \in Seq(Ops)
        /\ \A i \in 1 .. Len(s) : s[i] \in {Do("stopRinging"), Do("stopMediaPlayer")}
    BY <1>1, ShortScripts
  <2>2. /\ Start("main", s) /\ isRunning
        /\ UNCHANGED <<ua, calls, currentCall, phase, peerHolds, told, holdTold, late, media>>
    BY <1>6 DEF Detach, baresip, dart
  <2> HIDE DEF s
  <2> QED  BY <1>1, <2>1, <2>2 DEF MethodScript, media
<1>7. CASE BusyToneEnds
  <2> DEFINE s == <<Do("stopMediaPlayer"), Do("resetIfNone")>>
  <2>1. s \in Seq(Ops)
        /\ \A i \in 1 .. Len(s) : s[i] \in {Do("stopMediaPlayer"), Do("resetIfNone")}
    BY <1>1, ShortScripts
  <2>2. /\ Start("main", s)
        /\ UNCHANGED <<ua, isRunning, calls, currentCall, phase, peerHolds, told, holdTold, late, ringing,
                       timer>>
        /\ player' \in {player, [player EXCEPT !.is = "stopped"]}
    BY <1>7 DEF BusyToneEnds, kotlin, baresip, dart
  <2> HIDE DEF s
  <2> QED  BY <1>1, <2>1, <2>2 DEF MethodScript
<1> QED  BY <1>3, <1>4, <1>5, <1>6, <1>7 DEF MethodCalled

(* What the scripts contain after a thread has done its first operation,   *)
(* and when it enters a handler.                                           *)
LEMMA ScriptsAfterStep ==
    ASSUME NEW t \in Threads, todo \in [Threads -> Seq(Ops)], todo[t] # <<>>,
           NEW ops \in Seq(Ops), Continue(t, ops)
    PROVE  /\ Head(todo[t]) \in Ops
           /\ \A S : /\ Has(todo'[t], S) <=> Has(ops, S) \/ Has(Tail(todo[t]), S)
                     /\ Has(todo[t], S) <=> Head(todo[t]) \in S \/ Has(Tail(todo[t]), S)
           /\ \A r \in Threads \ {t} : todo'[r] = todo[r]
<1>1. todo[t] \in Seq(Ops) /\ todo'[t] = ops \o Tail(todo[t])
      /\ \A r \in Threads \ {t} : todo'[r] = todo[r]
  BY DEF Continue
<1> QED  BY <1>1, HasContinue

LEMMA ScriptsAfterStart ==
    ASSUME NEW t \in Threads, todo \in [Threads -> Seq(Ops)], NEW ops, Start(t, ops)
    PROVE  /\ todo[t] = <<>> /\ todo'[t] = ops
           /\ \A S : ~ Has(todo[t], S)
           /\ \A r \in Threads \ {t} : todo'[r] = todo[r]
BY HasSmall DEF Start, Idle

-----------------------------------------------------------------------------
(* No call is told to be established before it was told to ring.           *)

\* The operations that concern the call c.
About(c) == {o \in Ops : o.op \in CallOps /\ o.call = c}

\* The handling of an event, up to the reaction.
Handling(c, event) ==
    {o \in Ops : o.op \in {"uaEvent", "sipCall"} /\ o.call = c /\ o.event = event}

\* Operations on the way to tell that a call is established.
Rising(c) == Handling(c, "established") \union {Tell(c, "Up")}

\* Operations that only the platform thread, only the baresip thread performs.
OnMain == {o \in Ops : o.op \in {"noUa", "setUa", "sendInvite"}}
OnRe == UNION {Handling(c, "incoming") : c \in CallIds}

\* The call was told to ring, or the baresip thread is about to tell it.
RingTold(c) == WasTold(c, "Ring") \/ Has(todo["re"], {Tell(c, "Ring")})

(* While the INVITE of a call is still to be sent, its Ring is on the way. *)
Invite(c) == OnCall("sendInvite", c)
Inviting(c) ==
    LET s == todo["main"] IN
    \/ s = <<UaEvent(c, "outgoing"), Invite(c)>> /\ ua /\ isRunning
    \/ s = <<[op |-> "sipCall", call |-> c, event |-> "outgoing"], Invite(c)>>
    \/ s = <<Tell(c, "Ring"), Invite(c)>>
    \/ s = <<Invite(c)>> /\ WasTold(c, "Ring")

(* Why Up comes after Ring.  A call that could be established was told to  *)
(* ring: ours before its INVITE was sent, the peer's before it could be    *)
(* answered, because it is the event that told it to ring which made it    *)
(* the current call.                                                       *)
RingFirst(c) ==
    /\ phase[c] \in {"outgoing", "answered", "up"} => RingTold(c)
    /\ phase[c] = "incoming" /\ currentCall # NoCall /\ currentCall.callp = c
          => RingTold(c)
    /\ \A t \in Threads :
          /\ phase[c] = "incoming" /\ Has(todo[t], About(c) \ Handling(c, "incoming"))
                => RingTold(c)
          /\ phase[c] = "none" => ~ Has(todo[t], About(c))
          /\ Has(todo[t], Rising(c)) => WasTold(c, "Ring")
    /\ phase[c] = "none" /\ currentCall # NoCall => currentCall.callp # c
    /\ Has(todo["main"], {Invite(c)}) => Inviting(c)

RingInv ==
    /\ TypeOK
    /\ UpAfterRing
    /\ ~ Has(todo["main"], OnRe)
    /\ ~ Has(todo["re"], OnMain)
    /\ \A c \in CallIds : RingFirst(c)

(* An operation that concerns no call but those of D, tells of none that   *)
(* it is established, reports no new call and is for either thread.        *)
Mild(o, D) ==
    /\ o.op \in CallOps => o.call \in D
    /\ o.op \notin {"noUa", "setUa", "sendInvite"}
    /\ o.op \in {"uaEvent", "sipCall"} => o.event \notin {"incoming", "established"}
    /\ o.op = "tell" => o.event # "Up"

(* What a script of mild operations contains.                              *)
LEMMA MildScripts ==
    ASSUME NEW D, NEW s \in Seq(Ops), \A i \in 1 .. Len(s) : Mild(s[i], D)
    PROVE  /\ ~ Has(s, OnMain) /\ ~ Has(s, OnRe)
           /\ \A c \in CallIds : /\ Has(s, About(c)) => c \in D
                                 /\ ~ Has(s, Rising(c))
<1>1. \A o \in Ops : Mild(o, D) => o \notin OnMain
  BY DEF Mild, OnMain
<1>2. \A o \in Ops : Mild(o, D) => o \notin OnRe
  BY DEF Mild, OnRe, Handling
<1>3. \A c \in CallIds : \A o \in Ops : Mild(o, D) /\ o \in About(c) => c \in D
  BY DEF Mild, About
<1>4. \A c \in CallIds : \A o \in Ops : Mild(o, D) => o \notin Rising(c)
  <2> TAKE c \in CallIds
  <2>1. Tell(c, "Up").op = "tell" /\ Tell(c, "Up").event = "Up"
    BY DEF Tell
  <2> QED  BY <2>1 DEF Mild, Rising, Handling
<1>5. \A i \in 1 .. Len(s) : s[i] \in Ops
  BY ElementOfSeq
<1> QED  BY <1>1, <1>2, <1>3, <1>4, <1>5 DEF Has

(* Scripts of a few mild operations.                                       *)
LEMMA MildShort ==
    ASSUME NEW D
    PROVE  /\ \A i \in 1 .. Len(<<>>) : Mild(<<>>[i], D)
           /\ \A a : Mild(a, D) => \A i \in 1 .. Len(<<a>>) : Mild(<<a>>[i], D)
           /\ \A a, b : Mild(a, D) /\ Mild(b, D) =>
                 \A i \in 1 .. Len(<<a, b>>) : Mild(<<a, b>>[i], D)
           /\ \A a, b, c : Mild(a, D) /\ Mild(b, D) /\ Mild(c, D) =>
                 \A i \in 1 .. Len(<<a, b, c>>) : Mild(<<a, b, c>>[i], D)
           /\ \A a, b, c, d : Mild(a, D) /\ Mild(b, D) /\ Mild(c, D) /\ Mild(d, D) =>
                 \A i \in 1 .. Len(<<a, b, c, d>>) : Mild(<<a, b, c, d>>[i], D)
OBVIOUS

(* The kinds of operation that the invariant tells apart.                  *)
LEMMA Kinds ==
    ASSUME NEW c \in CallIds
    PROVE  /\ \A e : Handling(c, e) \subseteq About(c)
           /\ Rising(c) \subseteq About(c)
           /\ Tell(c, "Ring") \in About(c)
           /\ Invite(c) \in About(c) /\ Invite(c) \in OnMain
           /\ \A e : Handling(c, e) \subseteq Ops
<1>1. Tell(c, "Ring") \in Ops /\ Tell(c, "Up") \in Ops /\ Invite(c) \in Ops
  BY OpTypes DEF Invite
<1>2. Tell(c, "Ring") \in About(c) /\ Tell(c, "Up") \in About(c)
  BY <1>1 DEF About, Tell, CallOps
<1>3. Invite(c) \in About(c) /\ Invite(c) \in OnMain
  BY <1>1 DEF About, Invite, OnCall, OnMain, CallOps
<1>4. \A e : Handling(c, e) \subseteq About(c) /\ Handling(c, e) \subseteq Ops
  BY DEF Handling, About, CallOps
<1> QED  BY <1>2, <1>3, <1>4 DEF Rising

(* A script that contains an operation of S contains one of each superset. *)
LEMMA HasMore ==
    ASSUME NEW s, NEW S, NEW T, S \subseteq T, Has(s, S)
    PROVE  Has(s, T)
BY DEF Has

(* The head and the rest of the script that is to send an INVITE.          *)
LEMMA InvitingHead ==
    ASSUME NEW c \in CallIds, Inviting(c), NEW h, NEW rest,
           h = Head(todo["main"]), rest = Tail(todo["main"])
    PROVE  \/ /\ rest = <<Invite(c)>>
              /\ \/ /\ h.op = "uaEvent" /\ h.event = "outgoing" /\ h.call = c
                    /\ ua /\ isRunning
                 \/ h.op = "sipCall" /\ h.event = "outgoing" /\ h.call = c
                 \/ h.op = "tell" /\ h = Tell(c, "Ring")
           \/ rest = <<>> /\ h.op = "sendInvite" /\ h.call = c /\ WasTold(c, "Ring")
<1>1. \A a, b : Head(<<a, b>>) = a /\ Tail(<<a, b>>) = <<b>>
  OBVIOUS
<1>2. \A a : Head(<<a>>) = a /\ Tail(<<a>>) = <<>>
  OBVIOUS
<1>3. CASE todo["main"] = <<UaEvent(c, "outgoing"), Invite(c)>> /\ ua /\ isRunning
  <2>1. h = UaEvent(c, "outgoing") /\ rest = <<Invite(c)>>
    BY <1>1, <1>3
  <2> QED  BY <1>3, <2>1 DEF UaEvent
<1>4. CASE todo["main"] = <<[op |-> "sipCall", call |-> c, event |-> "outgoing"], Invite(c)>>
  <2>1. h = [op |-> "sipCall", call |-> c, event |-> "outgoing"] /\ rest = <<Invite(c)>>
    BY <1>1, <1>4
  <2>2. h.op = "sipCall" /\ h.event = "outgoing" /\ h.call = c
    BY <2>1
  <2> QED  BY <2>1, <2>2
<1>5. CASE todo["main"] = <<Tell(c, "Ring"), Invite(c)>>
  <2>1. h = Tell(c, "Ring") /\ rest = <<Invite(c)>>
    BY <1>1, <1>5
  <2>2. h.op = "tell"
    BY <2>1 DEF Tell
  <2> QED  BY <2>1, <2>2
<1>6. CASE todo["main"] = <<Invite(c)>> /\ WasTold(c, "Ring")
  <2>1. h = Invite(c) /\ rest = <<>>
    BY <1>2, <1>6
  <2> QED  BY <1>6, <2>1 DEF Invite, OnCall
<1> QED  BY <1>3, <1>4, <1>5, <1>6 DEF Inviting

(* A Ring on its way is not lost by a step that does something else.       *)
LEMMA RingNotLost ==
    ASSUME NEW t \in Threads, todo \in [Threads -> Seq(Ops)], todo[t] # <<>>,
           NEW ops \in Seq(Ops), Continue(t, ops), UNCHANGED told,
           Head(todo[t]).op # "tell", NEW c \in CallIds, RingTold(c)
    PROVE  RingTold(c)'
<1>1. Head(todo[t]) \notin {Tell(c, "Ring")}
  BY DEF Tell
<1>2. CASE WasTold(c, "Ring")
  BY <1>2 DEF WasTold, RingTold
<1>3. CASE Has(todo["re"], {Tell(c, "Ring")})
  <2>1. CASE t = "re"
    <3>1. Has(Tail(todo["re"]), {Tell(c, "Ring")})
      BY <1>1, <1>3, <2>1, HasContinue
    <3>2. Has(ops \o Tail(todo["re"]), {Tell(c, "Ring")})
      BY <2>1, <3>1, HasContinue
    <3>3. todo'["re"] = ops \o Tail(todo["re"])
      BY <2>1 DEF Continue
    <3> QED  BY <3>2, <3>3 DEF RingTold
  <2>2. CASE t # "re"
    <3>1. todo'["re"] = todo["re"]
      BY <2>2, ThreadNames DEF Continue
    <3> QED  BY <1>3, <3>1 DEF RingTold
  <2> QED  BY <2>1, <2>2
<1> QED  BY <1>2, <1>3 DEF RingTold

(* Two scripts of one operation make one of two.                           *)
LEMMA ConcatOne == \A a, b : <<a>> \o <<b>> = <<a, b>>
<1> TAKE a, b
<1> DEFINE s == <<a>>
           r == <<b>>
           u == <<a, b>>
<1>1. s \in Seq({a, b}) /\ Len(s) = 1 /\ s[1] = a
  OBVIOUS
<1>2. r \in Seq({a, b}) /\ Len(r) = 1 /\ r[1] = b
  OBVIOUS
<1>3. u \in Seq({a, b}) /\ Len(u) = 2 /\ u[1] = a /\ u[2] = b
  OBVIOUS
<1> HIDE DEF s, r, u
<1>4. /\ s \o r \in Seq({a, b}) /\ Len(s \o r) = 2
      /\ (s \o r)[1] = a /\ (s \o r)[2] = b
  <2>1. /\ s \o r \in Seq({a, b}) /\ Len(s \o r) = Len(s) + Len(r)
        /\ \A i \in 1 .. Len(s) + Len(r) :
              (s \o r)[i] = IF i <= Len(s) THEN s[i] ELSE r[i - Len(s)]
    BY <1>1, <1>2, ConcatProperties
  <2>2. 1 \in 1 .. Len(s) + Len(r) /\ 2 \in 1 .. Len(s) + Len(r) /\ 2 - Len(s) = 1
    BY <1>1, <1>2
  <2> QED  BY <1>1, <1>2, <2>1, <2>2
<1>5. \A i \in 1 .. Len(u) : (s \o r)[i] = u[i]
  BY <1>3, <1>4
<1>6. s \o r = u
  BY <1>3, <1>4, <1>5, SeqEqual
<1> QED  BY <1>6 DEF s, r, u

(* An operation after another makes a script of two.                       *)
LEMMA AppendOne == \A a, b : Append(<<a>>, b) = <<a, b>>
<1> TAKE a, b
<1>1. <<a>> \in Seq({a, b}) /\ b \in {a, b}
  OBVIOUS
<1>2. Append(<<a>>, b) = <<a>> \o <<b>>
  BY ONLY <1>1, AppendIsConcat, Zenon
<1> QED  BY <1>2, ConcatOne, Zenon

(* A step of a thread that calls for ops preserves the invariant.          *)
LEMMA StepKeepsRing ==
    ASSUME RingInv, TypeOK', NEW t \in Threads, todo[t] # <<>>,
           NEW ops \in Seq(Ops), Continue(t, ops), NEW h, h = Head(todo[t]),
           \A c \in CallIds : Has(ops, About(c)) => phase[c] # "none",
           \A c \in CallIds :
              phase[c] = "incoming" /\ Has(ops, About(c) \ Handling(c, "incoming"))
                 => RingTold(c)',
           \A c \in CallIds :
              currentCall' # NoCall /\ currentCall'.callp = c =>
                 \/ currentCall # NoCall /\ currentCall.callp = c
                 \/ /\ phase[c] # "none"
                    /\ phase[c] = "incoming" => RingTold(c)',
           ~ Has(ops, OnMain), t = "main" => ~ Has(ops, OnRe),
           \A c \in CallIds : Has(ops, Rising(c)) => WasTold(c, "Ring")',
           \A c \in CallIds :
              \/ phase'[c] = phase[c]
              \/ /\ phase'[c] \notin {"none", "incoming"}
                 /\ phase'[c] \in {"outgoing", "answered", "up"} => RingTold(c),
           UpAfterRing',
           \A c \in CallIds : /\ WasTold(c, "Ring") => WasTold(c, "Ring")'
                              /\ h = Tell(c, "Ring") => WasTold(c, "Ring")',
           t = "main" /\ h.op \in {"uaEvent", "sipCall", "tell", "sendInvite"} =>
              \A c \in CallIds : Has(Tail(todo[t]), {Invite(c)}) => Inviting(c)',
           t = "re" => UNCHANGED <<ua, isRunning>>
    PROVE  RingInv'
<1> DEFINE rest == Tail(todo[t])
<1>1. todo \in [Threads -> Seq(Ops)]
  BY DEF RingInv, TypeOK
<1>2. /\ ops \o rest \in Seq(Ops) /\ rest \in Seq(Ops)
      /\ \A S : /\ Has(ops \o rest, S) <=> Has(ops, S) \/ Has(rest, S)
                /\ Has(todo[t], S) <=> h \in S \/ Has(rest, S)
  BY <1>1, HasContinue
<1>3. todo'[t] = ops \o rest /\ \A r \in Threads \ {t} : todo'[r] = todo[r]
  BY <1>1 DEF Continue
<1> HIDE DEF rest
<1>4. \A r \in Threads : \A S :
         Has(todo'[r], S) => Has(todo[r], S) \/ (r = t /\ Has(ops, S))
  BY <1>2, <1>3
<1>5. ~ Has(todo["main"], OnRe)' /\ ~ Has(todo["re"], OnMain)'
  <2>1. OnMain' = OnMain /\ OnRe' = OnRe
    BY DEF OnMain, OnRe, Handling
  <2> QED  BY <1>4, <2>1, ThreadNames DEF RingInv
<1>6. ASSUME NEW c \in CallIds  PROVE RingFirst(c)'
  <2>1. RingFirst(c)
    BY DEF RingInv
  <2>2. RingTold(c) => RingTold(c)'
    <3>1. CASE WasTold(c, "Ring")
      BY <3>1 DEF RingTold
    <3>2. CASE Has(todo["re"], {Tell(c, "Ring")})
      <4>1. CASE t = "re"
        <5>1. h = Tell(c, "Ring") \/ Has(rest, {Tell(c, "Ring")})
          BY <1>2, <3>2, <4>1
        <5> QED  BY <1>2, <1>3, <4>1, <5>1 DEF RingTold
      <4>2. CASE t # "re"
        BY <1>3, <3>2, <4>2, ThreadNames DEF RingTold
      <4> QED  BY <4>1, <4>2
    <3> QED  BY <3>1, <3>2 DEF RingTold
  <2>3. /\ About(c)' = About(c) /\ Handling(c, "incoming")' = Handling(c, "incoming")
        /\ Rising(c)' = Rising(c)
    BY DEF About, Handling, Rising
  <2>4. phase'[c] = "none" => phase[c] = "none"
    OBVIOUS
  <2>5. phase'[c] = "incoming" => phase[c] = "incoming"
    OBVIOUS
  <2>6. phase'[c] \in {"outgoing", "answered", "up"} => RingTold(c)'
    BY <2>1, <2>2 DEF RingFirst
  <2>7. phase'[c] = "incoming" /\ currentCall' # NoCall /\ currentCall'.callp = c
           => RingTold(c)'
    BY <2>1, <2>2, <2>5 DEF RingFirst
  <2>8. ASSUME NEW r \in Threads
        PROVE  /\ phase'[c] = "incoming"
                     /\ Has(todo'[r], About(c) \ Handling(c, "incoming"))
                  => RingTold(c)'
               /\ phase'[c] = "none" => ~ Has(todo'[r], About(c))
               /\ Has(todo'[r], Rising(c)) => WasTold(c, "Ring")'
    <3>1. /\ phase[c] = "incoming" /\ Has(todo[r], About(c) \ Handling(c, "incoming"))
                => RingTold(c)
          /\ phase[c] = "none" => ~ Has(todo[r], About(c))
          /\ Has(todo[r], Rising(c)) => WasTold(c, "Ring")
      BY <2>1 DEF RingFirst
    <3> QED  BY <1>4, <2>2, <2>4, <2>5, <3>1
  <2>9. phase'[c] = "none" /\ currentCall' # NoCall => currentCall'.callp # c
    BY <2>1, <2>4 DEF RingFirst
  <2>10. ASSUME Has(todo'["main"], {Invite(c)})  PROVE Inviting(c)'
    <3>1. ~ Has(ops, {Invite(c)})
      BY HasMore, Kinds
    <3>2. Has(todo["main"], {Invite(c)})
      BY <1>4, <2>10, <3>1, ThreadNames
    <3>3. Inviting(c)
      BY <2>1, <3>2 DEF RingFirst
    <3>4. CASE t = "main"
      <4>1. Has(rest, {Invite(c)})
        BY <1>2, <1>3, <2>10, <3>1, <3>4
      <4>2. h.op \in {"uaEvent", "sipCall", "tell", "sendInvite"}
        BY <3>3, <3>4, InvitingHead
      <4> QED  BY <3>4, <4>1, <4>2 DEF rest
    <3>5. CASE t = "re"
      <4>1. todo'["main"] = todo["main"] /\ ua' = ua /\ isRunning' = isRunning
        BY <1>3, <3>5, ThreadNames
      <4> QED  BY <3>3, <4>1 DEF Inviting
    <3> QED  BY <3>4, <3>5 DEF Threads
  <2> QED  BY <2>3, <2>6, <2>7, <2>8, <2>9, <2>10 DEF RingFirst, Invite
<1> QED  BY <1>5, <1>6 DEF RingInv

(* Entering a handler that is to do ops preserves the invariant.           *)
LEMMA StartKeepsRing ==
    ASSUME RingInv, TypeOK', NEW t \in Threads,
           NEW ops \in Seq(Ops), Start(t, ops),
           UNCHANGED <<told, currentCall>>,
           \A c \in CallIds :
              /\ Has(ops, About(c)) => phase'[c] # "none"
              /\ Has(ops, About(c) \ Handling(c, "incoming")) => phase'[c] # "incoming"
              /\ Has(ops, Rising(c)) => WasTold(c, "Ring"),
           t = "main" => ~ Has(ops, OnRe), t = "re" => ~ Has(ops, OnMain),
           \A c \in CallIds :
              \/ phase'[c] = phase[c]
              \/ phase'[c] = "incoming" /\ phase[c] = "none"
              \/ /\ phase'[c] \notin {"none", "incoming"}
                 /\ phase'[c] \in {"outgoing", "answered", "up"} => RingTold(c),
           t = "main" => \A c \in CallIds : Has(ops, {Invite(c)}) => Inviting(c)',
           t = "re" => UNCHANGED <<ua, isRunning>>
    PROVE  RingInv'
<1>1. todo[t] = <<>> /\ todo'[t] = ops /\ \A r \in Threads \ {t} : todo'[r] = todo[r]
  BY DEF Start, Idle, RingInv, TypeOK
<1>2. \A r \in Threads : \A S :
         Has(todo'[r], S) <=> Has(todo[r], S) \/ (r = t /\ Has(ops, S))
  BY <1>1, HasSmall
<1>3. ~ Has(todo["main"], OnRe)' /\ ~ Has(todo["re"], OnMain)'
  <2>1. OnMain' = OnMain /\ OnRe' = OnRe
    BY DEF OnMain, OnRe, Handling
  <2> QED  BY <1>2, <2>1, ThreadNames DEF RingInv
<1>4. UpAfterRing' /\ \A c \in CallIds : WasTold(c, "Ring")' = WasTold(c, "Ring")
  BY DEF RingInv, UpAfterRing, WasTold
<1>5. ASSUME NEW c \in CallIds  PROVE RingFirst(c)'
  <2>1. RingFirst(c)
    BY DEF RingInv
  <2>2. /\ About(c)' = About(c) /\ Handling(c, "incoming")' = Handling(c, "incoming")
        /\ Rising(c)' = Rising(c)
    BY DEF About, Handling, Rising
  <2>3. RingTold(c) => RingTold(c)'
    BY <1>2, <1>4, ThreadNames DEF RingTold
  <2>4. phase'[c] = "none" => phase[c] = "none"
    OBVIOUS
  <2>5. phase'[c] = "incoming" => phase[c] \in {"none", "incoming"}
    OBVIOUS
  <2>6. phase'[c] \in {"outgoing", "answered", "up"} => RingTold(c)'
    BY <2>1, <2>3 DEF RingFirst
  <2>7. phase'[c] = "incoming" /\ currentCall' # NoCall /\ currentCall'.callp = c
           => RingTold(c)'
    BY <2>1, <2>3, <2>5 DEF RingFirst
  <2>8. ASSUME NEW r \in Threads
        PROVE  /\ phase'[c] = "incoming"
                     /\ Has(todo'[r], About(c) \ Handling(c, "incoming"))
                  => RingTold(c)'
               /\ phase'[c] = "none" => ~ Has(todo'[r], About(c))
               /\ Has(todo'[r], Rising(c)) => WasTold(c, "Ring")'
    <3>1. /\ phase[c] = "incoming" /\ Has(todo[r], About(c) \ Handling(c, "incoming"))
                => RingTold(c)
          /\ phase[c] = "none" => ~ Has(todo[r], About(c))
          /\ Has(todo[r], Rising(c)) => WasTold(c, "Ring")
      BY <2>1 DEF RingFirst
    <3>2. Has(todo[r], About(c) \ Handling(c, "incoming")) => Has(todo[r], About(c))
      BY HasMore
    <3>3. /\ Has(ops, About(c)) => phase'[c] # "none"
          /\ Has(ops, About(c) \ Handling(c, "incoming")) => phase'[c] # "incoming"
          /\ Has(ops, Rising(c)) => WasTold(c, "Ring")
      OBVIOUS
    <3> QED  BY <1>2, <1>4, <2>3, <2>4, <2>5, <3>1, <3>2, <3>3
  <2>9. phase'[c] = "none" /\ currentCall' # NoCall => currentCall'.callp # c
    BY <2>1, <2>4 DEF RingFirst
  <2>10. ASSUME Has(todo'["main"], {Invite(c)})  PROVE Inviting(c)'
    <3>1. CASE t = "main"
      <4>1. Has(ops, {Invite(c)})
        BY <1>1, <2>10, <3>1
      <4> QED  BY <3>1, <4>1
    <3>2. CASE t = "re"
      <4>1. todo'["main"] = todo["main"] /\ ua' = ua /\ isRunning' = isRunning
        BY <1>1, <3>2, ThreadNames
      <4>2. Inviting(c)
        BY <2>1, <2>10, <4>1 DEF RingFirst
      <4> QED  BY <1>4, <4>1, <4>2 DEF Inviting
    <3> QED  BY <3>1, <3>2 DEF Threads
  <2> QED  BY <2>2, <2>6, <2>7, <2>8, <2>9, <2>10 DEF RingFirst, Invite
<1> QED  BY <1>3, <1>4, <1>5 DEF RingInv

(* A call that the head of a script, the incoming event apart, or the      *)
(* current call is about has begun, and if it is incoming, it was told to  *)
(* ring.                                                                   *)
Reached(t) ==
    {c \in CallIds : \/ todo[t] # <<>> /\ Head(todo[t]) \in About(c) \ Handling(c, "incoming")
                     \/ currentCall # NoCall /\ currentCall.callp = c}

LEMMA ReachedRang ==
    ASSUME RingInv, NEW t \in Threads, NEW c \in Reached(t)
    PROVE  phase[c] # "none" /\ (phase[c] = "incoming" => RingTold(c))
<1>1. RingFirst(c) /\ c \in CallIds
  BY DEF RingInv, Reached
<1>2. CASE todo[t] # <<>> /\ Head(todo[t]) \in About(c) \ Handling(c, "incoming")
  <2>1. Has(todo[t], About(c) \ Handling(c, "incoming"))
    BY <1>2, HasContinue, ShortScripts DEF RingInv, TypeOK
  <2>2. Has(todo[t], About(c))
    BY <2>1, HasMore
  <2> QED  BY <1>1, <2>1, <2>2 DEF RingFirst
<1>3. CASE currentCall # NoCall /\ currentCall.callp = c
  BY <1>1, <1>3 DEF RingFirst
<1> QED  BY <1>2, <1>3 DEF Reached

(* A step by which the thread only sends, and calls for nothing but mild   *)
(* operations about calls already reached, preserves the invariant.        *)
LEMMA MildStepKeepsRing ==
    ASSUME RingInv, TypeOK', NEW t \in Threads, todo[t] # <<>>,
           NEW ops \in Seq(Ops), Continue(t, ops),
           \A i \in 1 .. Len(ops) : Mild(ops[i], Reached(t)),
           UNCHANGED told,
           currentCall' \in {NoCall, currentCall}
              \/ (currentCall' # NoCall /\ currentCall'.callp \in Reached(t)),
           \A c \in CallIds :
              \/ phase'[c] = phase[c]
              \/ /\ phase'[c] \notin {"none", "incoming"}
                 /\ phase'[c] \in {"outgoing", "answered", "up"} => RingTold(c),
           Head(todo[t]).op # "tell",
           t = "main" /\ Head(todo[t]).op \in {"uaEvent", "sipCall", "sendInvite"} =>
              \A c \in CallIds : Has(Tail(todo[t]), {Invite(c)}) => Inviting(c)',
           t = "re" => UNCHANGED <<ua, isRunning>>
    PROVE  RingInv'
<1>1. /\ ~ Has(ops, OnMain) /\ ~ Has(ops, OnRe)
      /\ \A c \in CallIds : /\ Has(ops, About(c)) => c \in Reached(t)
                            /\ ~ Has(ops, Rising(c))
  BY MildScripts
<1>2. UpAfterRing' /\ \A c \in CallIds : WasTold(c, "Ring")' = WasTold(c, "Ring")
  BY DEF RingInv, UpAfterRing, WasTold
<1>3. \A c \in CallIds : Head(todo[t]) # Tell(c, "Ring")
  BY DEF Tell
<1>4. \A c \in CallIds : RingTold(c) => RingTold(c)'
  BY RingNotLost DEF RingInv, TypeOK
<1>5. \A c \in CallIds : Has(ops, About(c)) => phase[c] # "none"
  BY <1>1, ReachedRang
<1>6. \A c \in CallIds :
         phase[c] = "incoming" /\ Has(ops, About(c) \ Handling(c, "incoming"))
            => RingTold(c)'
  BY <1>1, <1>4, ReachedRang, HasMore
<1>7. \A c \in CallIds :
         currentCall' # NoCall /\ currentCall'.callp = c =>
            \/ currentCall # NoCall /\ currentCall.callp = c
            \/ /\ phase[c] # "none"
               /\ phase[c] = "incoming" => RingTold(c)'
  BY <1>4, ReachedRang
<1> QED  BY <1>1, <1>2, <1>3, <1>5, <1>6, <1>7, StepKeepsRing

(* The invariant is about these variables only.                            *)
LEMMA RingStays ==
    ASSUME RingInv, TypeOK',
           UNCHANGED <<ua, isRunning, currentCall, phase, told, todo>>
    PROVE  RingInv'
<1>1. UpAfterRing'
  BY DEF RingInv, UpAfterRing
<1>2. \A c \in CallIds :
        /\ RingTold(c)' <=> RingTold(c)
        /\ WasTold(c, "Ring")' <=> WasTold(c, "Ring")
        /\ Inviting(c)' <=> Inviting(c)
  BY DEF RingTold, WasTold, Inviting
<1>3. ASSUME NEW c \in CallIds  PROVE RingFirst(c)'
  BY <1>2 DEF RingInv, RingFirst
<1>4. ~ Has(todo["main"], OnRe)' /\ ~ Has(todo["re"], OnMain)'
  BY DEF RingInv
<1> QED  BY <1>1, <1>3, <1>4 DEF RingInv

(* Calling a method preserves the invariant: it concerns no call yet.      *)
LEMMA MethodKeepsRing ==
    ASSUME RingInv, TypeOK', MethodCalled
    PROVE  RingInv'
<1>1. PICK ops \in Seq(Ops) : MethodScript(ops)
  BY MethodScripts
<1>2. /\ Start("main", ops) /\ UNCHANGED <<told, currentCall, phase>>
      /\ \A i \in 1 .. Len(ops) : ops[i].op \notin CallOps
  BY <1>1 DEF MethodScript
<1>3. \A c \in CallIds : ~ Has(ops, About(c))
  BY <1>2 DEF Has, About
<1>4. \A c \in CallIds : ~ Has(ops, {Invite(c)}) /\ ~ Has(ops, Rising(c))
                         /\ ~ Has(ops, About(c) \ Handling(c, "incoming"))
  <2> TAKE c \in CallIds
  <2>1. {Invite(c)} \subseteq About(c) /\ Rising(c) \subseteq About(c)
    BY Kinds
  <2> QED  BY <1>3, <2>1, HasMore
<1>5. ~ Has(ops, OnRe)
  BY <1>2 DEF Has, OnRe, Handling, CallOps
<1> QED  BY <1>2, <1>3, <1>4, <1>5, ThreadNames, StartKeepsRing

(* The beginning of a call, and what the peer does, preserve the invariant. *)
LEMMA CallStepsKeepRing ==
    ASSUME RingInv, TypeOK', NEW d \in CallIds, CallSteps(d)
    PROVE  RingInv'
<1>1. RingFirst(d) /\ phase \in [CallIds -> Phases]
  BY DEF RingInv, TypeOK
<1>2. Invite(d) \in Ops /\ \A e \in Events : UaEvent(d, e) \in Ops
  BY OpTypes DEF Invite
<1>3. \A c \in CallIds, e \in Events :
         /\ UaEvent(d, e) \in About(c) => c = d
         /\ UaEvent(d, e) \in Rising(c) => c = d /\ e = "established"
         /\ UaEvent(d, e) \in About(c) \ Handling(c, "incoming") => e # "incoming"
         /\ UaEvent(d, e) # Invite(c)
  BY <1>2 DEF About, Rising, Handling, UaEvent, Tell, Invite, OnCall
<1>4. \A e \in Events : UaEvent(d, e) \notin OnMain
                        /\ (UaEvent(d, e) \in OnRe => e = "incoming")
  BY DEF OnMain, OnRe, Handling, UaEvent
<1>5. ASSUME NEW e \in Events, NEW o \in Ops, NEW ops \in {<<UaEvent(d, e)>>, <<UaEvent(d, e), o>>},
             Start("re", ops), UNCHANGED <<told, currentCall, ua, isRunning>>,
             o \notin OnMain,
             \A c \in CallIds : (o \in About(c) => c = d) /\ o \notin Rising(c),
             \A c \in CallIds \ {d} : phase'[c] = phase[c],
             phase'[d] \notin {"none", "incoming"},
             phase'[d] \in {"outgoing", "answered", "up"} => RingTold(d),
             e = "established" => RingTold(d)
      PROVE  RingInv'
  <2>1. ops \in Seq(Ops)
    BY <1>2, <1>5, ShortScripts
  <2>2. ASSUME NEW S, Has(ops, S)  PROVE UaEvent(d, e) \in S \/ o \in S
    <3>1. CASE ops = <<UaEvent(d, e)>>
      BY <2>2, <3>1, HasSmall
    <3>2. CASE ops = <<UaEvent(d, e), o>>
      BY <2>2, <3>2, HasSmall
    <3> QED  BY <3>1, <3>2
  <2>3. todo["re"] = <<>>
    BY <1>5 DEF Start, Idle
  <2>4. RingTold(d) => WasTold(d, "Ring")
    BY <2>3, HasSmall DEF RingTold
  <2>5. \A c \in CallIds :
           /\ Has(ops, About(c)) => c = d
           /\ Has(ops, About(c) \ Handling(c, "incoming")) => c = d
           /\ Has(ops, Rising(c)) => c = d /\ e = "established"
    <3> TAKE c \in CallIds
    <3>1. Has(ops, About(c)) => c = d
      BY <1>3, <1>5, <2>2
    <3>2. Has(ops, About(c) \ Handling(c, "incoming")) => Has(ops, About(c))
      BY HasMore
    <3>3. Has(ops, Rising(c)) => c = d /\ e = "established"
      BY <1>3, <1>5, <2>2
    <3> QED  BY <3>1, <3>2, <3>3
  <2>6. ~ Has(ops, OnMain)
    BY <1>4, <1>5, <2>2
  <2> QED  BY <1>5, <2>1, <2>4, <2>5, <2>6, ThreadNames, StartKeepsRing
<1>6. ASSUME NEW e \in Events, Start("re", <<UaEvent(d, e)>>),
             UNCHANGED <<told, currentCall, ua, isRunning>>,
             \A c \in CallIds \ {d} : phase'[c] = phase[c],
             phase'[d] \notin {"none", "incoming"},
             phase'[d] \in {"outgoing", "answered", "up"} => RingTold(d),
             e = "established" => RingTold(d)
      PROVE  RingInv'
  <2>1. /\ Do("noCurrent") \in Ops /\ Do("noCurrent") \notin OnMain
        /\ \A c \in CallIds : Do("noCurrent") \notin About(c) /\ Do("noCurrent") \notin Rising(c)
    BY OpTypes DEF Do, OnMain, About, Rising, Handling, Tell, CallOps
  <2> QED  BY <1>5, <1>6, <2>1
<1>7. CASE Call(d)
  <2> DEFINE a == UaEvent(d, "outgoing")
             s == <<a, Invite(d)>>
  <2>1. "outgoing" \in Events
    BY DEF Events
  <2>2. s \in Seq(Ops) /\ Start("main", s) /\ ua' /\ isRunning'
        /\ UNCHANGED <<told, currentCall>>
        /\ phase' = [phase EXCEPT ![d] = "idle"]
    BY <1>2, <1>7, <2>1, ShortScripts DEF Call, Invite, dart
  <2>3. todo'["main"] = s
    BY <2>2, ThreadNames DEF Start, RingInv, TypeOK
  <2>4. Inviting(d)'
    BY <2>2, <2>3 DEF Inviting, Invite
  <2>5. \A c \in CallIds :
           /\ Invite(d) \in About(c) => c = d
           /\ Invite(d) \in {Invite(c)} => c = d
           /\ Invite(d) \notin Rising(c)
    BY <1>2 DEF Invite, OnCall, About, Rising, Handling, Tell
  <2>6. \A S : Has(s, S) <=> a \in S \/ Invite(d) \in S
    BY HasSmall
  <2>7. \A c \in CallIds :
           /\ Has(s, About(c)) => phase'[c] # "none"
           /\ Has(s, About(c) \ Handling(c, "incoming")) => phase'[c] # "incoming"
           /\ Has(s, Rising(c)) => WasTold(c, "Ring")
           /\ Has(s, {Invite(c)}) => c = d
    BY <1>1, <1>3, <2>1, <2>2, <2>5, <2>6
  <2>8. ~ Has(s, OnRe)
    <3>1. Invite(d) \notin OnRe
      BY DEF Invite, OnCall, OnRe, Handling
    <3> QED  BY <1>4, <2>1, <2>6, <3>1
  <2> HIDE DEF s
  <2>9. \A c \in CallIds : phase'[c] = phase[c] \/ phase'[c] = "idle"
    BY <1>1, <2>2
  <2> QED  BY <2>2, <2>4, <2>7, <2>8, <2>9, ThreadNames, StartKeepsRing
<1>8. CASE Incoming(d)
  <2> DEFINE a == UaEvent(d, "incoming")
             s == <<a>>
  <2>1. "incoming" \in Events
    BY DEF Events
  <2>2. s \in Seq(Ops) /\ Start("re", s) /\ phase[d] = "none"
        /\ UNCHANGED <<told, currentCall, ua, isRunning>>
        /\ phase' = [phase EXCEPT ![d] = "incoming"]
    BY <1>2, <1>8, <2>1, ShortScripts DEF Incoming, Report, CanBegin, dart, kotlin
  <2>3. \A S : Has(s, S) <=> a \in S
    BY HasSmall
  <2>4. \A c \in CallIds :
           /\ Has(s, About(c)) => phase'[c] # "none"
           /\ Has(s, About(c) \ Handling(c, "incoming")) => phase'[c] # "incoming"
           /\ Has(s, Rising(c)) => WasTold(c, "Ring")
    BY <1>1, <1>3, <2>1, <2>2, <2>3
  <2>5. ~ Has(s, OnMain)
    BY <1>4, <2>1, <2>3
  <2> HIDE DEF s
  <2>6. \A c \in CallIds : phase'[c] = phase[c]
                              \/ (phase'[c] = "incoming" /\ phase[c] = "none")
    BY <1>1, <2>2
  <2> QED  BY <2>2, <2>4, <2>5, <2>6, ThreadNames, StartKeepsRing
<1>9. CASE Progress(d)
  <2>1. PICK e \in {"ringing", "progress", "early media"} : Report(d, e)
    BY <1>9 DEF Progress
  <2>2. e \in Events /\ e # "established"
    BY DEF Events
  <2>3. phase[d] = "outgoing" /\ UNCHANGED <<told, currentCall, ua, isRunning, phase>>
    BY <1>9 DEF Progress, kotlin, baresip, dart
  <2> QED  BY <1>1, <1>6, <2>1, <2>2, <2>3 DEF Report, RingFirst
<1>10. CASE Established(d)
  <2>1. "established" \in Events
    BY DEF Events
  <2>2. phase[d] \in {"outgoing", "answered"} /\ RingTold(d)
    BY <1>1, <1>10 DEF Established, RingFirst
  <2>3. /\ Report(d, "established") /\ phase' = [phase EXCEPT ![d] = "up"]
        /\ UNCHANGED <<told, currentCall, ua, isRunning>>
    BY <1>10 DEF Established, kotlin, dart
  <2>4. phase'[d] = "up" /\ \A c \in CallIds \ {d} : phase'[c] = phase[c]
    BY <1>1, <2>3
  <2> QED  BY <1>6, <2>1, <2>2, <2>3, <2>4 DEF Report
<1>11. CASE PeerUpdate(d)
  <2>1. PICK e \in {"update 0", "update 1", "update 2", "update 3"} : Report(d, e)
    BY <1>11 DEF PeerUpdate
  <2>2. e \in Events /\ e # "established"
    BY DEF Events
  <2>3. phase[d] = "up" /\ UNCHANGED <<told, currentCall, ua, isRunning, phase>>
    BY <1>11 DEF PeerUpdate, kotlin, dart
  <2> QED  BY <1>1, <1>6, <2>1, <2>2, <2>3 DEF Report, RingFirst
<1>12. CASE OtherEvent(d)
  <2>1. "other" \in Events
    BY DEF Events
  <2>2. phase[d] = "up" /\ UNCHANGED <<told, currentCall, ua, isRunning, phase>>
    BY <1>12 DEF OtherEvent, kotlin, baresip, dart
  <2> QED  BY <1>1, <1>6, <1>12, <2>1, <2>2 DEF OtherEvent, Report, RingFirst
<1>13. CASE Close(d)
  <2> DEFINE o == OnCall("destroy", d)
  <2>1. PICK e \in {"closed", "closed busy"} : Start("re", <<UaEvent(d, e), o>>)
    BY <1>13 DEF Close
  <2>2. e \in Events /\ e # "established"
    BY DEF Events
  <2>3. o \in Ops /\ o \notin OnMain
        /\ \A c \in CallIds : (o \in About(c) => c = d) /\ o \notin Rising(c)
    BY OpTypes DEF OnCall, OnMain, About, Rising, Handling, Tell
  <2>4. /\ UNCHANGED <<told, currentCall, ua, isRunning>>
        /\ phase' = [phase EXCEPT ![d] = IF @ \in {"incoming", "answered"}
                                            THEN "cancelled" ELSE "closing"]
    BY <1>13 DEF Close, kotlin, dart
  <2>5. phase'[d] \in {"cancelled", "closing"} /\ \A c \in CallIds \ {d} : phase'[c] = phase[c]
    BY <1>1, <2>4
  <2> HIDE DEF o
  <2> QED  BY <1>5, <2>1, <2>2, <2>3, <2>4, <2>5
<1> QED  BY <1>7, <1>8, <1>9, <1>10, <1>11, <1>12, <1>13 DEF CallSteps

(* A step of a thread preserves the invariant.                             *)
LEMMA ThreadKeepsRing ==
    ASSUME RingInv, TypeOK', NEW t \in Threads, Step(t)
    PROVE  RingInv'
<1>1. todo[t] # <<>>
  BY MediaScript
     DEF RingInv, TypeOK,
         Step, At, HandleUaEvent, SipCall, TellDart, Delist, CloseCurrent, NoCurrent,
         SendInvite, SetCurrent, WithCurrent, Answer, SendAnswer, Hangup, Destroy,
         Hold, SetUa
<1> DEFINE h == Head(todo[t])
           rest == Tail(todo[t])
<1>2. /\ todo \in [Threads -> Seq(Ops)] /\ phase \in [CallIds -> Phases]
      /\ told \in [CallIds -> Seq({"Ring", "Up", "Hangup"})]
      /\ currentCall \in SipCalls \union {NoCall}
  BY DEF RingInv, TypeOK
<1>3. /\ h \in Ops
      /\ \A S : Has(todo[t], S) <=> h \in S \/ Has(rest, S)
  BY <1>1, <1>2, HasContinue
<1>4. h.op \in CallOps => h.call \in CallIds /\ h \in About(h.call)
  BY <1>3, OpFields DEF About
<1>5. \A c \in CallIds : RingFirst(c)
  BY DEF RingInv
<1>6. h \notin Handling(h.call, "incoming") /\ h.op \in CallOps
         => /\ h.call \in Reached(t) /\ phase[h.call] # "none"
            /\ phase[h.call] = "incoming" => RingTold(h.call)
  BY <1>1, <1>4, ReachedRang DEF Reached
<1>7. t = "main" => h \notin OnRe
  BY <1>3 DEF RingInv
<1>8. t = "re" => h \notin OnMain
  BY <1>3 DEF RingInv
<1>9. \A k \in {"startRinging", "stopRinging", "playRingBack", "playBusy",
                "stopMediaPlayer", "setCallVolume", "resetIfCurrent",
                "resetIfNone", "noCurrent"} :
         Do(k) \in Ops /\ \A D : Mild(Do(k), D)
  BY OpTypes DEF Do, Mild, CallOps
<1>10. ASSUME NEW c \in CallIds, NEW D, c \in D
       PROVE  /\ \A k \in {"delist", "destroy", "sendAnswer", "setCurrent",
                           "answer", "hangup", "pause", "resume"} :
                    OnCall(k, c) \in Ops /\ Mild(OnCall(k, c), D)
              /\ \A e \in Events \ {"incoming", "established"} :
                    UaEvent(c, e) \in Ops /\ Mild(UaEvent(c, e), D)
              /\ \A e \in {"Ring", "Paused", "Resuming", "Hangup"} :
                    Tell(c, e) \in Ops /\ Mild(Tell(c, e), D)
  <2>1. \A k \in {"delist", "destroy", "sendAnswer", "setCurrent",
                   "answer", "hangup", "pause", "resume"} : Mild(OnCall(k, c), D)
    BY <1>10 DEF OnCall, Mild
  <2>2. \A e \in Events \ {"incoming", "established"} : Mild(UaEvent(c, e), D)
    BY <1>10 DEF UaEvent, Mild
  <2>3. \A e \in {"Ring", "Paused", "Resuming", "Hangup"} : Mild(Tell(c, e), D)
    BY <1>10 DEF Tell, Mild
  <2> QED  BY <2>1, <2>2, <2>3, OpTypes
<1>11. \A c \in CallIds : Has(rest, {Invite(c)}) /\ t = "main" => Inviting(c)
  BY <1>3, <1>5 DEF RingFirst
<1>12. ASSUME NEW ops \in Seq(Ops), Continue(t, ops),
              \A i \in 1 .. Len(ops) : Mild(ops[i], Reached(t)),
              UNCHANGED <<told, phase>>,
              currentCall' \in {NoCall, currentCall},
              h.op \notin {"uaEvent", "sipCall", "sendInvite", "tell"},
              t = "re" => UNCHANGED <<ua, isRunning>>
       PROVE  RingInv'
  BY <1>1, <1>12, MildStepKeepsRing
<1>13. ASSUME Continue(t, <<>>),
              UNCHANGED <<told, phase>>,
              currentCall' \in {NoCall, currentCall},
              h.op \notin {"uaEvent", "sipCall", "sendInvite", "tell"},
              t = "re" => UNCHANGED <<ua, isRunning>>
       PROVE  RingInv'
  BY <1>12, <1>13, MildShort, ShortScripts
<1>14. CASE HandleUaEvent(t)
  <2> DEFINE o == [op |-> "sipCall", call |-> h.call, event |-> h.event]
             ops == IF isRunning /\ ua THEN <<o>> ELSE <<>>
  <2>1. /\ h.op = "uaEvent" /\ h.call \in CallIds /\ h.event \in Events
        /\ Continue(t, ops) /\ UNCHANGED <<ua, isRunning, told, currentCall, phase>>
    BY <1>3, <1>14, OpFields DEF HandleUaEvent, At, CallOps, kotlin, baresip, dart
  <2>2. o \in Ops /\ ops \in Seq(Ops)
    BY <2>1, OpTypes, ShortScripts
  <2>3. \A S : Has(ops, S) => o \in S
    BY HasSmall
  <2>4. \A c \in CallIds :
           /\ o \in About(c) => h \in About(c)
           /\ o \in About(c) \ Handling(c, "incoming") => h \in About(c) \ Handling(c, "incoming")
           /\ o \in Rising(c) => h \in Rising(c)
    BY <1>3, <2>1, <2>2 DEF About, Handling, Rising, Tell, CallOps
  <2>5. o \notin OnMain /\ (o \in OnRe => h \in OnRe)
    BY <1>3, <2>1, <2>2 DEF OnMain, OnRe, Handling
  <2>6. UpAfterRing' /\ \A c \in CallIds : WasTold(c, "Ring")' = WasTold(c, "Ring")
    BY <2>1 DEF RingInv, UpAfterRing, WasTold
  <2>7. \A c \in CallIds : h # Tell(c, "Ring")
    BY <2>1 DEF Tell
  <2>8. \A c \in CallIds : RingTold(c) => RingTold(c)'
    BY <1>1, <1>2, <2>1, <2>2, RingNotLost
  <2>9. \A c \in CallIds : Has(ops, About(c)) => phase[c] # "none"
    BY <1>3, <1>5, <2>3, <2>4 DEF RingFirst
  <2>10. \A c \in CallIds :
            phase[c] = "incoming" /\ Has(ops, About(c) \ Handling(c, "incoming"))
               => RingTold(c)'
    BY <1>3, <1>5, <2>3, <2>4, <2>8 DEF RingFirst
  <2>11. \A c \in CallIds : Has(ops, Rising(c)) => WasTold(c, "Ring")'
    BY <1>3, <1>5, <2>3, <2>4, <2>6 DEF RingFirst
  <2>12. ASSUME t = "main", NEW c \in CallIds, Has(rest, {Invite(c)})
         PROVE  Inviting(c)'
    <3>1. Inviting(c)
      BY <1>11, <2>12
    <3>2. /\ h.call = c /\ h.event = "outgoing" /\ rest = <<Invite(c)>>
          /\ isRunning /\ ua
      BY <2>1, <2>12, <3>1, InvitingHead
    <3>3. o = [op |-> "sipCall", call |-> c, event |-> "outgoing"]
      BY <3>2
    <3>4. todo'["main"] = <<o>> \o <<Invite(c)>>
      BY <1>2, <2>1, <2>12, <3>2, ThreadNames DEF Continue
    <3> HIDE DEF o
    <3>6. todo'["main"] = <<[op |-> "sipCall", call |-> c, event |-> "outgoing"], Invite(c)>>
      BY <3>3, <3>4, ConcatOne
    <3> QED  BY <3>6 DEF Inviting, Invite
  <2>13. ~ Has(ops, OnMain) /\ (t = "main" => ~ Has(ops, OnRe))
    BY <1>7, <2>3, <2>5
  <2> HIDE DEF ops
  <2> QED  BY <1>1, <2>1, <2>2, <2>6, <2>7, <2>9, <2>10, <2>11, <2>12, <2>13, StepKeepsRing
<1>15. CASE SipCall(t)
  <2>0. h.call \in CallIds /\ h.event \in Events
    BY <1>3, <1>15, OpFields DEF SipCall, At, CallOps
  <2>1. PICK d \in CallIds, e \in Events, ops \in Seq(Ops) :
           /\ h.op = "sipCall" /\ h.call = d /\ h.event = e
           /\ ops = Reaction(d, e)
           /\ Continue(t, ops) /\ UNCHANGED <<ua, isRunning, told, phase>>
           /\ currentCall' = GetSipCall(d)
    BY <1>15, <2>0, ReactionType DEF SipCall, At, baresip, dart
  <2>2. ops \in Seq(Ops)
    OBVIOUS
  <2>3. currentCall'.callp = d
    BY <2>1 DEF GetSipCall
  <2>4. UpAfterRing' /\ \A c \in CallIds : WasTold(c, "Ring")' = WasTold(c, "Ring")
    BY <2>1 DEF RingInv, UpAfterRing, WasTold
  <2>5. \A c \in CallIds : h # Tell(c, "Ring")
    BY <2>1 DEF Tell
  <2>6. todo'[t] = ops \o rest /\ \A S : Has(ops, S) => Has(todo'[t], S)
    BY <1>1, <1>2, <2>1, <2>2, HasContinue DEF Continue
  <2>7. \A c \in CallIds : RingTold(c) => RingTold(c)'
    BY <1>1, <1>2, <2>1, <2>2, RingNotLost
  <2>8. phase[d] # "none"
    BY <1>3, <1>4, <1>5, <2>1 DEF RingFirst, CallOps
  <2>9. phase[d] = "incoming" => RingTold(d)'
    <3>1. CASE h \in Handling(d, "incoming")
      <4>1. t = "re"
        BY <1>7, <2>1, <3>1 DEF OnRe, Threads
      <4>2. ops = <<Do("startRinging"), Tell(d, "Ring")>>
        BY <2>1, <3>1 DEF Handling, Reaction
      <4>3. Has(ops, {Tell(d, "Ring")})
        BY <4>2, HasSmall
      <4> QED  BY <2>6, <4>1, <4>3 DEF RingTold
    <3>2. CASE h \notin Handling(d, "incoming")
      BY <1>6, <2>1, <2>7, <3>2 DEF CallOps
    <3> QED  BY <3>1, <3>2
  <2>10. /\ ~ Has(ops, OnMain) /\ ~ Has(ops, OnRe)
         /\ \A c \in CallIds : /\ Has(ops, About(c)) => c = d
                               /\ Has(ops, Rising(c)) => c = d /\ e = "established"
    <3>1. CASE e = "established"
      <4>1. ops = <<Tell(d, "Up")>>
        BY <2>1, <3>1 DEF Reaction
      <4>2. Tell(d, "Up") \notin OnMain /\ Tell(d, "Up") \notin OnRe
        BY DEF Tell, OnMain, OnRe, Handling
      <4>3. \A c \in CallIds : Tell(d, "Up") \in About(c) => c = d
        BY DEF Tell, About
      <4>4. \A c \in CallIds : Tell(d, "Up") \in Rising(c) => c = d
        BY DEF Tell, Rising, Handling
      <4> QED  BY <3>1, <4>1, <4>2, <4>3, <4>4, HasSmall
    <3>2. CASE e # "established"
      <4>1. \A i \in 1 .. Len(ops) : Mild(ops[i], {d})
        <5>1. /\ \A k \in {"Ring", "Paused", "Resuming", "Hangup"} : Mild(Tell(d, k), {d})
              /\ Mild(OnCall("delist", d), {d})
          BY <1>10, <2>1
        <5>2. \A b : Mild([op |-> "closeCurrent", busy |-> b], {d})
          BY DEF Mild, CallOps
        <5>3. CASE e = "incoming"
          BY <2>1, <1>9, <5>1, <5>3, MildShort DEF Reaction
        <5>4. CASE e = "outgoing"
          BY <2>1, <5>1, <5>4, MildShort DEF Reaction
        <5>5. CASE e \in {"ringing", "progress", "early media"}
          BY <2>1, <1>9, <5>5, MildShort DEF Reaction
        <5>6. CASE e \in {"update 0", "update 1", "update 2", "update 3"}
          BY <2>1, <5>1, <5>6, MildShort DEF Reaction, UpdateTold
        <5>7. CASE e \in {"closed", "closed busy"}
          <6> DEFINE x == [op |-> "closeCurrent", busy |-> e = "closed busy"]
          <6>1. ops = <<Tell(d, "Hangup"), OnCall("delist", d), x>>
            BY <2>1, <5>7 DEF Reaction, Ending
          <6>2. Mild(x, {d})
            BY <5>2
          <6> HIDE DEF x
          <6> QED  BY <5>1, <6>1, <6>2, MildShort
        <5>8. CASE e = "other"
          BY <2>1, <5>8, MildShort DEF Reaction
        <5> QED  BY <2>1, <3>2, <5>3, <5>4, <5>5, <5>6, <5>7, <5>8 DEF Events
      <4>2. /\ ~ Has(ops, OnMain) /\ ~ Has(ops, OnRe)
            /\ \A c \in CallIds : (Has(ops, About(c)) => c \in {d}) /\ ~ Has(ops, Rising(c))
        BY <4>1, MildScripts
      <4> QED  BY <4>2
    <3> QED  BY <3>1, <3>2
  <2>11. e = "established" => WasTold(d, "Ring")
    BY <1>3, <1>5, <2>1 DEF RingFirst, Rising, Handling
  <2>12. \A c \in CallIds :
            Has(ops, About(c) \ Handling(c, "incoming")) => Has(ops, About(c))
    BY HasMore
  <2>13. ASSUME t = "main", NEW c \in CallIds, Has(rest, {Invite(c)})
         PROVE  Inviting(c)'
    <3>1. Inviting(c)
      BY <1>11, <2>13
    <3>2. d = c /\ e = "outgoing" /\ rest = <<Invite(c)>>
      BY <2>1, <2>13, <3>1, InvitingHead
    <3>3. ops = <<Tell(c, "Ring")>>
      BY <2>1, <3>2 DEF Reaction
    <3>4. todo'["main"] = <<Tell(c, "Ring"), Invite(c)>>
      BY <2>6, <2>13, <3>2, <3>3, ConcatOne
    <3> QED  BY <3>4 DEF Inviting, Invite, Tell
  <2>14. \A c \in CallIds : Has(ops, About(c)) => phase[c] # "none"
    BY <2>8, <2>10
  <2>15. \A c \in CallIds :
            phase[c] = "incoming" /\ Has(ops, About(c) \ Handling(c, "incoming"))
               => RingTold(c)'
    BY <2>9, <2>10, <2>12
  <2>16. \A c \in CallIds :
            currentCall' # NoCall /\ currentCall'.callp = c =>
               phase[c] # "none" /\ (phase[c] = "incoming" => RingTold(c)')
    BY <2>3, <2>8, <2>9
  <2>17. \A c \in CallIds : Has(ops, Rising(c)) => WasTold(c, "Ring")'
    BY <2>4, <2>10, <2>11
  <2> QED  BY <1>1, <2>1, <2>2, <2>4, <2>5, <2>10, <2>13, <2>14, <2>15, <2>16, <2>17,
              StepKeepsRing
<1>16. CASE TellDart(t)
  <2>0. h.op = "tell" /\ h.call \in CallIds
        /\ h.event \in {"Ring", "Up", "Paused", "Resuming", "Hangup"}
    BY <1>3, <1>16, OpFields DEF TellDart, At, CallOps
  <2>1. PICK d \in CallIds, e \in {"Ring", "Up", "Paused", "Resuming", "Hangup"} :
           /\ h.op = "tell" /\ h.call = d /\ h.event = e
           /\ Continue(t, <<>>) /\ UNCHANGED <<ua, isRunning, currentCall, phase>>
           /\ IF e \in {"Paused", "Resuming"}
                 THEN UNCHANGED told
                 ELSE told' = [told EXCEPT ![d] = Append(@, e)]
    BY <1>16, <2>0 DEF TellDart, At, kotlin, baresip
  <2>2. \A c \in CallIds \ {d} : told'[c] = told[c]
    BY <1>2, <2>1
  <2>3. \/ told'[d] = told[d]
        \/ /\ told'[d] = Append(told[d], e) /\ e \in {"Ring", "Up", "Hangup"}
    BY <1>2, <2>1
  <2>4. /\ Len(told[d]) \in Nat
        /\ e \in {"Ring", "Up", "Hangup"} =>
              /\ Len(Append(told[d], e)) = Len(told[d]) + 1
              /\ Append(told[d], e)[Len(told[d]) + 1] = e
              /\ \A i \in 1 .. Len(told[d]) : Append(told[d], e)[i] = told[d][i]
    <3>1. told[d] \in Seq({"Ring", "Up", "Hangup"})
      BY <1>2
    <3> QED  BY <3>1, AppendProperties, LenProperties
  <2>5. \A c \in CallIds : WasTold(c, "Ring") => WasTold(c, "Ring")'
    <3> SUFFICES ASSUME NEW c \in CallIds, WasTold(c, "Ring")  PROVE WasTold(c, "Ring")'
      OBVIOUS
    <3>1. PICK i \in 1 .. Len(told[c]) : told[c][i] = "Ring"
      BY DEF WasTold
    <3>2. i \in 1 .. Len(told'[c]) /\ told'[c][i] = "Ring"
      BY <2>2, <2>3, <2>4, <3>1
    <3> QED  BY <3>2 DEF WasTold
  <2>6. e = "Ring" => WasTold(d, "Ring")'
    <3> SUFFICES ASSUME e = "Ring"  PROVE WasTold(d, "Ring")'
      OBVIOUS
    <3>1. told'[d] = Append(told[d], "Ring")
      BY <1>2, <2>1
    <3>2. Len(told[d]) + 1 \in 1 .. Len(told'[d]) /\ told'[d][Len(told[d]) + 1] = "Ring"
      BY <2>4, <3>1
    <3> QED  BY <3>2 DEF WasTold
  <2>7. \A c \in CallIds : h = Tell(c, "Ring") => WasTold(c, "Ring")'
    BY <2>1, <2>6 DEF Tell
  <2>8. e = "Up" => WasTold(d, "Ring")
    <3>1. \A o \in Ops :
             o.op = "tell" => o = [op |-> "tell", call |-> o.call, event |-> o.event]
      BY DEF Ops
    <3>2. e = "Up" => h = Tell(d, "Up")
      BY <1>3, <2>1, <3>1 DEF Tell
    <3>3. e = "Up" => Has(todo[t], Rising(d))
      BY <1>3, <3>2 DEF Rising
    <3> QED  BY <1>5, <3>3 DEF RingFirst
  <2>9. UpAfterRing'
    <3> SUFFICES ASSUME NEW c \in CallIds, NEW i \in 1 .. Len(told'[c]), told'[c][i] = "Up"
                 PROVE  \E j \in 1 .. i - 1 : told'[c][j] = "Ring"
      BY DEF UpAfterRing
    <3>1. CASE i \in 1 .. Len(told[c]) /\ told[c][i] = "Up"
      <4>1. PICK j \in 1 .. i - 1 : told[c][j] = "Ring"
        BY <3>1 DEF RingInv, UpAfterRing
      <4>2. told'[c][j] = told[c][j]
        <5>1. CASE c # d
          BY <2>2, <5>1
        <5>2. CASE c = d
          <6>1. j \in 1 .. Len(told[d])
            BY <2>4, <3>1, <5>2
          <6> QED  BY <2>3, <2>4, <5>2, <6>1
        <5> QED  BY <5>1, <5>2
      <4> QED  BY <4>1, <4>2
    <3>2. CASE ~ (i \in 1 .. Len(told[c]) /\ told[c][i] = "Up")
      <4>1. c = d /\ i = Len(told[d]) + 1 /\ e = "Up"
        BY <2>2, <2>3, <2>4, <3>2
      <4>2. PICK j \in 1 .. Len(told[d]) : told[d][j] = "Ring"
        BY <2>8, <4>1 DEF WasTold
      <4>3. j \in 1 .. i - 1 /\ told'[c][j] = "Ring"
        BY <2>2, <2>3, <2>4, <4>1, <4>2
      <4> QED  BY <4>3
    <3> QED  BY <3>1, <3>2
  <2>10. ASSUME t = "main", NEW c \in CallIds, Has(rest, {Invite(c)})
         PROVE  Inviting(c)'
    <3>1. Inviting(c)
      BY <1>11, <2>10
    <3>2. h = Tell(c, "Ring") /\ rest = <<Invite(c)>>
      <4>1. h.op = "tell"
        BY <2>1
      <4>2. h = Head(todo["main"]) /\ rest = Tail(todo["main"])
        BY <2>10
      <4> HIDE DEF h, rest
      <4> QED  BY <3>1, <4>1, <4>2, InvitingHead
    <3>3. todo'["main"] = <<Invite(c)>>
      <4>1. todo'["main"] = <<>> \o rest
        BY <1>2, <2>1, <2>10 DEF Continue
      <4> QED  BY <3>2, <4>1
    <3> QED  BY <2>7, <3>2, <3>3 DEF Inviting, Invite
  <2>11. <<>> \in Seq(Ops) /\ \A S : ~ Has(<<>>, S)
    BY HasSmall, ShortScripts
  <2> QED  BY <1>1, <2>1, <2>5, <2>7, <2>9, <2>10, <2>11, StepKeepsRing
<1>17. CASE Delist(t)
  <2>1. h.op = "delist" /\ Continue(t, <<>>)
        /\ UNCHANGED <<told, phase, currentCall, ua, isRunning>>
    BY <1>17 DEF Delist, At, baresip, dart
  <2> QED  BY <1>13, <2>1
<1>18. CASE CloseCurrent(t)
  <2> DEFINE x == IF h.busy THEN Do("playBusy") ELSE Do("resetIfCurrent")
             ops == <<Do("stopRinging"), Do("stopMediaPlayer"), x, Do("noCurrent")>>
  <2>1. /\ h.op = "closeCurrent" /\ (Continue(t, ops) \/ Continue(t, <<>>))
        /\ UNCHANGED <<told, phase, currentCall, ua, isRunning>>
    BY <1>18 DEF CloseCurrent, At, kotlin, baresip, dart
  <2>2. x \in Ops /\ Mild(x, Reached(t))
    BY <1>9
  <2> HIDE DEF x
  <2>3. ops \in Seq(Ops) /\ \A i \in 1 .. Len(ops) : Mild(ops[i], Reached(t))
    BY <1>9, <2>2, MildShort, ShortScripts
  <2> HIDE DEF ops
  <2> QED  BY <1>12, <1>13, <2>1, <2>3
<1>19. CASE NoCurrent(t)
  <2>1. h.op = "noCurrent" /\ Continue(t, <<>>) /\ currentCall' = NoCall
        /\ UNCHANGED <<told, phase, ua, isRunning>>
    BY <1>19 DEF NoCurrent, At, baresip, dart
  <2> QED  BY <1>13, <2>1
<1>20. CASE SendInvite(t)
  <2>1. h.op = "sendInvite" /\ h.call \in CallIds
    BY <1>4, <1>20 DEF SendInvite, At, CallOps
  <2>2. t = "main"
    BY <1>3, <1>8, <2>1 DEF OnMain, Threads
  <2>3. Invite(h.call) = h
    BY <1>3, <2>1 DEF Ops, Invite, OnCall
  <2>4. Inviting(h.call)
    BY <1>3, <1>5, <2>1, <2>2, <2>3 DEF RingFirst
  <2>5. rest = <<>> /\ WasTold(h.call, "Ring")
    BY <2>1, <2>2, <2>4, InvitingHead
  <2>6. h \notin Handling(h.call, "incoming")
    BY <2>1 DEF Handling
  <2>7. h.call \in Reached(t)
    BY <1>6, <2>1, <2>6 DEF CallOps
  <2>8. UNCHANGED <<told, currentCall, ua, isRunning>>
    BY <1>20 DEF SendInvite, kotlin, dart
  <2>9. \E k \in {"setCurrent", "delist"} :
           /\ Continue(t, <<OnCall(k, h.call)>>)
           /\ phase' = [phase EXCEPT ![h.call] = IF k = "setCurrent" THEN "outgoing"
                                                                     ELSE "failed"]
    BY <1>20 DEF SendInvite
  <2>10. PICK k \in {"setCurrent", "delist"} :
           /\ Continue(t, <<OnCall(k, h.call)>>)
           /\ phase' = [phase EXCEPT ![h.call] = IF k = "setCurrent" THEN "outgoing"
                                                                     ELSE "failed"]
    BY <2>9
  <2>11. <<OnCall(k, h.call)>> \in Seq(Ops)
         /\ \A i \in 1 .. Len(<<OnCall(k, h.call)>>) : Mild(<<OnCall(k, h.call)>>[i], Reached(t))
    BY <1>10, <2>1, <2>7, MildShort, ShortScripts
  <2>12. \A c \in CallIds :
            \/ phase'[c] = phase[c]
            \/ /\ phase'[c] \notin {"none", "incoming"}
               /\ phase'[c] \in {"outgoing", "answered", "up"} => RingTold(c)
    BY <1>2, <2>1, <2>5, <2>10 DEF RingTold
  <2>13. \A S : ~ Has(rest, S)
    BY <2>5, HasSmall
  <2> QED  BY <1>1, <2>1, <2>2, <2>8, <2>10, <2>11, <2>12, <2>13, MildStepKeepsRing
<1>21. CASE SetCurrent(t)
  <2>1. /\ h.op = "setCurrent" /\ Continue(t, <<>>)
        /\ currentCall' = [callp |-> h.call, ua |-> TRUE]
        /\ UNCHANGED <<told, phase, ua, isRunning>>
    BY <1>21 DEF SetCurrent, At, baresip, dart
  <2>2. h.call \in Reached(t) /\ h.call \in CallIds
    BY <1>4, <1>6, <2>1 DEF CallOps, Handling
  <2>3. currentCall' # NoCall /\ currentCall'.callp \in Reached(t)
    <3>1. currentCall' \in [callp : CallIds, ua : BOOLEAN]
      BY <2>1, <2>2
    <3> QED  BY <2>1, <2>2, <3>1, NoCallAssumption
  <2> QED  BY <1>1, <2>1, <2>3, MildShort, MildStepKeepsRing, ShortScripts
<1>22. CASE WithCurrent(t)
  <2>1. /\ h.op = "withCurrent" /\ h.do \in {"answer", "hangup", "pause", "resume"}
        /\ UNCHANGED <<told, phase, currentCall, ua, isRunning>>
    BY <1>3, <1>22, OpFields DEF WithCurrent, At, kotlin, baresip, dart
  <2>2. \/ Continue(t, <<>>)
        \/ currentCall # NoCall /\ Continue(t, <<OnCall(h.do, currentCall.callp)>>)
    BY <1>22 DEF WithCurrent
  <2>3. ASSUME currentCall # NoCall, Continue(t, <<OnCall(h.do, currentCall.callp)>>)
        PROVE  RingInv'
    <3> DEFINE d == currentCall.callp
               o == OnCall(h.do, d)
    <3>1. d \in Reached(t) /\ d \in CallIds
      BY <1>2, <2>3 DEF Reached, SipCalls
    <3>2. o \in Ops /\ Mild(o, Reached(t))
      BY <1>10, <2>1, <3>1
    <3>3. Continue(t, <<o>>)
      BY <2>3
    <3> HIDE DEF o
    <3>4. <<o>> \in Seq(Ops) /\ \A i \in 1 .. Len(<<o>>) : Mild(<<o>>[i], Reached(t))
      BY <3>2, MildShort, ShortScripts
    <3> QED  BY <1>12, <2>1, <3>3, <3>4
  <2> QED  BY <1>13, <2>1, <2>2, <2>3
<1>23. CASE Answer(t)
  <2> DEFINE ops == <<UaEvent(h.call, "other"), OnCall("sendAnswer", h.call)>>
  <2>1. /\ h.op = "answer" /\ (Continue(t, ops) \/ Continue(t, <<>>))
        /\ UNCHANGED <<told, phase, currentCall, ua, isRunning>>
    BY <1>23 DEF Answer, At, kotlin, dart
  <2>2. h.call \in Reached(t) /\ h.call \in CallIds
    BY <1>4, <1>6, <2>1 DEF CallOps, Handling
  <2>3. "other" \in Events \ {"incoming", "established"}
    BY DEF Events
  <2>4. ops \in Seq(Ops) /\ \A i \in 1 .. Len(ops) : Mild(ops[i], Reached(t))
    BY <1>10, <2>2, <2>3, MildShort, ShortScripts
  <2> HIDE DEF ops
  <2> QED  BY <1>12, <1>13, <2>1, <2>4
<1>24. CASE SendAnswer(t)
  <2>1. /\ h.op = "sendAnswer" /\ Continue(t, <<>>)
        /\ phase' = [phase EXCEPT ![h.call] = IF @ = "incoming" THEN "answered" ELSE @]
        /\ UNCHANGED <<told, currentCall, ua, isRunning>>
    BY <1>24 DEF SendAnswer, At, kotlin, dart
  <2>2. h.call \in CallIds /\ (phase[h.call] = "incoming" => RingTold(h.call))
    BY <1>4, <1>6, <2>1 DEF CallOps, Handling
  <2>3. \A c \in CallIds :
           \/ phase'[c] = phase[c]
           \/ phase'[c] = "answered" /\ RingTold(c)
    BY <1>2, <2>1, <2>2
  <2> QED  BY <1>1, <2>1, <2>3, MildShort, MildStepKeepsRing, ShortScripts
<1>25. CASE Hangup(t)
  <2> DEFINE ops == <<UaEvent(h.call, "closed"), OnCall("destroy", h.call)>>
  <2>1. /\ h.op = "hangup" /\ Continue(t, ops)
        /\ phase' = [phase EXCEPT ![h.call] = IF @ = "gone" THEN @ ELSE "closing"]
        /\ UNCHANGED <<told, currentCall, ua, isRunning>>
    BY <1>25 DEF Hangup, At, kotlin, dart
  <2>2. h.call \in Reached(t) /\ h.call \in CallIds
    BY <1>4, <1>6, <2>1 DEF CallOps, Handling
  <2>3. "closed" \in Events \ {"incoming", "established"}
    BY DEF Events
  <2>4. ops \in Seq(Ops) /\ \A i \in 1 .. Len(ops) : Mild(ops[i], Reached(t))
    BY <1>10, <2>2, <2>3, MildShort, ShortScripts
  <2>5. \A c \in CallIds : phase'[c] = phase[c] \/ phase'[c] = "closing"
    BY <1>2, <2>1, <2>2
  <2> HIDE DEF ops
  <2> QED  BY <1>1, <2>1, <2>4, <2>5, MildStepKeepsRing
<1>26. CASE Destroy(t)
  <2>1. /\ h.op = "destroy" /\ Continue(t, <<>>)
        /\ phase' = [phase EXCEPT ![h.call] = "gone"]
        /\ UNCHANGED <<told, currentCall, ua, isRunning>>
    BY <1>26 DEF Destroy, At, kotlin, dart
  <2>2. \A c \in CallIds : phase'[c] = phase[c] \/ phase'[c] = "gone"
    BY <1>2, <2>1
  <2> QED  BY <1>1, <2>1, <2>2, MildShort, MildStepKeepsRing, ShortScripts
<1>27. CASE Hold(t)
  <2>1. h.op \in {"pause", "resume"} /\ Continue(t, <<>>)
        /\ UNCHANGED <<told, phase, currentCall, ua, isRunning>>
    BY <1>27 DEF Hold, At, kotlin, dart
  <2> QED  BY <1>13, <2>1
<1>28. CASE SetUa(t)
  <2>1. h.op \in {"noUa", "setUa"} /\ Continue(t, <<>>)
        /\ UNCHANGED <<told, phase, currentCall>>
    BY <1>28 DEF SetUa, At, baresip, dart
  <2>2. t # "re"
    BY <1>3, <1>8, <2>1 DEF OnMain
  <2> QED  BY <1>13, <2>1, <2>2
<1>29. CASE MediaStep(t)
  <2>1. h.op \in MediaKinds /\ UNCHANGED <<told, phase, currentCall, ua, isRunning>>
    BY <1>2, <1>29, MediaScript DEF kotlin, baresip, dart
  <2>2. PICK ops \in Seq(Ops) :
           Continue(t, ops) /\ \A i \in 1 .. Len(ops) : ops[i].op \in MediaKinds
    BY <1>2, <1>29, MediaScript
  <2>3. \A i \in 1 .. Len(ops) : Mild(ops[i], Reached(t))
    BY <2>2 DEF Mild, MediaKinds, TimerOps, CallOps
  <2>4. h.op \notin {"uaEvent", "sipCall", "sendInvite", "tell"}
    BY <2>1 DEF MediaKinds, TimerOps
  <2> QED  BY <1>12, <2>1, <2>2, <2>3, <2>4
<1> QED  BY <1>14, <1>15, <1>16, <1>17, <1>18, <1>19, <1>20, <1>21, <1>22, <1>23,
            <1>24, <1>25, <1>26, <1>27, <1>28, <1>29 DEF Step

LEMMA RingBegins == ASSUME Init  PROVE RingInv
<1>1. /\ todo["main"] = <<>> /\ todo["re"] = <<>> /\ \A t \in Threads : todo[t] = <<>>
      /\ \A c \in CallIds : phase[c] = "none" /\ told[c] = <<>>
      /\ currentCall = NoCall
  BY ThreadNames DEF Init
<1>2. UpAfterRing
  BY <1>1 DEF UpAfterRing
<1> QED  BY <1>1, <1>2, InitType, HasSmall DEF RingInv, RingFirst

LEMMA RingKept ==
    ASSUME RingInv, [Next]_vars
    PROVE  RingInv'
<1>1. TypeOK'
  BY NextType DEF RingInv
<1>2. CASE Next
  BY <1>1, <1>2, MethodKeepsRing, CallStepsKeepRing, ThreadKeepsRing DEF Next, MethodCalled
<1>3. CASE UNCHANGED vars
  <2>1. UNCHANGED <<ua, isRunning, currentCall, phase, told, todo>>
    BY <1>3 DEF vars, kotlin, baresip, dart
  <2> QED  BY <1>1, <2>1, RingStays
<1> QED  BY <1>2, <1>3

(* No call is told to be established before it was told to ring, for any   *)
(* number of calls, whichever way the platform thread and the baresip      *)
(* thread interleave.                                                      *)
THEOREM UpComesAfterRing == Spec => []UpAfterRing
<1>1. Init => RingInv
  BY RingBegins
<1>2. RingInv /\ [Next]_vars => RingInv'
  BY RingKept
<1>3. RingInv => UpAfterRing
  BY DEF RingInv
<1> QED  BY <1>1, <1>2, <1>3, PTL DEF Spec

-----------------------------------------------------------------------------
(* What is on its way to Dart.                                             *)

\* The events that a call can be told of, and what each is the answer to.
Tellable == {"Ring", "Up", "Paused", "Resuming", "Hangup"}
Causes(event) ==
    CASE event = "Ring" -> {"incoming", "outgoing"}
      [] event = "Up" -> {"established"}
      [] event = "Paused" -> {"update 1"}
      [] event = "Resuming" -> {"update 3"}
      [] event = "Hangup" -> {"closed", "closed busy"}

\* Operations on the way to tell that event of the call c.
Bringing(c, event) == (UNION {Handling(c, e) : e \in Causes(event)}) \union {Tell(c, event)}

\* The operations that may tell something, and those that a reaction is made of.
TellingKinds == {"uaEvent", "sipCall", "tell"}
Telling == {o \in Ops : o.op \in TellingKinds}
ReactionKinds == {"tell", "delist", "closeCurrent", "startRinging", "playRingBack",
                  "stopMediaPlayer"}

LEMMA BringingTells ==
    ASSUME NEW c \in CallIds, NEW event \in Tellable
    PROVE  /\ Bringing(c, event) \subseteq Telling
           /\ Bringing(c, event) \subseteq About(c)
           /\ \A o \in Ops : /\ o.op \in {"uaEvent", "sipCall"}
                                => ((o \in Bringing(c, event)) <=>
                                       ((o.call = c) /\ (o.event \in Causes(event))))
                             /\ o.op = "tell" => ((o \in Bringing(c, event)) <=>
                                                     ((o.call = c) /\ (o.event = event)))
<1>1. /\ Tell(c, event) \in Ops /\ Tell(c, event).op = "tell"
      /\ Tell(c, event).call = c /\ Tell(c, event).event = event
  BY OpTypes DEF Tell, Tellable
<1>2. \A o \in Ops : o.op = "tell" => (o = Tell(c, event) <=> o.call = c /\ o.event = event)
  <2>1. \A o \in Ops : o.op = "tell" => o = [op |-> "tell", call |-> o.call, event |-> o.event]
    BY DEF Ops
  <2> QED  BY <2>1 DEF Tell
<1>3. \A o \in Ops : o.op \in {"uaEvent", "sipCall"} => o # Tell(c, event)
  BY DEF Tell
<1>4. \A o : o \in UNION {Handling(c, e) : e \in Causes(event)} <=>
                /\ o \in Ops /\ o.op \in {"uaEvent", "sipCall"}
                /\ o.call = c /\ o.event \in Causes(event)
  BY DEF Handling
<1>5. \A o : o \in Bringing(c, event) <=>
                \/ /\ o \in Ops /\ o.op \in {"uaEvent", "sipCall"}
                   /\ o.call = c /\ o.event \in Causes(event)
                \/ o = Tell(c, event)
  <2> DEFINE U == UNION {Handling(c, e) : e \in Causes(event)}
  <2>1. \A o : o \in U <=> /\ o \in Ops /\ o.op \in {"uaEvent", "sipCall"}
                           /\ o.call = c /\ o.event \in Causes(event)
    BY <1>4
  <2>2. Bringing(c, event) = U \union {Tell(c, event)}
    BY DEF Bringing
  <2> HIDE DEF U
  <2> QED  BY ONLY <2>1, <2>2
<1>6. Bringing(c, event) \subseteq Telling /\ Bringing(c, event) \subseteq About(c)
  BY <1>1, <1>5 DEF Telling, TellingKinds, About, CallOps
<1>7. \A o \in Ops : o.op \in {"uaEvent", "sipCall"} =>
         (o \in Bringing(c, event) <=> o.call = c /\ o.event \in Causes(event))
  BY <1>3, <1>5
<1>8. \A o \in Ops : o.op = "tell" =>
         (o \in Bringing(c, event) <=> o.call = c /\ o.event = event)
  BY <1>2, <1>5
<1> QED  BY <1>6, <1>7, <1>8

(* A reaction tells at most one event, of the call that it is about: the   *)
(* one that its event causes.                                              *)
LEMMA ReactionTells ==
    ASSUME NEW c \in CallIds, NEW e \in Events
    PROVE  /\ \A i \in 1 .. Len(Reaction(c, e)) : Reaction(c, e)[i].op \in ReactionKinds
           /\ \A d \in CallIds, event \in Tellable :
                 Has(Reaction(c, e), Bringing(d, event)) <=> d = c /\ e \in Causes(event)
           /\ Once(Reaction(c, e), Telling)
<1> DEFINE r == Reaction(c, e)
<1>1. \A k \in {"startRinging", "playRingBack", "stopMediaPlayer"} :
         Do(k).op \in ReactionKinds /\ Do(k) \notin Telling
  BY DEF Do, ReactionKinds, Telling, TellingKinds
<1>2. OnCall("delist", c).op \in ReactionKinds /\ OnCall("delist", c) \notin Telling
  BY DEF OnCall, ReactionKinds, Telling, TellingKinds
<1>3. \A b \in BOOLEAN : LET o == [op |-> "closeCurrent", busy |-> b] IN
         o.op \in ReactionKinds /\ o \notin Telling
  BY DEF ReactionKinds, Telling, TellingKinds
<1>4. \A event \in Tellable : Tell(c, event) \in Ops /\ Tell(c, event).op \in ReactionKinds
  BY OpTypes DEF Tell, ReactionKinds, Tellable
<1>5. \A event, x \in Tellable, d \in CallIds :
         Tell(c, event) \in Bringing(d, x) <=> d = c /\ x = event
  BY <1>4, BringingTells DEF Tell
<1>6. \A d \in CallIds, x \in Tellable : Bringing(d, x) \subseteq Telling
  BY BringingTells
<1>7. \A event \in Tellable : e \in Causes(event) =>
         \A x \in Tellable : e \in Causes(x) <=> x = event
  BY DEF Tellable, Causes
<1>8. ASSUME NEW event \in Tellable, e \in Causes(event),
             NEW a, a \notin Telling, a.op \in ReactionKinds,
             NEW b, b \notin Telling, b.op \in ReactionKinds,
             \/ r = <<Tell(c, event)>> \/ r = <<a, Tell(c, event)>>
             \/ r = <<Tell(c, event), a, b>>
      PROVE  /\ \A i \in 1 .. Len(r) : r[i].op \in ReactionKinds
             /\ \A d \in CallIds, x \in Tellable :
                   Has(r, Bringing(d, x)) <=> d = c /\ e \in Causes(x)
             /\ Once(r, Telling)
  <2> DEFINE o == Tell(c, event)
  <2>1. o.op \in ReactionKinds
    BY <1>4
  <2>2. \A d \in CallIds, x \in Tellable : o \in Bringing(d, x) <=> d = c /\ e \in Causes(x)
    BY <1>5, <1>7, <1>8
  <2>3. r = <<o>> \/ r = <<a, o>> \/ r = <<o, a, b>>
    BY <1>8
  <2> HIDE DEF o, r
  <2>4. Once(r, Telling)
    BY <1>8, <2>3, OnceSmall
  <2>5. \A S : S \subseteq Telling => (Has(r, S) <=> o \in S)
    <3> SUFFICES ASSUME NEW S, S \subseteq Telling  PROVE Has(r, S) <=> o \in S
      OBVIOUS
    <3>1. a \notin S /\ b \notin S
      BY <1>8
    <3>2. /\ Has(<<o>>, S) <=> o \in S
          /\ Has(<<a, o>>, S) <=> a \in S \/ o \in S
          /\ Has(<<o, a, b>>, S) <=> o \in S \/ a \in S \/ b \in S
      BY HasSmall, HasThree
    <3> QED  BY ONLY <2>3, <3>1, <3>2
  <2>6. \A i \in 1 .. Len(r) : r[i].op \in ReactionKinds
    <3>1. CASE r = <<o>>
      BY <2>1, <3>1
    <3>2. CASE r = <<a, o>>
      BY <1>8, <2>1, <3>2
    <3>3. CASE r = <<o, a, b>>
      BY <1>8, <2>1, <3>3
    <3> QED  BY <2>3, <3>1, <3>2, <3>3
  <2> QED  BY <1>6, <2>2, <2>4, <2>5, <2>6
<1>9. ASSUME NEW a, a \notin Telling, a.op \in ReactionKinds, r = <<>> \/ r = <<a>>,
             \A event \in Tellable : e \notin Causes(event)
      PROVE  /\ \A i \in 1 .. Len(r) : r[i].op \in ReactionKinds
             /\ \A d \in CallIds, x \in Tellable :
                   Has(r, Bringing(d, x)) <=> d = c /\ e \in Causes(x)
             /\ Once(r, Telling)
  <2> HIDE DEF r
  <2>1. Once(r, Telling)
    BY <1>9, OnceSmall
  <2>3. \A S : ~ Has(<<>>, S) /\ (Has(<<a>>, S) <=> a \in S)
    BY HasSmall
  <2>4. \A S : S \subseteq Telling => ~ Has(r, S)
    BY <1>9, <2>3
  <2>2. \A i \in 1 .. Len(r) : r[i].op \in ReactionKinds
    BY <1>9
  <2> QED  BY <1>6, <1>9, <2>1, <2>2, <2>4
<1>10. CASE e = "incoming"
  <2>1. r = <<Do("startRinging"), Tell(c, "Ring")>>
    BY <1>10 DEF Reaction
  <2>2. "Ring" \in Tellable /\ e \in Causes("Ring")
    BY <1>10 DEF Tellable, Causes
  <2> QED  BY <1>1, <1>8, <2>1, <2>2
<1>11. CASE e = "outgoing"
  <2>1. r = <<Tell(c, "Ring")>>
    BY <1>11 DEF Reaction
  <2>2. "Ring" \in Tellable /\ e \in Causes("Ring")
    BY <1>11 DEF Tellable, Causes
  <2> QED  BY <1>1, <1>8, <2>1, <2>2
<1>12. CASE e \in {"ringing", "progress", "early media", "update 0", "update 2", "other"}
  <2>1. r = <<>> \/ r = <<Do("playRingBack")>> \/ r = <<Do("stopMediaPlayer")>>
    BY <1>12 DEF Reaction, UpdateTold
  <2>2. \A event \in Tellable : e \notin Causes(event)
    BY <1>12 DEF Tellable, Causes
  <2> QED  BY <1>1, <1>9, <2>1, <2>2
<1>13. CASE e \in {"update 1", "update 3", "established"}
  <2>1. PICK event \in {"Paused", "Resuming", "Up"} : r = <<Tell(c, event)>> /\ e \in Causes(event)
    BY <1>13 DEF Reaction, UpdateTold, Causes
  <2>2. event \in Tellable
    BY DEF Tellable
  <2> QED  BY <1>1, <1>8, <2>1, <2>2
<1>14. CASE e \in {"closed", "closed busy"}
  <2> DEFINE x == [op |-> "closeCurrent", busy |-> e = "closed busy"]
  <2>1. r = <<Tell(c, "Hangup"), OnCall("delist", c), x>>
    BY <1>14 DEF Reaction, Ending
  <2>2. "Hangup" \in Tellable /\ e \in Causes("Hangup")
    BY <1>14 DEF Tellable, Causes
  <2>3. x.op \in ReactionKinds /\ x \notin Telling
    BY <1>3
  <2> HIDE DEF x
  <2>4. PICK a, b : /\ a \notin Telling /\ a.op \in ReactionKinds
                    /\ b \notin Telling /\ b.op \in ReactionKinds
                    /\ r = <<Tell(c, "Hangup"), a, b>>
    BY <1>2, <2>1, <2>3
  <2> QED  BY <1>8, <2>2, <2>4
<1> QED  BY <1>10, <1>11, <1>12, <1>13, <1>14 DEF Events

(* The steps that handle no event, tell nothing and call for nothing of    *)
(* that kind.                                                              *)
PlainStep(t) ==
    \/ Delist(t) \/ CloseCurrent(t) \/ NoCurrent(t)
    \/ SendInvite(t) \/ SetCurrent(t) \/ WithCurrent(t)
    \/ SendAnswer(t) \/ Destroy(t) \/ Hold(t) \/ SetUa(t) \/ MediaStep(t)

PlainScript(t, ops) ==
    /\ todo[t] # <<>> /\ Continue(t, ops)
    /\ Head(todo[t]).op \notin TellingKinds \union {"answer", "hangup"}
    /\ \A i \in 1 .. Len(ops) :
          /\ ops[i].op \notin TellingKinds \union {"sendInvite", "sendAnswer", "destroy",
                                                   "noUa", "setUa", "withCurrent"}
          /\ ops[i].op \notin {"startRinging", "playRingBack", "closeCurrent"}
          /\ ops[i].op \in {"noCurrent", "playBusy"} => Head(todo[t]).op = "closeCurrent"
          /\ ops[i].op = "setCurrent" => Head(todo[t]).op = "sendInvite"
          /\ ops[i].op \in {"newTimer", "schedule", "newPlayer", "startPlayer"}
                => ops[i] \in CalledBy(Head(todo[t]))
          /\ ops[i].op \in {"answer", "hangup", "pause", "resume"}
                => Head(todo[t]).op = "withCurrent" /\ ops[i].op = Head(todo[t]).do
    /\ UNCHANGED <<isRunning, peerHolds, told, holdTold>>

LEMMA PlainSteps ==
    ASSUME TypeOK, NEW t \in Threads, PlainStep(t)
    PROVE  \E ops \in Seq(Ops) : PlainScript(t, ops)
<1>1. todo[t] # <<>>
  BY MediaScript DEF TypeOK, PlainStep, At, Delist, CloseCurrent, NoCurrent, SendInvite,
         SetCurrent, WithCurrent, SendAnswer, Destroy, Hold, SetUa
<1> DEFINE h == Head(todo[t])
           Fit(o) ==
              /\ o.op \notin TellingKinds \union {"sendInvite", "sendAnswer", "destroy",
                                                  "noUa", "setUa", "withCurrent"}
              /\ o.op \notin {"startRinging", "playRingBack", "closeCurrent"}
              /\ o.op \in {"noCurrent", "playBusy"} => h.op = "closeCurrent"
              /\ o.op = "setCurrent" => h.op = "sendInvite"
              /\ o.op \in {"newTimer", "schedule", "newPlayer", "startPlayer"}
                    => o \in CalledBy(h)
              /\ o.op \in {"answer", "hangup", "pause", "resume"}
                    => h.op = "withCurrent" /\ o.op = h.do
<1>2. h \in Ops
  BY <1>1, HeadTailProperties DEF TypeOK
<1>3. h.op \in CallOps => h.call \in CallIds
  BY <1>2, OpFields
<1>4. h.op \notin TellingKinds \union {"answer", "hangup"}
  BY MediaScript DEF TypeOK, PlainStep, At, Delist, CloseCurrent, NoCurrent, SendInvite,
         SetCurrent, WithCurrent, SendAnswer, Destroy, Hold, SetUa, TellingKinds,
         MediaKinds, TimerOps
<1>5. UNCHANGED <<isRunning, peerHolds, told, holdTold>>
  BY DEF PlainStep, Delist, CloseCurrent, NoCurrent, SendInvite, SetCurrent,
         WithCurrent, SendAnswer, Destroy, Hold, SetUa, MediaStep, kotlin, baresip, dart
<1>6. ASSUME NEW ops \in Seq(Ops), Continue(t, ops), \A i \in 1 .. Len(ops) : Fit(ops[i])
      PROVE  \E s \in Seq(Ops) : PlainScript(t, s)
  BY <1>1, <1>4, <1>5, <1>6 DEF PlainScript
<1>7. ASSUME Continue(t, <<>>)  PROVE \E s \in Seq(Ops) : PlainScript(t, s)
  <2>1. <<>> \in Seq(Ops) /\ \A i \in 1 .. Len(<<>>) : Fit(<<>>[i])
    BY ShortScripts
  <2> HIDE DEF Fit
  <2> QED  BY <1>6, <1>7, <2>1
<1>8. ASSUME NEW o \in Ops, Fit(o), Continue(t, <<o>>)
      PROVE  \E s \in Seq(Ops) : PlainScript(t, s)
  <2>1. <<o>> \in Seq(Ops) /\ \A i \in 1 .. Len(<<o>>) : <<o>>[i] = o
    BY ShortScripts
  <2> HIDE DEF Fit
  <2> QED  BY <1>6, <1>8, <2>1
<1>9. CASE Delist(t) \/ NoCurrent(t) \/ SetCurrent(t) \/ SendAnswer(t) \/ Destroy(t)
           \/ Hold(t) \/ SetUa(t)
  BY <1>7, <1>9 DEF Delist, NoCurrent, SetCurrent, SendAnswer, Destroy, Hold, SetUa
<1>10. CASE CloseCurrent(t)
  <2> DEFINE x == IF h.busy THEN Do("playBusy") ELSE Do("resetIfCurrent")
             ops == <<Do("stopRinging"), Do("stopMediaPlayer"), x, Do("noCurrent")>>
  <2>0. h.op = "closeCurrent"
    BY <1>10 DEF CloseCurrent, At
  <2>1. \A k \in {"stopRinging", "stopMediaPlayer", "playBusy", "resetIfCurrent", "noCurrent"} :
           Do(k) \in Ops /\ Fit(Do(k))
    BY <2>0, OpTypes DEF Do, TellingKinds
  <2>2. x \in {Do("playBusy"), Do("resetIfCurrent")}
    OBVIOUS
  <2>3. Continue(t, ops) \/ Continue(t, <<>>)
    BY <1>10 DEF CloseCurrent
  <2> HIDE DEF x, Fit
  <2>4. ops \in Seq(Ops) /\ \A i \in 1 .. Len(ops) : Fit(ops[i])
    BY <2>1, <2>2, ShortScripts
  <2> HIDE DEF ops
  <2> QED  BY <1>6, <1>7, <2>3, <2>4
<1>11. CASE SendInvite(t)
  <2>1. \E k \in {"setCurrent", "delist"} : Continue(t, <<OnCall(k, h.call)>>)
    BY <1>11 DEF SendInvite
  <2>2. h.call \in CallIds /\ h.op = "sendInvite"
    BY <1>3, <1>11 DEF SendInvite, At, CallOps
  <2>3. \A k \in {"setCurrent", "delist"} : OnCall(k, h.call) \in Ops /\ Fit(OnCall(k, h.call))
    BY <2>2, OpTypes DEF OnCall, TellingKinds
  <2> HIDE DEF Fit
  <2> QED  BY <1>8, <2>1, <2>3
<1>12. CASE WithCurrent(t)
  <2>1. /\ h.op = "withCurrent"
        /\ Continue(t, <<>>)
              \/ (currentCall # NoCall /\ Continue(t, <<OnCall(h.do, currentCall.callp)>>))
    BY <1>12 DEF WithCurrent, At
  <2>2. h.do \in {"answer", "hangup", "pause", "resume"}
    BY <1>2, <2>1, OpFields
  <2>3. ASSUME currentCall # NoCall
        PROVE  OnCall(h.do, currentCall.callp) \in Ops /\ Fit(OnCall(h.do, currentCall.callp))
    <3>1. currentCall.callp \in CallIds
      BY <2>3 DEF TypeOK, SipCalls
    <3> QED  BY <2>1, <2>2, <3>1, OpTypes DEF OnCall, TellingKinds
  <2> HIDE DEF Fit
  <2> QED  BY <1>7, <1>8, <2>1, <2>3
<1>13. CASE MediaStep(t)
  <2>1. PICK ops \in Seq(Ops) :
           /\ Continue(t, ops)
           /\ \A i \in 1 .. Len(ops) : ops[i] \in CalledBy(h) /\ ops[i].op \in MediaKinds
    BY <1>13, MediaScript DEF TypeOK
  <2>2. \A o : o \in CalledBy(h) /\ o.op \in MediaKinds => Fit(o)
    BY DEF CalledBy, MediaKinds, TimerOps, TellingKinds
  <2> HIDE DEF Fit
  <2> QED  BY <1>6, <2>1, <2>2
<1> QED  BY <1>9, <1>10, <1>11, <1>12, <1>13 DEF PlainStep

(* What is on its way to Dart comes of a peer, an outgoing call or hanging *)
(* up, and is lost where uaEvent ignores it: the plugin stopped or the     *)
(* account is gone.                                                        *)
LEMMA BringingStep ==
    ASSUME TypeOK, NEW t \in Threads, Step(t), NEW c \in CallIds, NEW event \in Tellable
    PROVE  /\ todo[t] # <<>> /\ Head(todo[t]) \in Ops
           /\ \A r \in Threads \ {t} : todo'[r] = todo[r]
           /\ Has(todo[t], Bringing(c, event)) =>
                 \/ Has(todo'[t], Bringing(c, event))
                 \/ TellDart(t) /\ Head(todo[t]).call = c /\ Head(todo[t]).event = event
                 \/ HandleUaEvent(t) /\ ~ (isRunning /\ ua)
           /\ Has(todo'[t], Bringing(c, event)) =>
                 \/ Has(todo[t], Bringing(c, event))
                 \/ Hangup(t) /\ Head(todo[t]).call = c /\ event = "Hangup"
<1> DEFINE h == Head(todo[t])
           B == Bringing(c, event)
           rest == Tail(todo[t])
<1>0. /\ todo \in [Threads -> Seq(Ops)]
      /\ \A o \in Ops : /\ o.op \in {"uaEvent", "sipCall"} =>
                              (o \in B <=> o.call = c /\ o.event \in Causes(event))
                        /\ o.op = "tell" => (o \in B <=> o.call = c /\ o.event = event)
                        /\ o \in B => o.op \in TellingKinds
  BY BringingTells DEF TypeOK, Telling
<1> HIDE DEF B
<1>1. ASSUME todo[t] # <<>>, NEW ops \in Seq(Ops), Continue(t, ops)
      PROVE  /\ h \in Ops
             /\ Has(todo'[t], B) <=> Has(ops, B) \/ Has(rest, B)
             /\ Has(todo[t], B) <=> h \in B \/ Has(rest, B)
             /\ \A r \in Threads \ {t} : todo'[r] = todo[r]
  BY <1>0, <1>1, ScriptsAfterStep
<1>2. ASSUME todo[t] # <<>>  PROVE h \in Ops
  BY <1>0, <1>2, HeadTailProperties
<1>3. CASE HandleUaEvent(t)
  <2> DEFINE o == [op |-> "sipCall", call |-> h.call, event |-> h.event]
  <2>1. todo[t] # <<>> /\ h.op = "uaEvent"
    BY <1>3 DEF HandleUaEvent, At
  <2>2. h.call \in CallIds /\ h.event \in Events
    BY <1>2, <2>1, OpFields DEF CallOps
  <2>3. o \in Ops /\ (o \in B <=> h \in B)
    BY <1>0, <1>2, <2>1, <2>2, OpTypes
  <2>4. CASE isRunning /\ ua
    <3>1. Continue(t, <<o>>)
      BY <1>3, <2>4 DEF HandleUaEvent
    <3> HIDE DEF o
    <3>2. <<o>> \in Seq(Ops) /\ (Has(<<o>>, B) <=> o \in B)
      BY <2>3, ShortScripts, HasSmall
    <3> QED  BY <1>1, <2>1, <2>3, <3>1, <3>2 DEF B
  <2>5. CASE ~ (isRunning /\ ua)
    <3>1. Continue(t, <<>>) /\ <<>> \in Seq(Ops) /\ ~ Has(<<>>, B)
      BY <1>3, <2>5, ShortScripts, HasSmall DEF HandleUaEvent
    <3> QED  BY <1>1, <1>3, <2>1, <2>5, <3>1 DEF B
  <2> QED  BY <2>4, <2>5
<1>4. CASE SipCall(t)
  <2>1. todo[t] # <<>> /\ h.op = "sipCall" /\ Continue(t, Reaction(h.call, h.event))
    BY <1>4 DEF SipCall, At
  <2>2. h.call \in CallIds /\ h.event \in Events
    BY <1>2, <2>1, OpFields DEF CallOps
  <2>3. /\ Reaction(h.call, h.event) \in Seq(Ops)
        /\ Has(Reaction(h.call, h.event), B) <=> h \in B
    <3>1. Has(Reaction(h.call, h.event), B) <=> h.call = c /\ h.event \in Causes(event)
      BY <2>2, ReactionTells DEF B
    <3> QED  BY <1>0, <1>2, <2>1, <2>2, <3>1, ReactionType
  <2> QED  BY <1>1, <2>1, <2>3 DEF B
<1>5. CASE TellDart(t)
  <2>1. todo[t] # <<>> /\ h.op = "tell" /\ Continue(t, <<>>) /\ <<>> \in Seq(Ops)
    BY <1>5, ShortScripts DEF TellDart, At
  <2>2. ~ Has(<<>>, B) /\ (h \in B <=> h.call = c /\ h.event = event)
    BY <1>0, <1>2, <2>1, HasSmall
  <2> QED  BY <1>1, <1>5, <2>1, <2>2 DEF B
<1>6. CASE Hangup(t)
  <2> DEFINE a == UaEvent(h.call, "closed")
             b == OnCall("destroy", h.call)
  <2>1. todo[t] # <<>> /\ h.op = "hangup" /\ Continue(t, <<a, b>>)
    BY <1>6 DEF Hangup, At
  <2>2. h.call \in CallIds /\ "closed" \in Events
    BY <1>2, <2>1, OpFields DEF CallOps, Events
  <2>3. a \in Ops /\ b \in Ops /\ h \notin B /\ b \notin B
    BY <1>0, <1>2, <2>1, <2>2, OpTypes DEF OnCall, TellingKinds
  <2>4. a \in B => h.call = c /\ event = "Hangup"
    <3>1. "closed" \in Causes(event) => event = "Hangup"
      BY DEF Causes, Tellable
    <3> QED  BY <1>0, <2>3, <3>1 DEF UaEvent
  <2> HIDE DEF a, b
  <2>5. <<a, b>> \in Seq(Ops) /\ (Has(<<a, b>>, B) <=> a \in B)
    BY <2>3, ShortScripts, HasSmall
  <2> QED  BY <1>1, <1>6, <2>1, <2>3, <2>4, <2>5 DEF B
<1>7. CASE Answer(t)
  <2> DEFINE a == UaEvent(h.call, "other")
             b == OnCall("sendAnswer", h.call)
  <2>1. todo[t] # <<>> /\ h.op = "answer" /\ (Continue(t, <<a, b>>) \/ Continue(t, <<>>))
    BY <1>7 DEF Answer, At
  <2>2. h.call \in CallIds /\ "other" \in Events
    BY <1>2, <2>1, OpFields DEF CallOps, Events
  <2>3. a \in Ops /\ b \in Ops /\ h \notin B /\ b \notin B
    BY <1>0, <1>2, <2>1, <2>2, OpTypes DEF OnCall, TellingKinds
  <2>4. a \notin B
    <3>1. "other" \notin Causes(event)
      BY DEF Causes, Tellable
    <3> QED  BY <1>0, <2>3, <3>1 DEF UaEvent
  <2> HIDE DEF a, b
  <2>5. /\ <<a, b>> \in Seq(Ops) /\ ~ Has(<<a, b>>, B)
        /\ <<>> \in Seq(Ops) /\ ~ Has(<<>>, B)
    BY <2>3, <2>4, ShortScripts, HasSmall
  <2> QED  BY <1>1, <2>1, <2>3, <2>5 DEF B
<1>8. CASE PlainStep(t)
  <2>1. PICK ops \in Seq(Ops) : PlainScript(t, ops)
    BY <1>8, PlainSteps
  <2>2. todo[t] # <<>> /\ Continue(t, ops) /\ h \notin B
    BY <1>0, <1>2, <2>1 DEF PlainScript
  <2>3. ~ Has(ops, B)
    <3>1. \A i \in 1 .. Len(ops) : ops[i] \in Ops /\ ops[i].op \notin TellingKinds
      BY <2>1, ElementOfSeq DEF PlainScript
    <3> QED  BY <1>0, <3>1 DEF Has
  <2> QED  BY <1>1, <2>2, <2>3 DEF B
<1> QED  BY <1>3, <1>4, <1>5, <1>6, <1>7, <1>8 DEF Step, PlainStep

(* What a step calls for: hanging up destroys its call, answering sends    *)
(* the answer, and a method does what it was called for.                   *)
CalledFor(t, o) ==
    /\ o.op \notin {"sendInvite", "noUa", "setUa", "withCurrent"}
    /\ o.op = "destroy" => Hangup(t) /\ o.call = Head(todo[t]).call
    /\ o.op = "sendAnswer" => Answer(t) /\ o.call = Head(todo[t]).call
    /\ o.op \in {"answer", "hangup", "pause", "resume"}
          => Head(todo[t]).op = "withCurrent" /\ o.op = Head(todo[t]).do

LEMMA StepCallsFor ==
    ASSUME TypeOK, NEW t \in Threads, Step(t)
    PROVE  \E ops \in Seq(Ops) :
              /\ todo[t] # <<>> /\ Continue(t, ops)
              /\ \A i \in 1 .. Len(ops) : CalledFor(t, ops[i])
<1> DEFINE h == Head(todo[t])
<1>1. todo[t] # <<>> => h \in Ops
  BY HeadTailProperties DEF TypeOK
<1>2. <<>> \in Seq(Ops) /\ \A i \in 1 .. Len(<<>>) : CalledFor(t, <<>>[i])
  BY ShortScripts
<1>3. CASE HandleUaEvent(t)
  <2> DEFINE o == [op |-> "sipCall", call |-> h.call, event |-> h.event]
  <2>1. /\ todo[t] # <<>> /\ h.op = "uaEvent"
        /\ Continue(t, <<o>>) \/ Continue(t, <<>>)
    BY <1>3 DEF HandleUaEvent, At
  <2>2. h.call \in CallIds /\ h.event \in Events
    BY <1>1, <2>1, OpFields DEF CallOps
  <2>3. o \in Ops /\ CalledFor(t, o)
    BY <2>2, OpTypes DEF CalledFor
  <2> HIDE DEF o
  <2>4. <<o>> \in Seq(Ops) /\ \A i \in 1 .. Len(<<o>>) : CalledFor(t, <<o>>[i])
    BY <2>3, ShortScripts
  <2> QED  BY <1>2, <2>1, <2>4
<1>4. CASE SipCall(t)
  <2>1. todo[t] # <<>> /\ h.op = "sipCall" /\ Continue(t, Reaction(h.call, h.event))
    BY <1>4 DEF SipCall, At
  <2>2. h.call \in CallIds /\ h.event \in Events
    BY <1>1, <2>1, OpFields DEF CallOps
  <2>3. \A o : o.op \in ReactionKinds => CalledFor(t, o)
    BY DEF ReactionKinds, CalledFor
  <2> QED  BY <2>1, <2>2, <2>3, ReactionTells, ReactionType
<1>5. CASE TellDart(t)
  BY <1>2, <1>5 DEF TellDart, At
<1>6. CASE Hangup(t)
  <2> DEFINE a == UaEvent(h.call, "closed")
             b == OnCall("destroy", h.call)
  <2>1. todo[t] # <<>> /\ h.op = "hangup" /\ Continue(t, <<a, b>>)
    BY <1>6 DEF Hangup, At
  <2>2. h.call \in CallIds /\ "closed" \in Events
    BY <1>1, <2>1, OpFields DEF CallOps, Events
  <2>3. a \in Ops /\ b \in Ops /\ CalledFor(t, a) /\ CalledFor(t, b)
    BY <1>6, <2>2, OpTypes DEF CalledFor, UaEvent, OnCall
  <2> HIDE DEF a, b
  <2>4. <<a, b>> \in Seq(Ops) /\ \A i \in 1 .. Len(<<a, b>>) : CalledFor(t, <<a, b>>[i])
    BY <2>3, ShortScripts
  <2> QED  BY <2>1, <2>4
<1>7. CASE Answer(t)
  <2> DEFINE a == UaEvent(h.call, "other")
             b == OnCall("sendAnswer", h.call)
  <2>1. todo[t] # <<>> /\ h.op = "answer" /\ (Continue(t, <<a, b>>) \/ Continue(t, <<>>))
    BY <1>7 DEF Answer, At
  <2>2. h.call \in CallIds /\ "other" \in Events
    BY <1>1, <2>1, OpFields DEF CallOps, Events
  <2>3. a \in Ops /\ b \in Ops /\ CalledFor(t, a) /\ CalledFor(t, b)
    BY <1>7, <2>2, OpTypes DEF CalledFor, UaEvent, OnCall
  <2> HIDE DEF a, b
  <2>4. <<a, b>> \in Seq(Ops) /\ \A i \in 1 .. Len(<<a, b>>) : CalledFor(t, <<a, b>>[i])
    BY <2>3, ShortScripts
  <2> QED  BY <1>2, <2>1, <2>4
<1>8. CASE PlainStep(t)
  <2>1. PICK ops \in Seq(Ops) : PlainScript(t, ops)
    BY <1>8, PlainSteps
  <2>2. \A i \in 1 .. Len(ops) : CalledFor(t, ops[i])
    BY <2>1 DEF PlainScript, CalledFor
  <2> QED  BY <2>1, <2>2 DEF PlainScript
<1> QED  BY <1>3, <1>4, <1>5, <1>6, <1>7, <1>8 DEF Step, PlainStep

(* Handlers of a call that begins and of what a peer does.                 *)
CallScript(d, e, o, t) ==
    /\ Start(t, <<UaEvent(d, e)>>) \/ Start(t, <<UaEvent(d, e), o>>)
    /\ \/ t = "main" /\ Call(d) /\ e = "outgoing" /\ o = Invite(d)
       \/ /\ t = "re" /\ e # "outgoing"
          /\ \/ o.op = "noCurrent" /\ Start(t, <<UaEvent(d, e)>>)
             \/ Close(d) /\ e \in {"closed", "closed busy"} /\ o = OnCall("destroy", d)
                   /\ Start(t, <<UaEvent(d, e), o>>)
          /\ e = "incoming" => Incoming(d)
          /\ e = "established" => Established(d)
          /\ e \in {"ringing", "progress"} => Progress(d)
          /\ e \in {"closed", "closed busy"} => Close(d)
          /\ e \in {"update 1", "update 3"} =>
                /\ PeerUpdate(d)
                /\ peerHolds' = [peerHolds EXCEPT ![d] = e \in {"update 0", "update 1"}]
          /\ e = "update 0" => "inactive" \in Peer
          /\ e = "update 2" => "recvonly" \in Peer
    /\ UNCHANGED <<ua, isRunning, currentCall, told, holdTold, late, media>>
    /\ e \notin {"update 0", "update 1", "update 2", "update 3"} => UNCHANGED peerHolds
    /\ e \notin {"incoming", "outgoing", "established", "closed", "closed busy"}
          => UNCHANGED phase

LEMMA CallStepsStart ==
    ASSUME NEW d \in CallIds, CallSteps(d)
    PROVE  \E e \in Events, o \in Ops, t \in Threads : CallScript(d, e, o, t)
<1>1. Do("noCurrent") \in Ops /\ Do("noCurrent").op = "noCurrent"
  BY OpTypes DEF Do
<1>2. Invite(d) \in Ops /\ OnCall("destroy", d) \in Ops
  BY OpTypes DEF Invite
<1>3. \A e \in {"incoming", "outgoing", "ringing", "progress", "early media", "update 0",
                "update 1", "update 2", "update 3", "established", "closed", "closed busy",
                "other"} :
         e \in Events
  BY DEF Events
<1>4. UNCHANGED <<ua, isRunning, currentCall, told, holdTold, late, media>>
  BY DEF CallSteps, Call, Incoming, Progress, Established, PeerUpdate, OtherEvent, Close,
         kotlin, baresip, dart
<1>5. CASE Call(d)
  BY <1>2, <1>3, <1>4, <1>5, ThreadNames DEF Call, Invite, CallScript
<1>6. CASE Incoming(d)
  BY <1>1, <1>3, <1>4, <1>6, ThreadNames DEF Incoming, Report, CallScript
<1>7. CASE Progress(d)
  BY <1>1, <1>3, <1>4, <1>7, ThreadNames DEF Progress, Report, baresip, CallScript
<1>8. CASE Established(d)
  BY <1>1, <1>3, <1>4, <1>8, ThreadNames DEF Established, Report, CallScript
<1>9. CASE PeerUpdate(d)
  <2>1. PICK e \in {"update 0", "update 1", "update 2", "update 3"} :
           /\ e = "update 0" => "inactive" \in Peer
           /\ e = "update 2" => "recvonly" \in Peer
           /\ Report(d, e)
           /\ peerHolds' = [peerHolds EXCEPT ![d] = e \in {"update 0", "update 1"}]
    BY <1>9 DEF PeerUpdate
  <2>2. e \in Events /\ UNCHANGED phase
    BY <1>3, <1>9 DEF PeerUpdate
  <2>3. CallScript(d, e, Do("noCurrent"), "re")
    BY <1>1, <1>4, <1>9, <2>1, <2>2 DEF Report, CallScript
  <2> QED  BY <1>1, <2>2, <2>3, ThreadNames
<1>10. CASE OtherEvent(d)
  BY <1>1, <1>3, <1>4, <1>10, ThreadNames DEF OtherEvent, Report, baresip, CallScript
<1>11. CASE Close(d)
  BY <1>2, <1>3, <1>4, <1>11, ThreadNames DEF Close, CallScript
<1> QED  BY <1>5, <1>6, <1>7, <1>8, <1>9, <1>10, <1>11 DEF CallSteps

-----------------------------------------------------------------------------
(* While no method gives the account up, it is there.                      *)

AccountStays == {"unregister", "init"} \cap Methods = {}
SettingUa == {o \in Ops : o.op \in {"noUa", "setUa"}}
AccountInv == TypeOK /\ ua /\ \A t \in Threads : ~ Has(todo[t], SettingUa)

LEMMA AccountKept ==
    ASSUME AccountStays, AccountInv, [Next]_vars
    PROVE  AccountInv'
<1>1. TypeOK' /\ todo \in [Threads -> Seq(Ops)] /\ SettingUa' = SettingUa
  BY NextType DEF AccountInv, TypeOK, SettingUa
<1>2. ASSUME NEW t \in Threads, NEW ops \in Seq(Ops), Start(t, ops), ~ Has(ops, SettingUa),
             ua' = ua
      PROVE  AccountInv'
  <2>1. \A r \in Threads : ~ Has(todo'[r], SettingUa)
    BY <1>1, <1>2, ScriptsAfterStart DEF AccountInv
  <2> QED  BY <1>1, <1>2, <2>1 DEF AccountInv
<1>3. CASE MethodCalled
  <2>1. PICK ops \in Seq(Ops) : MethodScript(ops)
    BY <1>3, MethodScripts
  <2>2. ~ Has(ops, SettingUa)
    BY <2>1 DEF MethodScript, AccountStays, Has, SettingUa
  <2> QED  BY <1>2, <2>1, <2>2, ThreadNames DEF MethodScript
<1>4. CASE \E c \in CallIds : CallSteps(c)
  <2>1. PICK d \in CallIds : CallSteps(d)
    BY <1>4
  <2>0. PICK e \in Events, o \in Ops, t \in Threads : CallScript(d, e, o, t)
    BY <2>1, CallStepsStart
  <2>2. /\ Start(t, <<UaEvent(d, e)>>) \/ Start(t, <<UaEvent(d, e), o>>)
        /\ o \in {Invite(d), OnCall("destroy", d)} \/ o.op = "noCurrent"
        /\ ua' = ua
    BY <2>0 DEF CallScript
  <2>3. UaEvent(d, e) \in Ops /\ UaEvent(d, e) \notin SettingUa /\ o \notin SettingUa
    <3>1. UaEvent(d, e) \in Ops /\ UaEvent(d, e).op = "uaEvent"
      BY OpTypes DEF UaEvent
    <3>2. o.op \in {"sendInvite", "destroy", "noCurrent"}
      BY <2>2 DEF Invite, OnCall
    <3> QED  BY <3>1, <3>2 DEF SettingUa
  <2>4. /\ <<UaEvent(d, e)>> \in Seq(Ops) /\ <<UaEvent(d, e), o>> \in Seq(Ops)
        /\ ~ Has(<<UaEvent(d, e)>>, SettingUa) /\ ~ Has(<<UaEvent(d, e), o>>, SettingUa)
    BY <2>3, ShortScripts, HasSmall
  <2> QED  BY <1>2, <2>2, <2>4
<1>5. ASSUME NEW t \in Threads, Step(t)  PROVE AccountInv'
  <2>1. PICK ops \in Seq(Ops) : /\ todo[t] # <<>> /\ Continue(t, ops)
                                /\ \A i \in 1 .. Len(ops) : CalledFor(t, ops[i])
    BY <1>5, StepCallsFor DEF AccountInv
  <2>2. ~ Has(ops, SettingUa)
    BY <2>1 DEF CalledFor, Has, SettingUa
  <2>3. /\ Head(todo[t]) \in Ops /\ Head(todo[t]) \notin SettingUa
        /\ \A r \in Threads : ~ Has(todo'[r], SettingUa)
    BY <1>1, <2>1, <2>2, ScriptsAfterStep DEF AccountInv
  <2>4. ~ SetUa(t)
    BY <2>3 DEF SetUa, At, SettingUa
  <2>5. ua' = ua
    BY <1>5, <2>4 DEF Step, HandleUaEvent, SipCall, TellDart, Delist, CloseCurrent, NoCurrent,
                      SendInvite, SetCurrent, WithCurrent, Answer, SendAnswer, Hangup, Destroy,
                      Hold, MediaStep, kotlin
  <2> QED  BY <1>1, <2>3, <2>5 DEF AccountInv
<1>6. CASE UNCHANGED vars
  <2>1. UNCHANGED <<ua, todo>>
    BY <1>6 DEF vars, kotlin
  <2> QED  BY <1>1, <2>1 DEF AccountInv
<1> QED  BY <1>3, <1>4, <1>5, <1>6 DEF Next, MethodCalled

LEMMA AccountBegins == ASSUME Init  PROVE AccountInv
<1>1. ua /\ \A t \in Threads : todo[t] = <<>>
  BY DEF Init
<1> QED  BY <1>1, InitType, HasSmall DEF AccountInv

-----------------------------------------------------------------------------
(* A call that rang and is over is told to have ended.                     *)

\* The call is destroyed, or the thread that reports its end is to do so.
Destroyed(c) ==
    phase[c] = "gone" \/ \E t \in Threads : Has(todo[t], {OnCall("destroy", c)})

\* The end of the call was told, or a thread is about to tell it.
EndTold(c) ==
    WasTold(c, "Hangup") \/ \E t \in Threads : Has(todo[t], Bringing(c, "Hangup"))

(* Whoever destroys a call reports its end first, and while the account is *)
(* there and the plugin runs, uaEvent does not ignore the report.          *)
EndInv ==
    /\ AccountInv
    /\ \A c \in CallIds : phase[c] # "failed"
    /\ isRunning => \A c \in CallIds : Destroyed(c) => EndTold(c)

(* What was told stays told, and telling an event tells it.                *)
LEMMA ToldStays ==
    ASSUME TypeOK, NEW t \in Threads, Step(t), NEW c \in CallIds, NEW event, WasTold(c, event)
    PROVE  WasTold(c, event)'
<1>1. told[c] \in Seq({"Ring", "Up", "Hangup"}) /\ told \in [CallIds -> Seq({"Ring", "Up", "Hangup"})]
  BY DEF TypeOK
<1>2. CASE told'[c] = told[c]
  BY <1>2 DEF WasTold
<1>3. CASE told'[c] # told[c]
  <2>1. TellDart(t)
    BY <1>3 DEF Step, HandleUaEvent, SipCall, Delist, CloseCurrent, NoCurrent, SendInvite,
                SetCurrent, WithCurrent, Answer, SendAnswer, Hangup, Destroy, Hold, SetUa,
                MediaStep, dart
  <2> DEFINE e == Head(todo[t]).event
  <2>2. told'[c] = Append(told[c], e)
    BY <1>1, <1>3, <2>1 DEF TellDart
  <2>3. todo[t] # <<>> /\ Head(todo[t]).op = "tell" /\ e \notin {"Paused", "Resuming"}
    BY <1>3, <2>1 DEF TellDart, At
  <2>4. e \in {"Ring", "Up", "Hangup"}
    <3>1. Head(todo[t]) \in Ops
      BY <2>3, HeadTailProperties DEF TypeOK
    <3> QED  BY <2>3, <3>1, OpFields
  <2> HIDE DEF e
  <2>5. /\ Len(told'[c]) = Len(told[c]) + 1 /\ Len(told[c]) \in Nat
        /\ \A i \in 1 .. Len(told[c]) : told'[c][i] = told[c][i]
    BY <1>1, <2>2, <2>4, AppendProperties, LenProperties
  <2>6. PICK i \in 1 .. Len(told[c]) : told[c][i] = event
    BY DEF WasTold
  <2>7. i \in 1 .. Len(told'[c]) /\ told'[c][i] = event
    BY <2>5, <2>6
  <2> QED  BY <2>7 DEF WasTold
<1> QED  BY <1>2, <1>3

LEMMA TellTells ==
    ASSUME TypeOK, NEW t \in Threads, TellDart(t), NEW c \in CallIds,
           NEW e \in {"Ring", "Up", "Hangup"},
           Head(todo[t]).call = c, Head(todo[t]).event = e
    PROVE  told' = [told EXCEPT ![c] = Append(@, e)] /\ WasTold(c, e)'
<1>1. told' = [told EXCEPT ![c] = Append(@, e)]
  BY DEF TellDart
<1>2. told[c] \in Seq({"Ring", "Up", "Hangup"}) /\ told'[c] = Append(told[c], e)
  BY <1>1 DEF TypeOK
<1>3. Len(told[c]) + 1 \in 1 .. Len(told'[c]) /\ told'[c][Len(told[c]) + 1] = e
  BY <1>2, AppendProperties, LenProperties
<1> QED  BY <1>1, <1>3 DEF WasTold

LEMMA EndStep ==
    ASSUME "connect" \notin Faults, EndInv, TypeOK', NEW t \in Threads, Step(t)
    PROVE  /\ isRunning' = isRunning
           /\ \A c \in CallIds : phase'[c] # "failed"
           /\ isRunning => \A c \in CallIds : Destroyed(c)' => EndTold(c)'
<1> DEFINE h == Head(todo[t])
<1>1. /\ todo \in [Threads -> Seq(Ops)] /\ phase \in [CallIds -> Phases] /\ TypeOK /\ ua
      /\ told \in [CallIds -> Seq({"Ring", "Up", "Hangup"})]
  BY DEF EndInv, AccountInv, TypeOK
<1>2. PICK ops \in Seq(Ops) : /\ todo[t] # <<>> /\ Continue(t, ops)
                              /\ \A i \in 1 .. Len(ops) : CalledFor(t, ops[i])
  BY <1>1, StepCallsFor
<1>3. /\ h \in Ops
      /\ \A S : /\ Has(todo'[t], S) <=> Has(ops, S) \/ Has(Tail(todo[t]), S)
                /\ Has(todo[t], S) <=> h \in S \/ Has(Tail(todo[t]), S)
      /\ \A r \in Threads \ {t} : todo'[r] = todo[r]
  BY <1>1, <1>2, ScriptsAfterStep
<1>4. isRunning' = isRunning
  BY DEF Step, HandleUaEvent, SipCall, TellDart, Delist, CloseCurrent, NoCurrent, SendInvite,
         SetCurrent, WithCurrent, Answer, SendAnswer, Hangup, Destroy, Hold, SetUa, MediaStep,
         kotlin
<1>5. h.op \in CallOps => h.call \in CallIds
  BY <1>3, OpFields
<1>6. ASSUME NEW c \in CallIds
      PROVE  /\ phase'[c] # "failed"
             /\ phase'[c] = "gone" => phase[c] = "gone" \/ h = OnCall("destroy", c)
  <2>1. phase[c] # "failed"
    BY DEF EndInv
  <2>2. CASE SendInvite(t)
    <3>1. h.call \in CallIds /\ phase' = [phase EXCEPT ![h.call] = "outgoing"]
      BY <1>5, <2>2 DEF SendInvite, At, CallOps
    <3> QED  BY <1>1, <2>1, <3>1
  <2>3. CASE SendAnswer(t)
    <3>1. phase' = [phase EXCEPT ![h.call] = IF @ = "incoming" THEN "answered" ELSE @]
      BY <2>3 DEF SendAnswer
    <3> QED  BY <1>1, <2>1, <3>1
  <2>4. CASE Hangup(t)
    <3>1. phase' = [phase EXCEPT ![h.call] = IF @ = "gone" THEN @ ELSE "closing"]
      BY <2>4 DEF Hangup
    <3> QED  BY <1>1, <2>1, <3>1
  <2>5. CASE Destroy(t)
    <3>1. h.op = "destroy" /\ phase' = [phase EXCEPT ![h.call] = "gone"]
      BY <2>5 DEF Destroy, At
    <3>2. h = OnCall("destroy", h.call)
      BY <1>3, <3>1 DEF Ops, OnCall
    <3> QED  BY <1>1, <2>1, <3>1, <3>2
  <2>6. CASE ~ (SendInvite(t) \/ SendAnswer(t) \/ Hangup(t) \/ Destroy(t))
    <3>1. phase' = phase
      BY <2>6 DEF Step, HandleUaEvent, SipCall, TellDart, Delist, CloseCurrent, NoCurrent,
                  SetCurrent, WithCurrent, Answer, Hold, SetUa, MediaStep, baresip
    <3> QED  BY <2>1, <3>1
  <2> QED  BY <2>2, <2>3, <2>4, <2>5, <2>6
<1>7. ASSUME isRunning, NEW c \in CallIds, Destroyed(c)'  PROVE EndTold(c)'
  <2> DEFINE B == Bringing(c, "Hangup")
             D == {OnCall("destroy", c)}
  <2>0. B' = B /\ "Hangup" \in Tellable
    BY DEF Bringing, Handling, Tellable
  <2>1. Destroyed(c) \/ (Hangup(t) /\ h.call = c)
    <3>1. \A i \in 1 .. Len(ops) : ops[i] \in D => Hangup(t) /\ h.call = c
      <4>1. OnCall("destroy", c).op = "destroy" /\ OnCall("destroy", c).call = c
        BY DEF OnCall
      <4> QED  BY <1>2, <4>1 DEF CalledFor
    <3>2. Has(ops, D) => Hangup(t) /\ h.call = c
      BY <3>1 DEF Has
    <3>3. h \in D => Destroyed(c)
      BY <1>3 DEF Destroyed
    <3>4. \A r \in Threads : Has(todo'[r], D) => Destroyed(c) \/ (Hangup(t) /\ h.call = c)
      BY <1>3, <3>2 DEF Destroyed
    <3> QED  BY <1>6, <1>7, <3>3, <3>4 DEF Destroyed
  <2>2. CASE Hangup(t) /\ h.call = c
    <3> DEFINE a == UaEvent(c, "closed")
               b == OnCall("destroy", c)
    <3>1. Continue(t, <<a, b>>) /\ "closed" \in Events /\ "closed" \in Causes("Hangup")
      BY <2>2 DEF Hangup, Events, Causes
    <3>2. a \in Ops /\ b \in Ops /\ a \in B
      <4>1. a \in Ops /\ b \in Ops
        BY <3>1, OpTypes
      <4>2. a.op = "uaEvent" /\ a.call = c /\ a.event = "closed"
        BY DEF UaEvent
      <4> HIDE DEF a, b
      <4> QED  BY <2>0, <3>1, <4>1, <4>2, BringingTells
    <3> HIDE DEF a, b, B
    <3>3. <<a, b>> \in Seq(Ops) /\ Has(<<a, b>>, B)
      BY <3>2, ShortScripts, HasSmall
    <3>4. Has(todo'[t], B)
      BY <1>1, <1>2, <3>1, <3>3, ScriptsAfterStep
    <3> QED  BY <2>0, <3>4 DEF EndTold, B
  <2>3. CASE Destroyed(c)
    <3>1. EndTold(c)
      BY <1>7, <2>3 DEF EndInv
    <3>2. WasTold(c, "Hangup") => WasTold(c, "Hangup")'
      BY <1>1, <1>3, ToldStays
    <3>3. ASSUME NEW r \in Threads, Has(todo[r], B)  PROVE EndTold(c)'
      <4>1. \/ Has(todo'[r], B)
            \/ r = t /\ TellDart(t) /\ h.call = c /\ h.event = "Hangup"
            \/ r = t /\ HandleUaEvent(t) /\ ~ (isRunning /\ ua)
        BY <1>1, <2>0, <3>3, BringingStep
      <4>2. CASE TellDart(t) /\ h.call = c /\ h.event = "Hangup"
        <5>1. WasTold(c, "Hangup")'
          BY <1>1, <4>2, TellTells DEF Tellable
        <5> QED  BY <5>1 DEF EndTold
      <4> QED  BY <1>1, <1>7, <2>0, <4>1, <4>2 DEF EndTold
    <3> QED  BY <3>1, <3>2, <3>3 DEF EndTold
  <2> QED  BY <2>1, <2>2, <2>3
<1> QED  BY <1>4, <1>6, <1>7

(* Entering a handler tells nothing; the baresip thread enters one that    *)
(* destroys a call with the report of its end.                             *)
LEMMA EndStart ==
    ASSUME EndInv, NEW t \in Threads, NEW ops, Start(t, ops), UNCHANGED told,
           \A c \in CallIds :
              /\ phase'[c] # "failed"
              /\ phase'[c] = "gone" => phase[c] = "gone"
              /\ Has(ops, {OnCall("destroy", c)}) => Has(ops, Bringing(c, "Hangup")),
           isRunning' => isRunning
    PROVE  /\ \A c \in CallIds : phase'[c] # "failed"
           /\ isRunning' => \A c \in CallIds : Destroyed(c)' => EndTold(c)'
<1>1. /\ todo'[t] = ops /\ \A S : ~ Has(todo[t], S)
      /\ \A r \in Threads \ {t} : todo'[r] = todo[r]
  BY ScriptsAfterStart DEF EndInv, AccountInv, TypeOK
<1>2. ASSUME isRunning, NEW c \in CallIds, Destroyed(c)'  PROVE EndTold(c)'
  <2> DEFINE B == Bringing(c, "Hangup")
             D == {OnCall("destroy", c)}
  <2>0. B' = B
    BY DEF Bringing, Handling
  <2> HIDE DEF B
  <2>1. Destroyed(c) \/ Has(ops, D)
    BY <1>1, <1>2 DEF Destroyed
  <2>2. CASE Has(ops, D)
    <3>1. Has(todo'[t], B)
      BY <1>1, <2>2 DEF B
    <3> QED  BY <2>0, <3>1 DEF EndTold, B
  <2>3. CASE Destroyed(c)
    <3>1. EndTold(c)
      BY <1>2, <2>3 DEF EndInv
    <3>2. WasTold(c, "Hangup") => WasTold(c, "Hangup")'
      BY DEF WasTold
    <3>3. \A r \in Threads : Has(todo[r], B) => Has(todo'[r], B)
      BY <1>1
    <3> QED  BY <2>0, <3>1, <3>2, <3>3 DEF EndTold, B
  <2> QED  BY <2>1, <2>2, <2>3
<1> QED  BY <1>2

LEMMA EndKept ==
    ASSUME AccountStays, "connect" \notin Faults, EndInv, [Next]_vars
    PROVE  EndInv'
<1>1. AccountInv' /\ TypeOK' /\ phase \in [CallIds -> Phases]
  BY AccountKept DEF EndInv, AccountInv, TypeOK
<1>2. \A c \in CallIds : phase[c] # "failed"
  BY DEF EndInv
<1>3. CASE MethodCalled
  <2>1. PICK ops \in Seq(Ops) : MethodScript(ops)
    BY <1>3, MethodScripts
  <2>2. /\ Start("main", ops) /\ UNCHANGED <<phase, told>> /\ (isRunning' => isRunning)
        /\ \A i \in 1 .. Len(ops) : ops[i].op \notin CallOps
    BY <2>1 DEF MethodScript
  <2>3. \A c \in CallIds : ~ Has(ops, {OnCall("destroy", c)})
    BY <2>2 DEF Has, OnCall, CallOps
  <2>4. /\ \A c \in CallIds : phase'[c] # "failed"
        /\ isRunning' => \A c \in CallIds : Destroyed(c)' => EndTold(c)'
    <3>1. \A c \in CallIds : phase'[c] = phase[c]
      BY <2>2
    <3> QED  BY <1>2, <2>2, <2>3, <3>1, EndStart, ThreadNames
  <2> QED  BY <1>1, <2>4 DEF EndInv
<1>4. CASE \E c \in CallIds : CallSteps(c)
  <2>1. PICK d \in CallIds : CallSteps(d)
    BY <1>4
  <2>0. PICK e \in Events, o \in Ops, t \in Threads : CallScript(d, e, o, t)
    BY <2>1, CallStepsStart
  <2>2. /\ Start(t, <<UaEvent(d, e)>>) \/ Start(t, <<UaEvent(d, e), o>>)
        /\ \/ o = Invite(d) \/ o.op = "noCurrent"
           \/ e \in {"closed", "closed busy"} /\ o = OnCall("destroy", d)
        /\ UNCHANGED <<isRunning, told>>
    BY <2>0 DEF CallScript
  <2> DEFINE a == UaEvent(d, e)
  <2>3. a \in Ops /\ \A c \in CallIds : a # OnCall("destroy", c)
    BY OpTypes DEF UaEvent, OnCall
  <2>4. ASSUME NEW c \in CallIds, o = OnCall("destroy", c)  PROVE a \in Bringing(c, "Hangup")
    <3>1. c = d /\ e \in {"closed", "closed busy"}
      BY <2>2, <2>4 DEF OnCall, Invite
    <3>2. a.op = "uaEvent" /\ a.call = c /\ a.event \in Causes("Hangup") /\ "Hangup" \in Tellable
      BY <3>1 DEF UaEvent, Causes, Tellable
    <3> QED  BY <2>3, <3>2, BringingTells
  <2> HIDE DEF a
  <2>5. ASSUME NEW ops \in {<<a>>, <<a, o>>}, NEW c \in CallIds,
               Has(ops, {OnCall("destroy", c)})
        PROVE  Has(ops, Bringing(c, "Hangup"))
    <3> DEFINE D == {OnCall("destroy", c)}
               B == Bringing(c, "Hangup")
    <3>1. a \notin D
      BY <2>3
    <3>2. o \in D => a \in B
      BY <2>4
    <3> HIDE DEF D, B
    <3>3. /\ Has(<<a>>, D) <=> a \in D
          /\ Has(<<a, o>>, D) <=> a \in D \/ o \in D
          /\ Has(<<a, o>>, B) <=> a \in B \/ o \in B
      BY HasSmall
    <3>4. Has(ops, D) => Has(ops, B)
      BY <2>5, <3>1, <3>2, <3>3
    <3> QED  BY <2>5, <3>4 DEF D, B
  <2>6. \A c \in CallIds : phase'[c] # "failed" /\ (phase'[c] = "gone" => phase[c] = "gone")
    <3>1. phase' = phase \/ \E p \in {"idle", "incoming", "up", "cancelled", "closing"} :
                               phase' = [phase EXCEPT ![d] = p]
      BY <2>1 DEF CallSteps, Call, Incoming, Progress, Established, PeerUpdate, OtherEvent,
                  Close, baresip
    <3> QED  BY <1>1, <1>2, <3>1
  <2>7. \E ops \in {<<a>>, <<a, o>>} : Start(t, ops)
    BY <2>2 DEF a
  <2> QED  BY <1>1, <2>2, <2>5, <2>6, <2>7, EndStart DEF EndInv
<1>5. ASSUME NEW t \in Threads, Step(t)  PROVE EndInv'
  BY <1>1, <1>5, EndStep DEF EndInv
<1>6. CASE UNCHANGED vars
  <2>1. UNCHANGED <<phase, isRunning, told, todo>>
    BY <1>6 DEF vars, kotlin, baresip, dart
  <2>2. \A c \in CallIds : Bringing(c, "Hangup")' = Bringing(c, "Hangup")
    BY DEF Bringing, Handling
  <2>3. \A c \in CallIds : (Destroyed(c)' <=> Destroyed(c)) /\ (EndTold(c)' <=> EndTold(c))
    BY <2>1, <2>2 DEF Destroyed, EndTold, WasTold
  <2> QED  BY <1>1, <1>2, <2>1, <2>3 DEF EndInv
<1> QED  BY <1>3, <1>4, <1>5, <1>6 DEF Next, MethodCalled

(* Dart is told of the end of a call that it was told of, whoever ends it, *)
(* on whichever thread, and whatever other calls do meanwhile: while the   *)
(* application keeps its account and every INVITE can be sent.             *)
THEOREM EndsAreTold ==
    ASSUME AccountStays, "connect" \notin Faults
    PROVE  Spec => []EndIsTold
<1>1. Init => EndInv
  <2> SUFFICES ASSUME Init  PROVE EndInv
    OBVIOUS
  <2>1. \A c \in CallIds : phase[c] = "none" /\ \A t \in Threads : todo[t] = <<>>
    BY DEF Init
  <2>2. \A c \in CallIds : ~ Destroyed(c)
    BY <2>1, HasSmall DEF Destroyed
  <2> QED  BY <2>1, <2>2, AccountBegins DEF EndInv
<1>2. EndInv /\ [Next]_vars => EndInv'
  BY EndKept
<1>3. EndInv => EndIsTold
  <2> SUFFICES ASSUME EndInv, Quiet, NEW c \in CallIds, phase[c] \in {"failed", "gone"}
               PROVE  WasTold(c, "Hangup")
    BY DEF EndIsTold
  <2>1. EndTold(c)
    BY DEF EndInv, Quiet, Destroyed
  <2>2. \A t \in Threads : \A S : ~ Has(todo[t], S)
    BY HasSmall DEF Quiet, Idle
  <2> QED  BY <2>1, <2>2 DEF EndTold
<1> QED  BY <1>1, <1>2, <1>3, PTL DEF Spec

-----------------------------------------------------------------------------
(* Dart knows whether the peer holds the call.                             *)

HoldOf(c) == Bringing(c, "Paused") \union Bringing(c, "Resuming")

(* What is on its way about the call agrees with what the peer did last,   *)
(* and so does what was told last when nothing is on its way.              *)
HoldFollows(c) ==
    LET re == todo["re"] IN
    /\ Has(re, Bringing(c, "Paused")) => peerHolds[c]
    /\ Has(re, Bringing(c, "Resuming")) => ~ peerHolds[c]
    /\ Has(re, HoldOf(c)) \/ (peerHolds[c] <=> holdTold[c] = "Paused")

HoldInv ==
    /\ AccountInv
    /\ \A c \in CallIds : ~ Has(todo["main"], HoldOf(c))
    /\ isRunning => \A c \in CallIds : HoldFollows(c)

LEMMA HasEither ==
    ASSUME NEW s, NEW S, NEW T
    PROVE  Has(s, S \union T) <=> Has(s, S) \/ Has(s, T)
BY DEF Has

LEMMA HoldStep ==
    ASSUME HoldInv, NEW t \in Threads, Step(t)
    PROVE  /\ \A c \in CallIds : ~ Has(todo'["main"], HoldOf(c))
           /\ isRunning' => \A c \in CallIds : HoldFollows(c)'
<1>1. /\ TypeOK /\ ua /\ todo \in [Threads -> Seq(Ops)]
      /\ holdTold \in [CallIds -> {"none", "Paused", "Resuming"}]
  BY DEF HoldInv, AccountInv, TypeOK
<1>2. {"Paused", "Resuming"} \subseteq Tellable /\ "Hangup" \notin {"Paused", "Resuming"}
  BY DEF Tellable
<1>3. UNCHANGED <<isRunning, peerHolds>>
  BY DEF Step, HandleUaEvent, SipCall, TellDart, Delist, CloseCurrent, NoCurrent, SendInvite,
         SetCurrent, WithCurrent, Answer, SendAnswer, Hangup, Destroy, Hold, SetUa, MediaStep,
         kotlin, baresip
<1>4. \A c \in CallIds, x \in {"Paused", "Resuming"} :
         /\ todo[t] # <<>> /\ Head(todo[t]) \in Ops
         /\ \A r \in Threads \ {t} : todo'[r] = todo[r]
         /\ Has(todo[t], Bringing(c, x)) =>
               \/ Has(todo'[t], Bringing(c, x))
               \/ TellDart(t) /\ Head(todo[t]).call = c /\ Head(todo[t]).event = x
               \/ ~ (isRunning /\ ua)
         /\ Has(todo'[t], Bringing(c, x)) => Has(todo[t], Bringing(c, x))
  BY <1>1, <1>2, BringingStep
<1>5. \A c \in CallIds : ~ Has(todo'["main"], HoldOf(c))
  <2> TAKE c \in CallIds
  <2>1. \A x \in {"Paused", "Resuming"} : ~ Has(todo["main"], Bringing(c, x))
    BY HasEither DEF HoldInv, HoldOf
  <2>2. \A x \in {"Paused", "Resuming"} : ~ Has(todo'["main"], Bringing(c, x))
    BY <1>4, <2>1, ThreadNames
  <2> QED  BY <2>2, HasEither DEF HoldOf
<1>6. ASSUME isRunning, NEW c \in CallIds  PROVE HoldFollows(c)'
  <2> DEFINE P == Bringing(c, "Paused")
             R == Bringing(c, "Resuming")
  <2>0. P' = P /\ R' = R /\ HoldOf(c)' = HoldOf(c)
    BY DEF Bringing, Handling, HoldOf
  <2>1. /\ Has(todo["re"], P) => peerHolds[c]
        /\ Has(todo["re"], R) => ~ peerHolds[c]
        /\ Has(todo["re"], P) \/ Has(todo["re"], R) \/ (peerHolds[c] <=> holdTold[c] = "Paused")
    BY <1>6, HasEither DEF HoldInv, HoldFollows, HoldOf
  <2>2. Has(todo'["re"], P) => Has(todo["re"], P)
    BY <1>4, ThreadNames
  <2>3. Has(todo'["re"], R) => Has(todo["re"], R)
    BY <1>4, ThreadNames
  <2>4. \/ Has(todo'["re"], P) \/ Has(todo'["re"], R)
        \/ (peerHolds[c] <=> holdTold'[c] = "Paused")
    <3>1. CASE TellDart(t) /\ Head(todo[t]).call = c
                  /\ Head(todo[t]).event \in {"Paused", "Resuming"}
      <4> DEFINE x == Head(todo[t]).event
                 h == Head(todo[t])
      <4>1. holdTold'[c] = x
        BY <1>1, <3>1 DEF TellDart
      <4>2. todo[t] # <<>> /\ h \in Ops /\ h.op = "tell"
        BY <1>4, <3>1 DEF TellDart, At
      <4>3. h \in Bringing(c, x)
        BY <1>2, <3>1, <4>2, BringingTells
      <4>4. Has(todo[t], Bringing(c, x))
        BY <1>1, <4>2, <4>3, ShortScripts, HasContinue
      <4>5. t = "re"
        <5>1. ~ Has(todo["main"], Bringing(c, "Paused"))
              /\ ~ Has(todo["main"], Bringing(c, "Resuming"))
          BY HasEither DEF HoldInv, HoldOf
        <5> QED  BY <3>1, <4>4, <5>1 DEF Threads
      <4>6. (x = "Paused" => peerHolds[c]) /\ (x = "Resuming" => ~ peerHolds[c])
        BY <2>1, <4>4, <4>5
      <4> QED  BY <3>1, <4>1, <4>6
    <3>2. CASE ~ (TellDart(t) /\ Head(todo[t]).call = c
                     /\ Head(todo[t]).event \in {"Paused", "Resuming"})
      <4>1. holdTold'[c] = holdTold[c]
        <5>1. CASE TellDart(t)
          BY <1>1, <3>2, <5>1 DEF TellDart
        <5>2. CASE ~ TellDart(t)
          BY <5>2 DEF Step, HandleUaEvent, SipCall, Delist, CloseCurrent, NoCurrent,
                      SendInvite, SetCurrent, WithCurrent, Answer, SendAnswer, Hangup, Destroy,
                      Hold, SetUa, MediaStep, dart
        <5> QED  BY <5>1, <5>2
      <4>2. \A x \in {"Paused", "Resuming"} :
               Has(todo["re"], Bringing(c, x)) => Has(todo'["re"], Bringing(c, x))
        BY <1>1, <1>4, <1>6, <3>2, ThreadNames
      <4>3. (Has(todo["re"], P) => Has(todo'["re"], P)) /\ (Has(todo["re"], R) => Has(todo'["re"], R))
        BY <4>2
      <4> HIDE DEF P, R
      <4> QED  BY <2>1, <4>1, <4>3
    <3> QED  BY <3>1, <3>2
  <2>5. Has(todo'["re"], HoldOf(c)) <=> Has(todo'["re"], P) \/ Has(todo'["re"], R)
    BY HasEither DEF HoldOf
  <2> QED  BY <1>3, <2>0, <2>1, <2>2, <2>3, <2>4, <2>5 DEF HoldFollows
<1> QED  BY <1>3, <1>5, <1>6

(* Entering a handler that is to do a and o: what it brings about a hold   *)
(* is what the peer does.                                                  *)
LEMMA HoldStart ==
    ASSUME HoldInv, NEW t \in Threads, NEW ops, Start(t, ops), UNCHANGED holdTold,
           isRunning' => isRunning,
           t = "main" => \A c \in CallIds : ~ Has(ops, HoldOf(c)),
           \A c \in CallIds :
              /\ Has(ops, Bringing(c, "Paused")) => peerHolds'[c]
              /\ Has(ops, Bringing(c, "Resuming")) => ~ peerHolds'[c]
              /\ peerHolds'[c] # peerHolds[c] => t = "re" /\ Has(ops, HoldOf(c))
    PROVE  /\ \A c \in CallIds : ~ Has(todo'["main"], HoldOf(c))
           /\ isRunning' => \A c \in CallIds : HoldFollows(c)'
<1>1. /\ todo'[t] = ops /\ \A S : ~ Has(todo[t], S)
      /\ \A r \in Threads \ {t} : todo'[r] = todo[r]
  BY ScriptsAfterStart DEF HoldInv, AccountInv, TypeOK
<1>2. \A c \in CallIds : ~ Has(todo'["main"], HoldOf(c))
  BY <1>1, ThreadNames DEF HoldInv
<1>3. ASSUME isRunning, NEW c \in CallIds  PROVE HoldFollows(c)'
  <2> DEFINE P == Bringing(c, "Paused")
             R == Bringing(c, "Resuming")
  <2>0. P' = P /\ R' = R /\ HoldOf(c)' = HoldOf(c)
    BY DEF Bringing, Handling, HoldOf
  <2>1. HoldFollows(c)
    BY <1>3 DEF HoldInv
  <2>2. CASE t = "re"
    BY <1>1, <2>0, <2>1, <2>2 DEF HoldFollows
  <2>3. CASE t = "main"
    <3>1. todo'["re"] = todo["re"] /\ peerHolds'[c] = peerHolds[c]
      BY <1>1, <2>3, ThreadNames
    <3> QED  BY <2>0, <2>1, <3>1 DEF HoldFollows
  <2> QED  BY <2>2, <2>3 DEF Threads
<1> QED  BY <1>2, <1>3

LEMMA HoldKept ==
    ASSUME AccountStays, Peer \cap {"inactive", "recvonly"} = {}, HoldInv, [Next]_vars
    PROVE  HoldInv'
<1>1. AccountInv' /\ peerHolds \in [CallIds -> BOOLEAN]
  BY AccountKept DEF HoldInv, AccountInv, TypeOK
<1>2. \A c \in CallIds : HoldOf(c)' = HoldOf(c)
  BY DEF Bringing, Handling, HoldOf
<1>3. ASSUME \A c \in CallIds : ~ Has(todo'["main"], HoldOf(c)),
             isRunning' => \A c \in CallIds : HoldFollows(c)'
      PROVE  HoldInv'
  BY <1>1, <1>2, <1>3 DEF HoldInv
<1>4. \A c \in CallIds, x \in {"Paused", "Resuming"} :
         /\ x \in Tellable /\ Bringing(c, x) \subseteq HoldOf(c)
         /\ \A o \in HoldOf(c) : o.op \in TellingKinds
  BY BringingTells DEF Tellable, HoldOf, Telling
<1>5. CASE MethodCalled
  <2>1. PICK ops \in Seq(Ops) : MethodScript(ops)
    BY <1>5, MethodScripts
  <2>2. \A c \in CallIds : ~ Has(ops, HoldOf(c))
    BY <1>4, <2>1 DEF MethodScript, Has, TellingKinds, CallOps
  <2>3. \A c \in CallIds : /\ ~ Has(ops, Bringing(c, "Paused"))
                           /\ ~ Has(ops, Bringing(c, "Resuming"))
                           /\ peerHolds'[c] = peerHolds[c]
    BY <1>4, <2>1, <2>2, HasMore DEF MethodScript
  <2>4. Start("main", ops) /\ UNCHANGED holdTold /\ (isRunning' => isRunning)
    BY <2>1 DEF MethodScript
  <2> QED  BY <1>3, <2>2, <2>3, <2>4, HoldStart, ThreadNames
<1>6. CASE \E c \in CallIds : CallSteps(c)
  <2>1. PICK d \in CallIds : CallSteps(d)
    BY <1>6
  <2>0. PICK e \in Events, o \in Ops, t \in Threads : CallScript(d, e, o, t)
    BY <2>1, CallStepsStart
  <2>2. /\ Start(t, <<UaEvent(d, e)>>) \/ Start(t, <<UaEvent(d, e), o>>)
        /\ o = Invite(d) \/ o = OnCall("destroy", d) \/ o.op = "noCurrent"
        /\ (t = "main" /\ e = "outgoing") \/ t = "re"
        /\ e \in {"update 1", "update 3"} =>
              peerHolds' = [peerHolds EXCEPT ![d] = e \in {"update 0", "update 1"}]
        /\ e \notin {"update 0", "update 2"}
        /\ e \notin {"update 0", "update 1", "update 2", "update 3"} => UNCHANGED peerHolds
        /\ UNCHANGED <<isRunning, holdTold>>
    BY <2>0 DEF CallScript
  <2> DEFINE a == UaEvent(d, e)
  <2>3. /\ a \in Ops /\ a.op = "uaEvent" /\ a.call = d /\ a.event = e
        /\ o.op \notin TellingKinds
    <3>1. Invite(d).op = "sendInvite" /\ OnCall("destroy", d).op = "destroy"
      BY DEF Invite, OnCall
    <3>2. (o = Invite(d)) \/ (o = OnCall("destroy", d)) \/ (o.op = "noCurrent")
      BY <2>2
    <3>3. o.op \in {"sendInvite", "destroy", "noCurrent"}
      BY <3>1, <3>2
    <3> QED  BY <3>3, OpTypes DEF UaEvent, TellingKinds
  <2> HIDE DEF a
  <2>4. \A c \in CallIds :
           /\ (a \in Bringing(c, "Paused")) <=> ((c = d) /\ (e = "update 1"))
           /\ (a \in Bringing(c, "Resuming")) <=> ((c = d) /\ (e = "update 3"))
    <3> TAKE c \in CallIds
    <3>1. \A x \in {"Paused", "Resuming"} :
             (a \in Bringing(c, x)) <=> ((a.call = c) /\ (a.event \in Causes(x)))
      BY <2>3, BringingTells DEF Tellable
    <3>2. Causes("Paused") = {"update 1"} /\ Causes("Resuming") = {"update 3"}
      BY DEF Causes
    <3> QED  BY <2>3, <3>1, <3>2
  <2>5. PICK ops \in {<<a>>, <<a, o>>} : Start(t, ops)
    BY <2>2 DEF a
  <2>6. \A c \in CallIds :
           /\ Has(ops, Bringing(c, "Paused")) <=> a \in Bringing(c, "Paused")
           /\ Has(ops, Bringing(c, "Resuming")) <=> a \in Bringing(c, "Resuming")
    <3> TAKE c \in CallIds
    <3>1. o \notin Bringing(c, "Paused") /\ o \notin Bringing(c, "Resuming")
      BY <1>4, <2>3
    <3>2. \A S : (Has(<<a>>, S) <=> a \in S) /\ (Has(<<a, o>>, S) <=> a \in S \/ o \in S)
      BY HasSmall
    <3> QED  BY <2>5, <3>1, <3>2
  <2>7. \A c \in CallIds :
           Has(ops, HoldOf(c)) <=> c = d /\ e \in {"update 1", "update 3"}
    BY <2>4, <2>6, HasEither DEF HoldOf
  <2>8. \A c \in CallIds :
           /\ Has(ops, Bringing(c, "Paused")) => peerHolds'[c]
           /\ Has(ops, Bringing(c, "Resuming")) => ~ peerHolds'[c]
           /\ peerHolds'[c] # peerHolds[c] => t = "re" /\ Has(ops, HoldOf(c))
    BY <1>1, <2>2, <2>4, <2>6, <2>7
  <2>9. t = "main" => \A c \in CallIds : ~ Has(ops, HoldOf(c))
    BY <2>2, <2>7
  <2> QED  BY <1>3, <2>2, <2>5, <2>8, <2>9, HoldStart
<1>7. ASSUME NEW t \in Threads, Step(t)  PROVE HoldInv'
  BY <1>3, <1>7, HoldStep
<1>8. CASE UNCHANGED vars
  <2>1. UNCHANGED <<peerHolds, isRunning, holdTold, todo>>
    BY <1>8 DEF vars, kotlin, baresip, dart
  <2>2. \A c \in CallIds : HoldFollows(c)' <=> HoldFollows(c)
    BY <1>2, <2>1 DEF HoldFollows, Bringing, Handling
  <2> QED  BY <1>3, <2>1, <2>2 DEF HoldInv
<1> QED  BY <1>5, <1>6, <1>7, <1>8 DEF Next, MethodCalled

(* When nothing is under way, what Dart was told last about a call is that *)
(* it is paused exactly when the peer holds it: while the application      *)
(* keeps its account and peers ask for no direction but sendonly and       *)
(* sendrecv (uaEvent "call update" has no case for inactive and recvonly,  *)
(* and with them it fails), with any other calls at the same time.         *)
THEOREM PeerHoldsAreTold ==
    ASSUME AccountStays, Peer \cap {"inactive", "recvonly"} = {}
    PROVE  Spec => []PeerHoldIsTold
<1>1. Init => HoldInv
  <2> SUFFICES ASSUME Init  PROVE HoldInv
    OBVIOUS
  <2>1. /\ todo["main"] = <<>> /\ todo["re"] = <<>>
        /\ \A c \in CallIds : ~ peerHolds[c] /\ holdTold[c] = "none"
    BY ThreadNames DEF Init
  <2>2. \A c \in CallIds : HoldFollows(c)
    BY <2>1, HasSmall DEF HoldFollows
  <2> QED  BY <2>1, <2>2, AccountBegins, HasSmall DEF HoldInv
<1>2. HoldInv /\ [Next]_vars => HoldInv'
  BY HoldKept
<1>3. HoldInv => PeerHoldIsTold
  <2> SUFFICES ASSUME HoldInv, Quiet, NEW c \in CallIds
               PROVE  peerHolds[c] <=> holdTold[c] = "Paused"
    BY DEF PeerHoldIsTold
  <2>1. HoldFollows(c)
    BY DEF HoldInv, Quiet
  <2>2. \A S : ~ Has(todo["re"], S)
    BY HasSmall, ThreadNames DEF Quiet, Idle
  <2> QED  BY <2>1, <2>2 DEF HoldFollows
<1> QED  BY <1>1, <1>2, <1>3, PTL DEF Spec

-----------------------------------------------------------------------------
(* The events of a call come in the order that module CallStatus promises. *)

\* The operations that may tell an event of that order, of any call.
Ordered == {"Ring", "Up", "Hangup"}
Weighty == UNION {Bringing(c, event) : c \in CallIds, event \in Ordered}

\* Operations that end a call on its user's side, or set another account up.
HangingUp ==
    {o \in Ops : o.op \in {"setUa", "hangup"} \/ (o.op = "withCurrent" /\ o.do = "hangup")}

\* uaEvent ignores what it is called with.
Deaf == ~ (ua /\ isRunning)

\* The end of the call was reported, and uaEvent did not ignore it.
HeardEnd(c) == {o \in Bringing(c, "Hangup") : o.op # "uaEvent"}

Over(c) == phase[c] \in {"cancelled", "closing", "gone"}

Rang == <<"Ring">>
RangUp == <<"Ring", "Up">>

(* What Dart was told of a call, while baresip and the two threads have    *)
(* come so far with it.  A call that was not told to ring is on the way to *)
(* it, or nobody listens any more, so that its end is not told either.     *)
InOrder(c) ==
    /\ phase[c] = "none" => told[c] = <<>>
    /\ phase[c] \in {"idle", "outgoing", "incoming", "answered"} => told[c] \in {<<>>, Rang}
    /\ phase[c] = "up" => told[c] \in {Rang, RangUp}
    /\ phase[c] = "incoming" /\ told[c] = <<>> => Deaf \/ Has(todo["re"], Bringing(c, "Ring"))
    /\ Has(todo["main"], {Invite(c)}) => phase[c] = "idle"
    /\ Has(todo["main"], Bringing(c, "Ring")) => told[c] = <<>> /\ phase[c] = "idle"
    /\ ~ Has(todo["main"], Bringing(c, "Up")) /\ ~ Has(todo["main"], Bringing(c, "Hangup"))
    /\ Has(todo["re"], Bringing(c, "Ring")) =>
          told[c] = <<>> /\ phase[c] \in {"incoming", "answered"}
    /\ Has(todo["re"], Bringing(c, "Up")) => told[c] = Rang /\ phase[c] = "up"
    /\ Has(todo["re"], Bringing(c, "Hangup")) =>
          Over(c) /\ (told[c] \in {Rang, RangUp} \/ (Deaf /\ told[c] = <<>>))
    /\ Has(todo["re"], HeardEnd(c)) => told[c] \in {Rang, RangUp}
    /\ \A t \in Threads : Has(todo[t], {OnCall("destroy", c)}) => Over(c)

OrderInv ==
    /\ RingInv
    /\ \A t \in Threads : Once(todo[t], Weighty) /\ ~ Has(todo[t], HangingUp)
    /\ \A c \in CallIds : InOrder(c)

LEMMA WeightyTells ==
    /\ Weighty \subseteq Telling
    /\ \A o : o \in Weighty <=> \E c \in CallIds, x \in Ordered : o \in Bringing(c, x)
    /\ Ordered \subseteq Tellable
    /\ \A s : (\A c \in CallIds, x \in Ordered : ~ Has(s, Bringing(c, x))) <=> ~ Has(s, Weighty)
<1>1. Ordered \subseteq Tellable
  BY DEF Ordered, Tellable
<1>2. \A o : o \in Weighty <=> \E c \in CallIds, x \in Ordered : o \in Bringing(c, x)
  BY DEF Weighty
<1>3. Weighty \subseteq Telling
  BY <1>1, <1>2, BringingTells
<1>4. \A s : (\A c \in CallIds, x \in Ordered : ~ Has(s, Bringing(c, x))) <=> ~ Has(s, Weighty)
  BY <1>2 DEF Has
<1> QED  BY <1>1, <1>2, <1>3, <1>4

(* A step puts an operation that tells an event of that order only in the  *)
(* place of one.                                                           *)
LEMMA StepWeighs ==
    ASSUME TypeOK, NEW t \in Threads, Step(t), ~ Hangup(t)
    PROVE  \E ops \in Seq(Ops) :
              /\ todo[t] # <<>> /\ Continue(t, ops)
              /\ Once(ops, Weighty)
              /\ \A c \in CallIds, x \in Ordered :
                    Has(ops, Bringing(c, x)) => Head(todo[t]) \in Bringing(c, x)
              /\ TellDart(t) => ops = <<>>
<1> DEFINE h == Head(todo[t])
<1>1. todo[t] # <<>> => h \in Ops
  BY HeadTailProperties DEF TypeOK
<1>2. <<>> \in Seq(Ops) /\ Once(<<>>, Weighty) /\ \A S : ~ Has(<<>>, S)
  BY ShortScripts, OnceSmall, HasSmall
<1>3. Weighty \subseteq Telling /\ \A o \in Telling : o.op \in TellingKinds
  BY WeightyTells DEF Telling
<1>4. CASE HandleUaEvent(t)
  <2> DEFINE o == [op |-> "sipCall", call |-> h.call, event |-> h.event]
  <2>1. /\ todo[t] # <<>> /\ h.op = "uaEvent" /\ ~ TellDart(t)
        /\ Continue(t, <<o>>) \/ Continue(t, <<>>)
    BY <1>4 DEF HandleUaEvent, At, TellDart
  <2>2. h.call \in CallIds /\ h.event \in Events /\ h \in Ops
    BY <1>1, <2>1, OpFields DEF CallOps
  <2>3. o \in Ops /\ o.op = "sipCall" /\ o.call = h.call /\ o.event = h.event
    BY <2>2, OpTypes
  <2> HIDE DEF o
  <2>4. \A c \in CallIds, x \in Ordered : o \in Bringing(c, x) <=> h \in Bringing(c, x)
    BY <2>1, <2>2, <2>3, BringingTells, WeightyTells
  <2>5. <<o>> \in Seq(Ops) /\ Once(<<o>>, Weighty) /\ \A S : (Has(<<o>>, S) <=> o \in S)
    BY <2>3, ShortScripts, OnceSmall, HasSmall
  <2> QED  BY <1>2, <2>1, <2>4, <2>5
<1>5. CASE SipCall(t)
  <2>1. /\ todo[t] # <<>> /\ h.op = "sipCall" /\ ~ TellDart(t)
        /\ Continue(t, Reaction(h.call, h.event))
    BY <1>5 DEF SipCall, At, TellDart
  <2>2. h.call \in CallIds /\ h.event \in Events /\ h \in Ops
    BY <1>1, <2>1, OpFields DEF CallOps
  <2> DEFINE r == Reaction(h.call, h.event)
  <2>3. /\ r \in Seq(Ops)
        /\ \A c \in CallIds, x \in Ordered :
              (Has(r, Bringing(c, x))) <=> ((c = h.call) /\ (h.event \in Causes(x)))
        /\ Once(r, Telling)
    BY <2>2, ReactionType, ReactionTells, WeightyTells
  <2> HIDE DEF r
  <2>4. Once(r, Weighty)
    BY <1>3, <2>3 DEF Once
  <2>5. \A c \in CallIds, x \in Ordered :
           (h \in Bringing(c, x)) <=> ((c = h.call) /\ (h.event \in Causes(x)))
    BY <2>1, <2>2, BringingTells, WeightyTells
  <2> QED  BY <2>1, <2>3, <2>4, <2>5 DEF r
<1>6. CASE TellDart(t)
  BY <1>2, <1>6 DEF TellDart, At
<1>7. CASE Answer(t)
  <2> DEFINE a == UaEvent(h.call, "other")
             b == OnCall("sendAnswer", h.call)
  <2>1. /\ todo[t] # <<>> /\ h.op = "answer" /\ ~ TellDart(t)
        /\ Continue(t, <<a, b>>) \/ Continue(t, <<>>)
    BY <1>7 DEF Answer, At, TellDart
  <2>2. h.call \in CallIds /\ "other" \in Events
    BY <1>1, <2>1, OpFields DEF CallOps, Events
  <2>3. a \in Ops /\ b \in Ops /\ b \notin Weighty /\ a.op = "uaEvent" /\ a.event = "other"
    BY <1>3, <2>2, OpTypes DEF UaEvent, OnCall, TellingKinds
  <2> HIDE DEF a, b
  <2>4. a \notin Weighty
    <3>1. \A x \in Ordered : "other" \notin Causes(x)
      BY DEF Causes, Ordered
    <3>2. \A c \in CallIds, x \in Ordered : a \notin Bringing(c, x)
      BY <2>3, <3>1, BringingTells, WeightyTells
    <3> QED  BY <3>2, WeightyTells
  <2>5. <<a, b>> \in Seq(Ops) /\ ~ Has(<<a, b>>, Weighty) /\ Once(<<a, b>>, Weighty)
    BY <2>3, <2>4, ShortScripts, HasSmall, OnceSmall
  <2>6. \A c \in CallIds, x \in Ordered : ~ Has(<<a, b>>, Bringing(c, x))
    BY <2>5, WeightyTells
  <2> QED  BY <1>2, <2>1, <2>5, <2>6
<1>8. CASE PlainStep(t)
  <2>1. PICK ops \in Seq(Ops) : PlainScript(t, ops)
    BY <1>8, PlainSteps
  <2>2. ~ Has(ops, Weighty)
    <3>1. \A i \in 1 .. Len(ops) : ops[i].op \notin TellingKinds
      BY <2>1 DEF PlainScript
    <3> QED  BY <1>3, <3>1 DEF Has
  <2>3. Once(ops, Weighty)
    BY <2>2 DEF Once, Has
  <2>4. todo[t] # <<>> /\ Continue(t, ops) /\ ~ TellDart(t)
    BY <2>1 DEF PlainScript, TellDart, At, TellingKinds
  <2>5. \A c \in CallIds, x \in Ordered : ~ Has(ops, Bringing(c, x))
    BY <2>2, WeightyTells
  <2> QED  BY <2>3, <2>4, <2>5
<1> QED  BY <1>4, <1>5, <1>6, <1>7, <1>8 DEF Step, PlainStep

(* How far a step brings a call.                                           *)
LEMMA PhaseStep ==
    ASSUME TypeOK, NEW t \in Threads, Step(t), ~ Hangup(t), NEW c \in CallIds
    PROVE  \/ phase'[c] = phase[c]
           \/ Head(todo[t]) = Invite(c) /\ phase'[c] \in {"outgoing", "failed"}
           \/ phase[c] = "incoming" /\ phase'[c] = "answered"
           \/ Head(todo[t]) = OnCall("destroy", c) /\ phase'[c] = "gone"
<1> DEFINE h == Head(todo[t])
<1>1. phase \in [CallIds -> Phases] /\ (todo[t] # <<>> => h \in Ops)
  BY HeadTailProperties DEF TypeOK
<1>2. CASE SendInvite(t)
  <2>1. /\ todo[t] # <<>> /\ h.op = "sendInvite"
        /\ \E p \in {"outgoing", "failed"} : phase' = [phase EXCEPT ![h.call] = p]
    BY <1>2 DEF SendInvite, At
  <2>2. h = Invite(h.call)
    BY <1>1, <2>1 DEF Ops, Invite, OnCall
  <2> QED  BY <1>1, <2>1, <2>2
<1>3. CASE SendAnswer(t)
  <2>1. phase' = [phase EXCEPT ![h.call] = IF @ = "incoming" THEN "answered" ELSE @]
    BY <1>3 DEF SendAnswer
  <2> QED  BY <1>1, <2>1
<1>4. CASE Destroy(t)
  <2>1. todo[t] # <<>> /\ h.op = "destroy" /\ phase' = [phase EXCEPT ![h.call] = "gone"]
    BY <1>4 DEF Destroy, At
  <2>2. h = OnCall("destroy", h.call)
    BY <1>1, <2>1 DEF Ops, OnCall
  <2> QED  BY <1>1, <2>1, <2>2
<1>5. CASE ~ (SendInvite(t) \/ SendAnswer(t) \/ Destroy(t))
  <2>1. phase' = phase
    BY <1>5 DEF Step, HandleUaEvent, SipCall, TellDart, Delist, CloseCurrent, NoCurrent,
                SetCurrent, WithCurrent, Answer, Hold, SetUa, MediaStep, baresip
  <2> QED  BY <2>1
<1> QED  BY <1>2, <1>3, <1>4, <1>5

(* Who is to hang up no call and set no account up does not come to it.    *)
LEMMA NoHangingUp ==
    ASSUME TypeOK, NEW t \in Threads, Step(t), ~ Has(todo[t], HangingUp)
    PROVE  /\ ~ Hangup(t) /\ ~ Has(todo'[t], HangingUp)
           /\ Deaf => Deaf'
<1>1. PICK ops \in Seq(Ops) : /\ todo[t] # <<>> /\ Continue(t, ops)
                              /\ \A i \in 1 .. Len(ops) : CalledFor(t, ops[i])
  BY StepCallsFor
<1> DEFINE h == Head(todo[t])
<1>2. /\ h \in Ops /\ h \notin HangingUp /\ ~ Has(Tail(todo[t]), HangingUp)
      /\ Has(todo'[t], HangingUp) => Has(ops, HangingUp)
  BY <1>1, ScriptsAfterStep DEF TypeOK
<1>3. h.op \notin {"setUa", "hangup"} /\ (h.op = "withCurrent" => h.do # "hangup")
  BY <1>2 DEF HangingUp
<1>4. ~ Hangup(t)
  BY <1>3 DEF Hangup, At
<1>5. ~ Has(ops, HangingUp)
  <2>1. \A i \in 1 .. Len(ops) : ops[i].op \notin {"setUa", "hangup", "withCurrent"}
    BY <1>1, <1>3 DEF CalledFor
  <2> QED  BY <2>1 DEF Has, HangingUp
<1>6. isRunning' = isRunning
  BY DEF Step, HandleUaEvent, SipCall, TellDart, Delist, CloseCurrent, NoCurrent, SendInvite,
         SetCurrent, WithCurrent, Answer, SendAnswer, Hangup, Destroy, Hold, SetUa, MediaStep,
         kotlin
<1>7. ua' => ua
  <2>1. CASE SetUa(t)
    BY <1>3, <2>1 DEF SetUa, At
  <2>2. CASE ~ SetUa(t)
    <3>1. ua' = ua
      BY <2>2 DEF Step, HandleUaEvent, SipCall, TellDart, Delist, CloseCurrent, NoCurrent,
                  SendInvite, SetCurrent, WithCurrent, Answer, SendAnswer, Hangup, Destroy,
                  Hold, MediaStep, kotlin
    <3> QED  BY <3>1
  <2> QED  BY <2>1, <2>2
<1> QED  BY <1>2, <1>4, <1>5, <1>6, <1>7 DEF Deaf

(* The end of a call is heard where uaEvent does not ignore it.            *)
LEMMA HeardStep ==
    ASSUME TypeOK, NEW t \in Threads, Step(t), ~ Hangup(t), NEW c \in CallIds,
           Has(todo'[t], HeardEnd(c))
    PROVE  Has(todo[t], HeardEnd(c)) \/ (Has(todo[t], Bringing(c, "Hangup")) /\ ~ Deaf)
<1> DEFINE H == HeardEnd(c)
           B == Bringing(c, "Hangup")
           h == Head(todo[t])
<1>1. H \subseteq B /\ \A o \in B : o.op # "uaEvent" => o \in H
  BY DEF HeardEnd
<1>2. Has(todo'[t], B) => Has(todo[t], B)
  BY BringingStep DEF Tellable
<1>3. Has(todo'[t], B)
  BY <1>1, HasMore
<1>4. CASE HandleUaEvent(t) /\ ~ Deaf
  BY <1>2, <1>3, <1>4
<1>5. CASE HandleUaEvent(t) /\ Deaf
  <2>1. todo[t] # <<>> /\ Continue(t, <<>>) /\ <<>> \in Seq(Ops) /\ ~ Has(<<>>, H)
    BY <1>5, ShortScripts, HasSmall DEF HandleUaEvent, At, Deaf
  <2> HIDE DEF H
  <2>2. Has(todo'[t], H) => Has(todo[t], H)
    BY <2>1, ScriptsAfterStep DEF TypeOK
  <2> QED  BY <2>2 DEF H
<1>6. CASE ~ HandleUaEvent(t)
  <2>0. CASE MediaStep(t)
    <3>1. PICK ops \in Seq(Ops) :
             /\ todo[t] # <<>> /\ Continue(t, ops)
             /\ \A i \in 1 .. Len(ops) : ops[i].op \in MediaKinds
      BY <2>0, MediaScript DEF TypeOK
    <3>2. \A o \in H : o.op \notin MediaKinds
      BY DEF HeardEnd, Bringing, Handling, Tell, MediaKinds, TimerOps
    <3>3. ~ Has(ops, H)
      BY <3>1, <3>2 DEF Has
    <3> HIDE DEF H
    <3>4. Has(todo'[t], H) => Has(todo[t], H)
      BY <3>1, <3>3, ScriptsAfterStep DEF TypeOK
    <3> QED  BY <3>4 DEF H
  <2> SUFFICES ASSUME ~ MediaStep(t)
               PROVE  Has(todo[t], H) \/ (Has(todo[t], B) /\ ~ Deaf)
    BY <2>0
  <2>1. PICK ops \in Seq(Ops) :
           /\ todo[t] # <<>> /\ Continue(t, ops)
           /\ \A d \in CallIds, x \in Ordered :
                 Has(ops, Bringing(d, x)) => Head(todo[t]) \in Bringing(d, x)
    BY StepWeighs
  <2>2. /\ h \in Ops
        /\ Has(todo'[t], H) <=> Has(ops, H) \/ Has(Tail(todo[t]), H)
        /\ Has(todo[t], H) <=> h \in H \/ Has(Tail(todo[t]), H)
    BY <2>1, ScriptsAfterStep DEF TypeOK
  <2>3. h.op # "uaEvent"
    BY <1>6 DEF Step, HandleUaEvent, SipCall, TellDart, Delist, CloseCurrent, NoCurrent,
                SendInvite, SetCurrent, WithCurrent, Answer, SendAnswer, Hangup, Destroy,
                Hold, SetUa, At
  <2>4. Has(ops, H) => h \in H
    <3>1. Has(ops, H) => Has(ops, B)
      BY <1>1, HasMore
    <3>2. Has(ops, B) => h \in B
      BY <2>1 DEF Ordered
    <3> QED  BY <1>1, <2>3, <3>1, <3>2
  <2> QED  BY <2>2, <2>4
<1> QED  BY <1>4, <1>5, <1>6

LEMMA OrderStep ==
    ASSUME OrderInv, TypeOK', NEW t \in Threads, Step(t), NEW c \in CallIds
    PROVE  InOrder(c)'
<1> DEFINE B(x) == Bringing(c, x)
           h == Head(todo[t])
           I == {Invite(c)}
           D == {OnCall("destroy", c)}
           H == HeardEnd(c)
<1>1. /\ TypeOK /\ RingInv /\ InOrder(c) /\ Ordered \subseteq Tellable
      /\ Once(todo[t], Weighty) /\ ~ Has(todo[t], HangingUp)
      /\ told \in [CallIds -> Seq({"Ring", "Up", "Hangup"})]
      /\ "main" \in Threads /\ "re" \in Threads
  BY WeightyTells, ThreadNames DEF OrderInv, RingInv, TypeOK
<1>2. ~ Hangup(t) /\ (Deaf => Deaf')
  BY <1>1, NoHangingUp
<1>3. (\A x \in Ordered : Bringing(c, x)' = B(x)) /\ HeardEnd(c)' = H
  BY DEF Bringing, Handling, HeardEnd
<1>4. PICK ops \in Seq(Ops) : /\ todo[t] # <<>> /\ Continue(t, ops)
                              /\ \A i \in 1 .. Len(ops) : CalledFor(t, ops[i])
  BY <1>1, StepCallsFor
<1>5. /\ h \in Ops
      /\ \A S : /\ Has(todo'[t], S) <=> Has(ops, S) \/ Has(Tail(todo[t]), S)
                /\ Has(todo[t], S) <=> h \in S \/ Has(Tail(todo[t]), S)
      /\ \A r \in Threads \ {t} : todo'[r] = todo[r]
  BY <1>1, <1>4, ScriptsAfterStep DEF TypeOK
\* What the threads may still do about c was on its way before.
<1>6. \A x \in Ordered, r \in Threads : Has(todo'[r], B(x)) => Has(todo[r], B(x))
  BY <1>1, <1>2, <1>5, BringingStep
<1>7. \A r \in Threads : Has(todo'[r], D) => Has(todo[r], D)
  <2>1. ~ Has(ops, D)
    BY <1>2, <1>4 DEF CalledFor, Has, OnCall
  <2> HIDE DEF D
  <2> QED  BY <1>5, <2>1
<1>8. Has(todo'["re"], H) => Has(todo["re"], H) \/ (Has(todo["re"], B("Hangup")) /\ ~ Deaf)
  BY <1>1, <1>2, <1>5, HeardStep
<1>9. Has(todo'["main"], I) => Has(todo["main"], I)
  <2>1. ~ Has(ops, I)
    BY <1>4 DEF CalledFor, Has, Invite, OnCall
  <2> HIDE DEF I
  <2> QED  BY <1>1, <1>5, <2>1
<1>10. Has(todo["re"], B("Ring")) =>
          Has(todo'["re"], B("Ring")) \/ Deaf
             \/ (TellDart(t) /\ h.call = c /\ h.event = "Ring")
  BY <1>1, <1>5, BringingStep DEF Ordered, Deaf
\* What is told of c.
<1>11. \/ told'[c] = told[c]
       \/ \E x \in Ordered :
             /\ TellDart(t) /\ h.call = c /\ h.event = x
             /\ Has(todo[t], B(x)) /\ \A y \in Ordered : ~ Has(todo'[t], B(y))
             /\ told'[c] = Append(told[c], x)
  <2>1. CASE TellDart(t) /\ h.call = c /\ h.event \in Ordered
    <3> DEFINE x == h.event
    <3>1. x \in Ordered /\ x \in {"Ring", "Up", "Hangup"}
      BY <2>1 DEF Ordered
    <3>2. told'[c] = Append(told[c], x)
      BY <1>1, <2>1, <3>1 DEF TellDart
    <3>3. h.op = "tell" /\ Continue(t, <<>>) /\ <<>> \in Seq(Ops)
      BY <2>1, ShortScripts DEF TellDart, At
    <3>4. h \in B(x)
      BY <1>1, <1>5, <2>1, <3>1, <3>3, BringingTells
    <3>5. h \in Weighty
      BY <3>1, <3>4, WeightyTells
    <3> HIDE DEF x
    <3>6. Has(todo[t], B(x))
      BY <1>5, <3>4
    <3>7. ~ Has(todo'[t], Weighty)
      <4>1. ~ Has(Tail(todo[t]), Weighty)
        BY <1>1, <1>4, <3>5, OnceContinue DEF TypeOK
      <4>2. Has(todo'[t], Weighty) => Has(Tail(todo[t]), Weighty)
        BY <1>1, <1>4, <3>3, ScriptsAfterStep, HasSmall DEF TypeOK
      <4> QED  BY <4>1, <4>2
    <3>8. \A y \in Ordered : ~ Has(todo'[t], B(y))
      BY <3>7, WeightyTells
    <3> QED  BY <2>1, <3>1, <3>2, <3>6, <3>8 DEF x
  <2>2. CASE TellDart(t) /\ ~ (h.call = c /\ h.event \in Ordered)
    <3>1. h.op = "tell" /\ h.event \in {"Ring", "Up", "Paused", "Resuming", "Hangup"}
      BY <1>5, <2>2, OpFields DEF TellDart, At
    <3> QED  BY <1>1, <2>2, <3>1 DEF TellDart, Ordered
  <2>3. CASE ~ TellDart(t)
    BY <2>3 DEF Step, HandleUaEvent, SipCall, Delist, CloseCurrent, NoCurrent, SendInvite,
                SetCurrent, WithCurrent, Answer, SendAnswer, Hangup, Destroy, Hold, SetUa,
                MediaStep, dart
  <2> QED  BY <2>1, <2>2, <2>3
<1>12. TellDart(t) /\ h.call = c /\ h.event = "Ring" => told'[c] = Append(told[c], "Ring")
  BY <1>1 DEF TellDart
\* How far it is.
<1>13. \/ phase'[c] = phase[c]
       \/ /\ Has(todo["main"], I) /\ phase'[c] \in {"outgoing", "failed"}
          /\ ~ Has(todo'["main"], I) /\ ~ Has(todo'["main"], B("Ring"))
       \/ phase[c] = "incoming" /\ phase'[c] = "answered"
       \/ Over(c) /\ phase'[c] = "gone"
  <2>1. CASE h = Invite(c) /\ phase'[c] \in {"outgoing", "failed"}
    <3>1. h.op = "sendInvite" /\ h \in OnMain /\ h \in I
      BY <1>5, <2>1 DEF Invite, OnCall, OnMain
    <3>2. t = "main"
      BY <1>1, <1>5, <3>1 DEF RingInv, Threads
    <3>3. Has(todo["main"], I)
      BY <1>5, <3>1, <3>2
    <3>4. Inviting(c)
      BY <1>1, <3>3 DEF RingInv, RingFirst
    <3>5. Tail(todo["main"]) = <<>>
      <4> DEFINE rest == Tail(todo["main"])
      <4>1. h = Head(todo["main"]) /\ rest = Tail(todo["main"])
        BY <3>2
      <4> HIDE DEF h, rest
      <4>2. rest = <<>>
        BY <3>1, <3>4, <4>1, InvitingHead
      <4> QED  BY <4>1, <4>2
    <3>6. \A S : ~ Has(Tail(todo[t]), S)
      BY <3>2, <3>5, HasSmall
    <3>7. ~ Has(todo'["main"], I)
      <4>1. ~ Has(ops, I)
        BY <1>4 DEF CalledFor, Has, Invite, OnCall
      <4> HIDE DEF I
      <4> QED  BY <1>5, <3>2, <3>6, <4>1
    <3>8. h \notin B("Ring")
      BY <1>1, <3>1, BringingTells DEF Ordered, Telling, TellingKinds
    <3>9. ~ Has(todo'["main"], B("Ring"))
      BY <1>5, <1>6, <3>2, <3>6, <3>8 DEF Ordered
    <3> QED  BY <2>1, <3>3, <3>7, <3>9
  <2>2. CASE h = OnCall("destroy", c) /\ phase'[c] = "gone"
    <3>1. Has(todo[t], D)
      BY <1>5, <2>2
    <3> QED  BY <1>1, <2>2, <3>1 DEF InOrder
  <2> QED  BY <1>1, <1>2, <2>1, <2>2, PhaseStep
<1>14. /\ \A x \in Ordered : Append(told[c], x) # <<>>
       /\ told[c] = <<>> => Append(told[c], "Ring") = Rang
       /\ told[c] = Rang => Append(told[c], "Up") = RangUp
  <2>1. ASSUME NEW x \in Ordered  PROVE Append(told[c], x) # <<>>
    <3>1. told[c] \in Seq(Ordered)
      BY <1>1 DEF Ordered
    <3> QED  BY <3>1, AppendProperties, EmptySeq, LenProperties
  <2>2. Append(<<>>, "Ring") = <<"Ring">>
    OBVIOUS
  <2>3. Append(<<"Ring">>, "Up") = <<"Ring", "Up">>
    BY AppendOne
  <2> QED  BY <2>1, <2>2, <2>3 DEF Rang, RangUp
<1> HIDE DEF B, h, I, D, H
<1>15. Over(c) => Over(c)'
  <2>1. Has(todo["main"], I) => phase[c] = "idle"
    BY <1>1 DEF InOrder, I
  <2>2. Over(c) => phase'[c] \in {"cancelled", "closing", "gone"}
    BY <1>13, <2>1 DEF Over
  <2> QED  BY <2>2 DEF Over
<1>16. ASSUME told'[c] # told[c]
       PROVE  \/ told[c] = <<>> /\ told'[c] = Rang /\ phase[c] \in {"idle", "incoming", "answered"}
              \/ told[c] = Rang /\ told'[c] = RangUp /\ phase[c] = "up"
              \/ told'[c] # <<>> /\ Over(c)
  <2>1. PICK x \in Ordered : /\ Has(todo[t], B(x)) /\ told'[c] = Append(told[c], x)
    BY <1>11, <1>16
  <2>2. CASE x = "Ring"
    BY <1>1, <1>14, <2>1, <2>2 DEF InOrder, B, Threads
  <2>3. CASE x = "Up"
    BY <1>1, <1>14, <2>1, <2>3 DEF InOrder, B, Threads
  <2>4. CASE x = "Hangup"
    BY <1>1, <1>14, <2>1, <2>4 DEF InOrder, B, Threads
  <2> QED  BY <2>2, <2>3, <2>4 DEF Ordered
<1>17. ASSUME NEW r \in Threads, NEW x \in Ordered, Has(todo'[r], B(x))
       PROVE  Has(todo[r], B(x)) /\ told'[c] = told[c]
  <2>1. Has(todo[r], B(x))
    BY <1>6, <1>17
  <2>2. ASSUME told'[c] # told[c]  PROVE FALSE
    <3>1. PICK y \in Ordered : Has(todo[t], B(y)) /\ \A z \in Ordered : ~ Has(todo'[t], B(z))
      BY <1>11, <2>2
    <3>2. r # t
      BY <1>17, <3>1
    <3> QED  BY <1>1, <2>1, <3>1, <3>2 DEF InOrder, B, Threads, Ordered, Over
  <2> QED  BY <2>1, <2>2
<1>18. phase'[c] = "none" => told'[c] = <<>>
  BY <1>1, <1>13, <1>16 DEF InOrder, Over
<1>19. phase'[c] \in {"idle", "outgoing", "incoming", "answered"} => told'[c] \in {<<>>, Rang}
  BY <1>1, <1>13, <1>16 DEF InOrder, Over, I
<1>20. phase'[c] = "up" => told'[c] \in {Rang, RangUp}
  BY <1>1, <1>13, <1>16 DEF InOrder, Over
<1>21. phase'[c] = "incoming" /\ told'[c] = <<>> => Deaf' \/ Has(todo'["re"], B("Ring"))
  BY <1>1, <1>2, <1>10, <1>12, <1>13, <1>14, <1>16 DEF InOrder, Over, B, Ordered, Rang, RangUp
<1>22. Has(todo'["main"], I) => phase'[c] = "idle"
  BY <1>1, <1>9, <1>13 DEF InOrder, Over, I
<1>23. Has(todo'["main"], B("Ring")) => told'[c] = <<>> /\ phase'[c] = "idle"
  BY <1>1, <1>13, <1>17 DEF InOrder, Over, B, Ordered
<1>24. ~ Has(todo'["main"], B("Up")) /\ ~ Has(todo'["main"], B("Hangup"))
  BY <1>1, <1>17 DEF InOrder, B, Ordered
<1>25. Has(todo'["re"], B("Ring")) => told'[c] = <<>> /\ phase'[c] \in {"incoming", "answered"}
  BY <1>1, <1>13, <1>17 DEF InOrder, Over, B, Ordered, I
<1>26. Has(todo'["re"], B("Up")) => told'[c] = Rang /\ phase'[c] = "up"
  BY <1>1, <1>13, <1>17 DEF InOrder, Over, B, Ordered, I
<1>27. Has(todo'["re"], B("Hangup")) =>
          Over(c)' /\ (told'[c] \in {Rang, RangUp} \/ (Deaf' /\ told'[c] = <<>>))
  BY <1>1, <1>2, <1>15, <1>17 DEF InOrder, B, Ordered
<1>28. Has(todo'["re"], H) => told'[c] \in {Rang, RangUp}
  <2>1. ASSUME Has(todo'["re"], H)  PROVE Has(todo'["re"], B("Hangup"))
    <3>1. H \subseteq B("Hangup")
      BY DEF H, B, HeardEnd
    <3> QED  BY <2>1, <3>1, HasMore
  <2>2. Has(todo'["re"], H) => told'[c] = told[c]
    BY <1>1, <1>17, <2>1 DEF Ordered
  <2> QED  BY <1>1, <1>8, <2>2 DEF InOrder, B, H
<1>29. \A r \in Threads : Has(todo'[r], D) => Over(c)'
  BY <1>1, <1>7, <1>15 DEF InOrder, D
<1>30. Bringing(c, "Ring")' = B("Ring") /\ Bringing(c, "Up")' = B("Up")
       /\ Bringing(c, "Hangup")' = B("Hangup")
  BY <1>3 DEF Ordered
<1> QED
  BY <1>3, <1>18, <1>19, <1>20, <1>21, <1>22, <1>23, <1>24, <1>25, <1>26, <1>27, <1>28, <1>29,
     <1>30 DEF InOrder, I, D

(* Entering a handler that brings about nothing of c leaves its order.     *)
LEMMA OrderStart ==
    ASSUME OrderInv, NEW t \in Threads, NEW ops, Start(t, ops), UNCHANGED told, Deaf => Deaf',
           NEW c \in CallIds, phase'[c] = phase[c],
           \A x \in Ordered : ~ Has(ops, Bringing(c, x)),
           ~ Has(ops, {Invite(c)}), ~ Has(ops, {OnCall("destroy", c)})
    PROVE  InOrder(c)'
<1> DEFINE B(x) == Bringing(c, x)
           I == {Invite(c)}
           D == {OnCall("destroy", c)}
           H == HeardEnd(c)
<1>1. InOrder(c) /\ todo \in [Threads -> Seq(Ops)] /\ told' = told
  BY DEF OrderInv, RingInv, TypeOK
<1>2. /\ todo[t] = <<>> /\ todo'[t] = ops /\ \A S : ~ Has(todo[t], S)
      /\ \A r \in Threads \ {t} : todo'[r] = todo[r]
  BY <1>1, ScriptsAfterStart
<1>3. /\ Bringing(c, "Ring")' = B("Ring") /\ Bringing(c, "Up")' = B("Up")
      /\ Bringing(c, "Hangup")' = B("Hangup") /\ HeardEnd(c)' = H
  BY DEF Bringing, Handling, HeardEnd
<1>4. ~ Has(ops, H)
  <2>1. H \subseteq B("Hangup")
    BY DEF HeardEnd
  <2> HIDE DEF H
  <2> QED  BY <2>1, HasMore DEF Ordered
<1> HIDE DEF B, I, D, H
<1>5. \A r \in Threads :
         /\ \A x \in Ordered : Has(todo'[r], B(x)) <=> Has(todo[r], B(x))
         /\ Has(todo'[r], H) <=> Has(todo[r], H)
         /\ Has(todo'[r], I) <=> Has(todo[r], I)
         /\ Has(todo'[r], D) <=> Has(todo[r], D)
  BY <1>2, <1>4 DEF B, I, D
<1> QED  BY <1>1, <1>3, <1>5, ThreadNames DEF InOrder, Over, Ordered, B, I, D, H

(* So does what begins and what the peer does.                             *)
LEMMA OrderReport ==
    ASSUME OrderInv, NEW d \in CallIds, NEW e \in Events, NEW o \in Ops, NEW t \in Threads,
           CallScript(d, e, o, t), NEW c \in CallIds
    PROVE  InOrder(c)'
<1> DEFINE B(x) == Bringing(c, x)
           I == {Invite(c)}
           D == {OnCall("destroy", c)}
           H == HeardEnd(c)
           a == UaEvent(d, e)
           main == todo["main"]
           re == todo["re"]
<1>1. /\ InOrder(c) /\ RingFirst(c) /\ todo \in [Threads -> Seq(Ops)] /\ told' = told
      /\ phase \in [CallIds -> Phases] /\ (Deaf' <=> Deaf)
      /\ "main" \in Threads /\ "re" \in Threads
  BY ThreadNames DEF OrderInv, RingInv, TypeOK, CallScript, Deaf
<1>2. /\ a \in Ops /\ a.op = "uaEvent" /\ a.call = d /\ a.event = e
      /\ o.op \in {"sendInvite", "destroy", "noCurrent"}
  <2>1. Invite(d).op = "sendInvite" /\ OnCall("destroy", d).op = "destroy"
    BY DEF Invite, OnCall
  <2>2. (o = Invite(d)) \/ (o = OnCall("destroy", d)) \/ (o.op = "noCurrent")
    BY DEF CallScript
  <2>3. o.op \in {"sendInvite", "destroy", "noCurrent"}
    BY <2>1, <2>2
  <2> QED  BY <2>3, OpTypes DEF UaEvent
<1>3. PICK ops \in {<<a>>, <<a, o>>} : Start(t, ops)
  BY DEF CallScript
<1> HIDE DEF a
<1>4. \A x \in Ordered : /\ (a \in B(x)) <=> ((c = d) /\ (e \in Causes(x)))
                         /\ o \notin B(x)
  <2>1. \A x \in Ordered : (a \in B(x)) <=> ((c = d) /\ (e \in Causes(x)))
    BY <1>2, BringingTells, WeightyTells
  <2>2. \A x \in Ordered : B(x) \subseteq Telling
    BY BringingTells, WeightyTells
  <2> QED  BY <1>2, <2>1, <2>2 DEF Telling, TellingKinds
<1>5. /\ H \subseteq B("Hangup") /\ a \notin H
      /\ a \notin I /\ a \notin D
  BY <1>2 DEF HeardEnd, Invite, OnCall
<1>6. /\ Bringing(c, "Ring")' = B("Ring") /\ Bringing(c, "Up")' = B("Up")
      /\ Bringing(c, "Hangup")' = B("Hangup") /\ HeardEnd(c)' = H
  BY DEF Bringing, Handling, HeardEnd
<1> HIDE DEF B, I, D, H
<1>7. /\ todo[t] = <<>> /\ todo'[t] = ops /\ \A S : ~ Has(todo[t], S)
      /\ \A r \in Threads \ {t} : todo'[r] = todo[r]
  BY <1>1, <1>3, ScriptsAfterStart
<1>8. \A S : Has(ops, S) => a \in S \/ o \in S
  <2>1. \A S : (Has(<<a>>, S) <=> a \in S) /\ (Has(<<a, o>>, S) <=> a \in S \/ o \in S)
    BY HasSmall
  <2> QED  BY <1>3, <2>1
<1>9. \A S : a \in S => Has(ops, S)
  <2>1. \A S : (Has(<<a>>, S) <=> a \in S) /\ (Has(<<a, o>>, S) <=> a \in S \/ o \in S)
    BY HasSmall
  <2> QED  BY <1>3, <2>1
<1>10. /\ \A x \in Ordered : Has(ops, B(x)) <=> ((c = d) /\ (e \in Causes(x)))
       /\ ~ Has(ops, H)
       /\ Has(ops, I) => o = Invite(c)
       /\ Has(ops, D) => o = OnCall("destroy", c)
  BY <1>4, <1>5, <1>8, <1>9 DEF I, D, Ordered
<1>11. /\ Causes("Ring") = {"incoming", "outgoing"} /\ Causes("Up") = {"established"}
       /\ Causes("Hangup") = {"closed", "closed busy"}
  BY DEF Causes
<1>12. /\ (o = Invite(c)) => (c = d /\ t = "main" /\ e = "outgoing")
       /\ (o = OnCall("destroy", c)) => (c = d /\ t = "re" /\ e \in {"closed", "closed busy"})
  <2>1. \/ t = "main" /\ e = "outgoing" /\ o = Invite(d)
        \/ t = "re" /\ o.op = "noCurrent"
        \/ t = "re" /\ e \in {"closed", "closed busy"} /\ o = OnCall("destroy", d)
    BY DEF CallScript
  <2>2. /\ Invite(c).op = "sendInvite" /\ Invite(c).call = c
        /\ Invite(d).op = "sendInvite" /\ Invite(d).call = d
        /\ OnCall("destroy", c).op = "destroy" /\ OnCall("destroy", c).call = c
        /\ OnCall("destroy", d).op = "destroy" /\ OnCall("destroy", d).call = d
    BY DEF Invite, OnCall
  <2> QED  BY <2>1, <2>2
\* The call begins, is established, or ends.
<1>13. CASE c = d /\ e = "outgoing"
  <2>1. t = "main" /\ Call(c)
    BY <1>13 DEF CallScript
  <2>2. phase[c] = "none" /\ phase'[c] = "idle"
    BY <1>1, <2>1 DEF Call, CanBegin
  <2>3. todo'["re"] = todo["re"] /\ todo'["main"] = ops
    BY <1>1, <1>7, <2>1 DEF Threads
  <2>4. /\ ~ Has(ops, B("Up")) /\ ~ Has(ops, B("Hangup")) /\ ~ Has(ops, D)
        /\ told[c] = <<>>
        /\ ~ Has(re, B("Ring")) /\ ~ Has(re, B("Up")) /\ ~ Has(re, B("Hangup"))
        /\ ~ Has(re, D)
    BY <1>1, <1>10, <1>11, <1>12, <1>13, <2>2 DEF InOrder, Over, Ordered, B, D
  <2>5. ~ Has(re, H)
    BY <1>5, <2>4, HasMore
  <2> QED  BY <1>1, <1>6, <2>2, <2>3, <2>4, <2>5 DEF InOrder, Over, Threads, I, D
<1>14. CASE c = d /\ e = "incoming"
  <2>1. t = "re" /\ Incoming(c)
    BY <1>14 DEF CallScript
  <2>2. phase[c] = "none" /\ phase'[c] = "incoming"
    BY <1>1, <2>1 DEF Incoming, CanBegin
  <2>3. todo'["main"] = main /\ todo'["re"] = ops
    BY <1>1, <1>7, <2>1 DEF Threads
  <2>4. /\ Has(ops, B("Ring")) /\ ~ Has(ops, B("Up")) /\ ~ Has(ops, B("Hangup"))
        /\ ~ Has(ops, D) /\ ~ Has(ops, H)
        /\ told[c] = <<>> /\ ~ Has(main, I) /\ ~ Has(main, B("Ring"))
        /\ ~ Has(main, B("Up")) /\ ~ Has(main, B("Hangup")) /\ ~ Has(main, D)
    BY <1>1, <1>10, <1>11, <1>12, <1>14, <2>2 DEF InOrder, Over, Ordered, B, D, I
  <2> QED  BY <1>1, <1>6, <2>2, <2>3, <2>4 DEF InOrder, Over, Threads, I, D
<1>15. CASE c = d /\ e = "established"
  <2>1. t = "re" /\ Established(c)
    BY <1>15 DEF CallScript
  <2>2. phase[c] \in {"outgoing", "answered"} /\ phase'[c] = "up"
    BY <1>1, <2>1 DEF Established
  <2>3. todo'["main"] = main /\ todo'["re"] = ops
    BY <1>1, <1>7, <2>1 DEF Threads
  <2>4. told[c] = Rang
    <3>1. WasTold(c, "Ring")
      BY <1>1, <1>7, <2>1, <2>2 DEF RingFirst, RingTold
    <3>2. told[c] # <<>>
      BY <3>1 DEF WasTold
    <3> QED  BY <1>1, <2>2, <3>2 DEF InOrder
  <2>5. /\ ~ Has(ops, B("Ring")) /\ ~ Has(ops, B("Hangup"))
        /\ ~ Has(ops, D) /\ ~ Has(ops, H)
        /\ ~ Has(main, I) /\ ~ Has(main, B("Ring"))
        /\ ~ Has(main, B("Up")) /\ ~ Has(main, B("Hangup")) /\ ~ Has(main, D)
    BY <1>1, <1>10, <1>11, <1>12, <1>15, <2>2 DEF InOrder, Over, Ordered, B, D, I
  <2> QED  BY <1>1, <1>6, <2>2, <2>3, <2>4, <2>5 DEF InOrder, Over, Threads, I, D
<1>16. CASE c = d /\ e \in {"closed", "closed busy"}
  <2>1. t = "re" /\ Close(c)
    BY <1>16 DEF CallScript
  <2>2. /\ phase[c] \in {"outgoing", "incoming", "answered", "up"}
        /\ phase'[c] \in {"cancelled", "closing"}
    BY <1>1, <2>1 DEF Close, Live
  <2>3. todo'["main"] = main /\ todo'["re"] = ops
    BY <1>1, <1>7, <2>1 DEF Threads
  <2>4. told[c] \in {Rang, RangUp} \/ (Deaf /\ told[c] = <<>>)
    <3>1. CASE phase[c] = "incoming"
      BY <1>1, <1>7, <2>1, <3>1 DEF InOrder
    <3>2. CASE phase[c] # "incoming"
      <4>1. WasTold(c, "Ring")
        BY <1>1, <1>7, <2>1, <2>2, <3>2 DEF RingFirst, RingTold
      <4>2. told[c] # <<>>
        BY <4>1 DEF WasTold
      <4> QED  BY <1>1, <2>2, <4>2 DEF InOrder
    <3> QED  BY <3>1, <3>2
  <2>5. /\ ~ Has(ops, B("Ring")) /\ ~ Has(ops, B("Up")) /\ ~ Has(ops, H)
        /\ ~ Has(main, I) /\ ~ Has(main, B("Ring"))
        /\ ~ Has(main, B("Up")) /\ ~ Has(main, B("Hangup")) /\ ~ Has(main, D)
    BY <1>1, <1>10, <1>11, <1>16, <2>2 DEF InOrder, Over, Ordered, B, D, I
  <2> QED  BY <1>1, <1>6, <2>2, <2>3, <2>4, <2>5 DEF InOrder, Over, Threads, I, D
\* It does not, or another does.
<1>17. CASE ~ (c = d /\ e \in {"incoming", "outgoing", "established", "closed", "closed busy"})
  <2>1. phase'[c] = phase[c]
    <3>1. CASE e \notin {"incoming", "outgoing", "established", "closed", "closed busy"}
      BY <3>1 DEF CallScript
    <3>2. CASE e \in {"incoming", "outgoing", "established", "closed", "closed busy"}
      <4>1. \E p \in Phases : phase' = [phase EXCEPT ![d] = p]
        BY <3>2 DEF CallScript, Call, Incoming, Established, Close, Phases
      <4> QED  BY <1>1, <1>17, <3>2, <4>1
    <3> QED  BY <3>1, <3>2
  <2>2. /\ \A x \in Ordered : ~ Has(ops, B(x))
        /\ ~ Has(ops, I) /\ ~ Has(ops, D)
    BY <1>10, <1>11, <1>12, <1>17 DEF Ordered
  <2> QED  BY <1>1, <1>3, <2>1, <2>2, OrderStart DEF B, I, D
<1> QED  BY <1>13, <1>14, <1>15, <1>16, <1>17

\* The application neither ends calls nor sets another account up.
OnlyPeersEnd == {"hangup", "init"} \cap Methods = {}

LEMMA OrderKept ==
    ASSUME OnlyPeersEnd, OrderInv, [Next]_vars
    PROVE  OrderInv'
<1>1. /\ RingInv' /\ TypeOK /\ TypeOK' /\ todo \in [Threads -> Seq(Ops)]
      /\ Weighty' = Weighty /\ HangingUp' = HangingUp
  BY RingKept DEF OrderInv, RingInv, TypeOK, Weighty, Bringing, Handling, HangingUp
<1>2. ASSUME \A t \in Threads : Once(todo'[t], Weighty) /\ ~ Has(todo'[t], HangingUp),
             \A c \in CallIds : InOrder(c)'
      PROVE  OrderInv'
  BY <1>1, <1>2 DEF OrderInv
<1>3. ASSUME NEW t \in Threads, NEW ops \in Seq(Ops), Start(t, ops),
             Once(ops, Weighty), ~ Has(ops, HangingUp),
             \A c \in CallIds : InOrder(c)'
      PROVE  OrderInv'
  <2>1. \A r \in Threads : Once(todo'[r], Weighty) /\ ~ Has(todo'[r], HangingUp)
    BY <1>1, <1>3, ScriptsAfterStart DEF OrderInv
  <2> QED  BY <1>2, <1>3, <2>1
<1>4. CASE MethodCalled
  <2>1. PICK ops \in Seq(Ops) : MethodScript(ops)
    BY <1>4, MethodScripts
  <2>2. \A i \in 1 .. Len(ops) :
           ops[i].op \notin CallOps /\ ops[i].op \notin TellingKinds /\ ops[i] \notin HangingUp
    BY <2>1 DEF MethodScript, OnlyPeersEnd, HangingUp, CallOps, TellingKinds
  <2>3. ~ Has(ops, Weighty) /\ ~ Has(ops, HangingUp)
    BY <2>2, WeightyTells DEF Has, Telling
  <2>4. Once(ops, Weighty)
    BY <2>3 DEF Once, Has
  <2>5. \A c \in CallIds : /\ \A x \in Ordered : ~ Has(ops, Bringing(c, x))
                           /\ ~ Has(ops, {Invite(c)}) /\ ~ Has(ops, {OnCall("destroy", c)})
    <3>1. \A c \in CallIds, x \in Ordered : ~ Has(ops, Bringing(c, x))
      BY <2>3, WeightyTells
    <3>2. \A c \in CallIds : Invite(c).op \in CallOps /\ OnCall("destroy", c).op \in CallOps
      BY DEF Invite, OnCall, CallOps
    <3>3. \A c \in CallIds : ~ Has(ops, {Invite(c)}) /\ ~ Has(ops, {OnCall("destroy", c)})
      BY <2>2, <3>2 DEF Has
    <3> QED  BY <3>1, <3>3
  <2>6. /\ Start("main", ops) /\ UNCHANGED told /\ (Deaf => Deaf')
        /\ \A c \in CallIds : phase'[c] = phase[c]
    BY <2>1 DEF MethodScript, Deaf
  <2>7. \A c \in CallIds : InOrder(c)'
    BY <2>5, <2>6, OrderStart, ThreadNames
  <2> QED  BY <1>3, <2>3, <2>4, <2>6, <2>7, ThreadNames
<1>5. CASE \E c \in CallIds : CallSteps(c)
  <2>1. PICK d \in CallIds : CallSteps(d)
    BY <1>5
  <2>2. PICK e \in Events, o \in Ops, t \in Threads : CallScript(d, e, o, t)
    BY <2>1, CallStepsStart
  <2> DEFINE a == UaEvent(d, e)
  <2>3. /\ a \in Ops /\ a.op = "uaEvent" /\ o.op \in {"sendInvite", "destroy", "noCurrent"}
    <3>1. Invite(d).op = "sendInvite" /\ OnCall("destroy", d).op = "destroy"
      BY DEF Invite, OnCall
    <3>2. (o = Invite(d)) \/ (o = OnCall("destroy", d)) \/ (o.op = "noCurrent")
      BY <2>2 DEF CallScript
    <3>3. o.op \in {"sendInvite", "destroy", "noCurrent"}
      BY <3>1, <3>2
    <3> QED  BY <3>3, OpTypes DEF UaEvent
  <2>4. PICK ops \in {<<a>>, <<a, o>>} : Start(t, ops)
    BY <2>2 DEF CallScript
  <2> HIDE DEF a
  <2>5. a \notin HangingUp /\ o \notin HangingUp /\ o \notin Weighty
    BY <2>3, WeightyTells DEF HangingUp, Telling, TellingKinds
  <2>6. /\ <<a>> \in Seq(Ops) /\ <<a, o>> \in Seq(Ops)
        /\ Once(<<a>>, Weighty) /\ Once(<<a, o>>, Weighty)
        /\ ~ Has(<<a>>, HangingUp) /\ ~ Has(<<a, o>>, HangingUp)
    BY <2>3, <2>5, ShortScripts, OnceSmall, HasSmall
  <2>7. \A c \in CallIds : InOrder(c)'
    BY <2>2, OrderReport
  <2> QED  BY <1>3, <2>4, <2>6, <2>7
<1>6. ASSUME NEW t \in Threads, Step(t)  PROVE OrderInv'
  <2>1. Once(todo[t], Weighty) /\ ~ Has(todo[t], HangingUp)
    BY DEF OrderInv
  <2>2. ~ Hangup(t) /\ ~ Has(todo'[t], HangingUp)
    BY <1>1, <1>6, <2>1, NoHangingUp
  <2>3. PICK ops \in Seq(Ops) :
           /\ todo[t] # <<>> /\ Continue(t, ops) /\ Once(ops, Weighty)
           /\ \A c \in CallIds, x \in Ordered :
                 Has(ops, Bringing(c, x)) => Head(todo[t]) \in Bringing(c, x)
    BY <1>1, <1>6, <2>2, StepWeighs
  <2>4. Head(todo[t]) \in Weighty \/ ~ Has(ops, Weighty)
    BY <2>3, WeightyTells
  <2>5. Once(ops \o Tail(todo[t]), Weighty)
    BY <1>1, <2>1, <2>3, <2>4, OnceContinue
  <2>6. /\ todo'[t] = ops \o Tail(todo[t])
        /\ \A r \in Threads \ {t} : todo'[r] = todo[r]
    BY <1>1, <2>3 DEF Continue
  <2>7. \A r \in Threads : Once(todo'[r], Weighty) /\ ~ Has(todo'[r], HangingUp)
    BY <2>2, <2>5, <2>6 DEF OrderInv
  <2>8. \A c \in CallIds : InOrder(c)'
    BY <1>1, <1>6, OrderStep
  <2> QED  BY <1>2, <2>7, <2>8
<1>7. CASE UNCHANGED vars
  <2>1. UNCHANGED <<ua, isRunning, phase, told, todo>>
    BY <1>7 DEF vars, kotlin, baresip, dart
  <2>2. \A c \in CallIds : InOrder(c)' <=> InOrder(c)
    BY <2>1 DEF InOrder, Over, Deaf, HeardEnd, Bringing, Handling
  <2> QED  BY <1>2, <2>1, <2>2 DEF OrderInv
<1> QED  BY <1>4, <1>5, <1>6, <1>7 DEF Next, MethodCalled

(* A step tells an event of a call when it is its turn, or none.           *)
LEMMA OrderTold ==
    ASSUME OrderInv, [Next]_vars
    PROVE  [Status!Next]_told
<1>1. /\ TypeOK /\ todo \in [Threads -> Seq(Ops)]
      /\ told \in [CallIds -> Seq({"Ring", "Up", "Hangup"})]
  BY DEF OrderInv, RingInv, TypeOK
<1>2. ASSUME NEW t \in Threads, TellDart(t), told' # told  PROVE Status!Next
  <2> DEFINE h == Head(todo[t])
             c == h.call
             x == h.event
  <2>1. /\ todo[t] # <<>> /\ h.op = "tell" /\ x \notin {"Paused", "Resuming"}
        /\ told' = [told EXCEPT ![c] = Append(@, x)]
    BY <1>2 DEF TellDart, At
  <2>2. h \in Ops
    BY <1>1, <2>1, HeadTailProperties
  <2>3. c \in CallIds /\ x \in {"Ring", "Up", "Hangup"}
    BY <2>1, <2>2, OpFields DEF CallOps
  <2>4. h \in Bringing(c, x) /\ (x = "Hangup" => h \in HeardEnd(c))
    <3>1. x \in Tellable
      BY <2>3 DEF Tellable
    <3>2. h \in Bringing(c, x)
      BY <2>1, <2>2, <2>3, <3>1, BringingTells
    <3> QED  BY <2>1, <3>2 DEF HeardEnd
  <2>5. Has(todo[t], Bringing(c, x)) /\ (x = "Hangup" => Has(todo[t], HeardEnd(c)))
    BY <1>1, <2>1, <2>4, HasContinue, ShortScripts
  <2>6. InOrder(c)
    BY <2>3 DEF OrderInv
  <2> HIDE DEF c, x
  <2>7. /\ x = "Ring" => told[c] = <<>>
        /\ x = "Up" => told[c] = <<"Ring">>
        /\ x = "Hangup" => told[c] \in {<<"Ring">>, <<"Ring", "Up">>}
    BY <2>5, <2>6 DEF InOrder, Threads, Rang, RangUp
  <2>8. told[c] \in Status!Before(x)
    BY <2>3, <2>7 DEF Status!Before
  <2>9. Status!Tell(c, x)
    BY <2>1, <2>8 DEF Status!Tell, c, x
  <2> QED  BY <2>3, <2>9 DEF Status!Next
<1>3. ASSUME ~ \E t \in Threads : TellDart(t)  PROVE told' = told
  <2>1. CASE \E t \in Threads : Step(t)
    BY <1>3, <2>1 DEF Step, HandleUaEvent, SipCall, Delist, CloseCurrent, NoCurrent, SendInvite,
                SetCurrent, WithCurrent, Answer, SendAnswer, Hangup, Destroy, Hold, SetUa,
                MediaStep, dart
  <2>2. CASE \E c \in CallIds : CallSteps(c)
    BY <2>2 DEF CallSteps, Call, Incoming, Progress, Established, PeerUpdate, OtherEvent, Close,
                dart
  <2>3. CASE MethodCalled
    BY <2>3, MethodScripts DEF MethodScript
  <2>4. CASE UNCHANGED vars
    BY <2>4 DEF vars, dart
  <2> QED  BY <2>1, <2>2, <2>3, <2>4 DEF Next, MethodCalled
<1> QED  BY <1>2, <1>3

LEMMA OrderBegins == ASSUME Init  PROVE OrderInv
<1>1. /\ \A t \in Threads : todo[t] = <<>>
      /\ \A c \in CallIds : phase[c] = "none" /\ told[c] = <<>>
  BY DEF Init
<1>2. \A t \in Threads : Once(todo[t], Weighty) /\ \A S : ~ Has(todo[t], S)
  BY <1>1, OnceSmall, HasSmall
<1>3. \A c \in CallIds : InOrder(c)
  BY <1>1, <1>2, ThreadNames DEF InOrder
<1> QED  BY <1>2, <1>3, RingBegins DEF OrderInv

(* Calls implements CallStatus while the application leaves it to the      *)
(* peers to end calls and keeps or gives up its account: a call rings,     *)
(* then it may be established, then it ends, and each is told once.        *)
THEOREM EventsComeInOrder ==
    ASSUME OnlyPeersEnd
    PROVE  Spec => EventsInOrder
<1>1. Init => OrderInv /\ Status!Init
  BY OrderBegins DEF Init, Status!Init
<1>2. OrderInv /\ [Next]_vars => OrderInv'
  BY OrderKept
<1>3. OrderInv /\ [Next]_vars => [Status!Next]_told
  BY OrderTold
<1> QED  BY <1>1, <1>2, <1>3, PTL DEF Spec, EventsInOrder, Status!Spec
-----------------------------------------------------------------------------
(* Calls that follow one another: the live call can be acted on, and no    *)
(* sound outlives its call.                                                *)

Handled(events) == {o \in Ops : o.op \in {"uaEvent", "sipCall"} /\ o.event \in events}

\* A peer has ended a call, and the current one is to be closed ...
CloseCurrents == {o \in Ops : o.op = "closeCurrent"}
Closers == CloseCurrents \union Handled({"closed", "closed busy"})

\* ... or to be forgotten, after a busy tone perhaps, or to be destroyed.
Closing == Closers \union {o \in Ops : o.op = "noCurrent"}
Endings == Closing \union {o \in Ops : o.op = "playBusy"}
Destroying == {o \in Ops : o.op = "destroy"}

\* A ringtone is to be played, or a ring-back tone, or the player is to start.
Ringers == {o \in Ops : o.op \in {"startRinging", "newTimer", "schedule"}}
           \union Handled({"incoming"})
RingBacks == {o \in Ops : o.op = "playRingBack" \/ (o.op = "newPlayer" /\ o.tone = "ringback")}
             \union Handled({"ringing", "progress"})
Starters == {o \in Ops : o.op = "startPlayer"}

PeersOnly == Endings \union Destroying \union Ringers \union RingBacks \union Starters

(* These sets are told apart by the kind of their operations.              *)
LEMMA PeersOnlyKinds ==
    ASSUME NEW o \in Ops
    PROVE  /\ o \in PeersOnly <=>
                 \/ o \in Endings \/ o \in Destroying
                 \/ o \in Ringers \/ o \in RingBacks \/ o \in Starters
           /\ o \in Closers => o \in Closing
           /\ o \in Closing => o \in Endings
           /\ o \in CloseCurrents => o \in Closers
           /\ o.op = "noCurrent" => o \in Closing
           /\ o.op = "playBusy" => o \in Endings
           /\ o.op = "closeCurrent" <=> o \in CloseCurrents
           /\ o.op = "destroy" <=> o \in Destroying
           /\ o.op = "startPlayer" <=> o \in Starters
           /\ o.op \in {"startRinging", "newTimer", "schedule"} => o \in Ringers
           /\ o.op = "playRingBack" => o \in RingBacks
           /\ o.op = "newPlayer" => (o \in RingBacks <=> o.tone = "ringback")
           /\ o \in Destroying =>
                 o \notin Endings /\ o \notin Ringers /\ o \notin RingBacks /\ o \notin Starters
           /\ o \in Endings => o \notin Ringers /\ o \notin Starters
           /\ o.op \in {"uaEvent", "sipCall"} =>
                 /\ o \in Closers <=> o.event \in {"closed", "closed busy"}
                 /\ o \in Closing <=> o.event \in {"closed", "closed busy"}
                 /\ o \in Endings <=> o.event \in {"closed", "closed busy"}
                 /\ o \in Ringers <=> o.event = "incoming"
                 /\ o \in RingBacks <=> o.event \in {"ringing", "progress"}
           /\ o.op \notin {"uaEvent", "sipCall"} =>
                 /\ o \in Closers <=> o.op = "closeCurrent"
                 /\ o \in Closing <=> o.op \in {"closeCurrent", "noCurrent"}
                 /\ o \in Endings <=> o.op \in {"closeCurrent", "noCurrent", "playBusy"}
                 /\ o \in Ringers <=> o.op \in {"startRinging", "newTimer", "schedule"}
                 /\ o \in RingBacks => o.op \in {"playRingBack", "newPlayer"}
BY DEF PeersOnly, Endings, Closing, Closers, CloseCurrents, Destroying, Ringers, RingBacks,
       Starters, Handled

LEMMA PeersOnlyParts ==
    ASSUME NEW s
    PROVE  /\ Has(s, PeersOnly) =>
                 \/ Has(s, Endings) \/ Has(s, Destroying)
                 \/ Has(s, Ringers) \/ Has(s, RingBacks) \/ Has(s, Starters)
           /\ ~ Has(s, PeersOnly) =>
                 /\ ~ Has(s, Endings) /\ ~ Has(s, Destroying)
                 /\ ~ Has(s, Ringers) /\ ~ Has(s, RingBacks) /\ ~ Has(s, Starters)
           /\ Has(s, CloseCurrents) => Has(s, Closers)
           /\ Has(s, Closers) => Has(s, Closing)
           /\ Has(s, Closing) => Has(s, Endings)
           /\ \A c \in CallIds : Has(s, {OnCall("destroy", c)}) => Has(s, Destroying)
           /\ Has(s, Destroying) => \E c \in CallIds : Has(s, {OnCall("destroy", c)})
<1>1. \A c \in CallIds : OnCall("destroy", c) \in Destroying
  BY OpTypes DEF Destroying, OnCall
<1>2. \A o \in Destroying : o.call \in CallIds /\ o = OnCall("destroy", o.call)
  BY DEF Destroying, OnCall, Ops
<1>3. Has(s, Destroying) => \E c \in CallIds : Has(s, {OnCall("destroy", c)})
  BY <1>2 DEF Has
<1> QED  BY <1>1, <1>3 DEF Has, PeersOnly, Endings, Closing, Closers

(* What comes into the place of the operation h: ops, which are of these   *)
(* sets only where h was, or where h plays a tone.                         *)
Replaces(ops, h) ==
    /\ Has(ops, Closing) => h \in Closing
    /\ Has(ops, Endings) => h \in Endings
    /\ Has(ops, Ringers) => h \in Ringers
    /\ Has(ops, RingBacks) => h \in RingBacks
    /\ Has(ops, Starters) => h \in RingBacks \/ (h \in Endings /\ h.op = "playBusy")
    /\ ~ Has(ops, Destroying)
    /\ Once(ops, Closing)

LEMMA NothingReplaces ==
    ASSUME NEW ops, ~ Has(ops, PeersOnly), NEW h
    PROVE  Replaces(ops, h)
<1>1. /\ ~ Has(ops, Closing) /\ ~ Has(ops, Endings) /\ ~ Has(ops, Ringers)
      /\ ~ Has(ops, RingBacks) /\ ~ Has(ops, Starters) /\ ~ Has(ops, Destroying)
  BY PeersOnlyParts
<1>2. \A S : ~ Has(ops, S) => Once(ops, S)
  BY DEF Has, Once
<1> QED  BY <1>1, <1>2 DEF Replaces

(* One operation does, with others that are not of these sets.             *)
LEMMA OneReplaces ==
    ASSUME NEW ops, NEW o, NEW h,
           \A S : S \subseteq PeersOnly => (Has(ops, S) => o \in S),
           Once(ops, PeersOnly),
           o \in Closing => h \in Closing,
           o \in Endings => h \in Endings,
           o \in Ringers => h \in Ringers,
           o \in RingBacks => h \in RingBacks,
           o \notin Destroying, o \notin Starters
    PROVE  Replaces(ops, h)
<1>1. /\ Closing \subseteq PeersOnly /\ Endings \subseteq PeersOnly
      /\ Destroying \subseteq PeersOnly /\ Ringers \subseteq PeersOnly
      /\ RingBacks \subseteq PeersOnly /\ Starters \subseteq PeersOnly
  BY DEF PeersOnly, Endings
<1>2. Once(ops, Closing)
  BY <1>1 DEF Once
<1> QED  BY <1>1, <1>2 DEF Replaces

LEMMA ReactionReplaces ==
    ASSUME NEW h \in Ops, h.op = "sipCall"
    PROVE  /\ Replaces(Reaction(h.call, h.event), h)
           /\ h \in Closers => Has(Reaction(h.call, h.event), Closers)
<1> DEFINE c == h.call
           e == h.event
           r == Reaction(c, e)
<1>1. c \in CallIds /\ e \in Events
  BY OpFields DEF CallOps
<1>2. /\ h \in Closers <=> e \in {"closed", "closed busy"}
      /\ h \in Closing <=> e \in {"closed", "closed busy"}
      /\ h \in Endings <=> e \in {"closed", "closed busy"}
      /\ h \in Ringers <=> e = "incoming"
      /\ h \in RingBacks <=> e \in {"ringing", "progress"}
  BY PeersOnlyKinds
<1>3. \A o \in Ops : o.op \in {"tell", "stopMediaPlayer", "delist"} => o \notin PeersOnly
  BY PeersOnlyKinds
<1>4. \A x \in Tellable : Tell(c, x) \in Ops /\ Tell(c, x) \notin PeersOnly
  <2>1. \A x \in Tellable : Tell(c, x) \in Ops /\ Tell(c, x).op = "tell"
    BY <1>1, OpTypes DEF Tell, Tellable
  <2> QED  BY <1>3, <2>1
<1>5. Do("stopMediaPlayer") \notin PeersOnly /\ OnCall("delist", c) \notin PeersOnly
  <2>1. /\ Do("stopMediaPlayer") \in Ops /\ Do("stopMediaPlayer").op = "stopMediaPlayer"
        /\ OnCall("delist", c) \in Ops /\ OnCall("delist", c).op = "delist"
    BY <1>1, OpTypes DEF Do, OnCall
  <2> QED  BY <1>3, <2>1
<1>6. ASSUME ~ Has(r, PeersOnly), e \notin {"closed", "closed busy"}
      PROVE  Replaces(r, h) /\ (h \in Closers => Has(r, Closers))
  BY <1>2, <1>6, NothingReplaces
<1>7. CASE e = "incoming"
  <2> DEFINE o == Do("startRinging")
             x == Tell(c, "Ring")
  <2>1. r = <<o, x>>
    BY <1>7 DEF Reaction
  <2>2. o \in Ops /\ o.op = "startRinging" /\ x \notin PeersOnly
    BY <1>4, OpTypes DEF Tellable, Do
  <2> HIDE DEF o, x
  <2>3. (\A S : Has(<<o, x>>, S) <=> o \in S \/ x \in S) /\ Once(<<o, x>>, PeersOnly)
    BY <2>2, HasSmall, OnceSmall
  <2>4. \A S : S \subseteq PeersOnly => (Has(<<o, x>>, S) => o \in S)
    BY <2>2, <2>3
  <2>5. /\ o \notin Closing /\ o \notin Endings /\ o \notin RingBacks
        /\ o \notin Destroying /\ o \notin Starters
    BY <2>2, PeersOnlyKinds
  <2>6. Replaces(<<o, x>>, h)
    BY <1>2, <1>7, <2>3, <2>4, <2>5, OneReplaces
  <2> QED  BY <1>2, <1>7, <2>1, <2>6
<1>8. CASE e = "outgoing"
  BY <1>4, <1>6, <1>8, HasSmall DEF Reaction, Tellable
<1>9. CASE e \in {"ringing", "progress"}
  <2> DEFINE o == Do("playRingBack")
  <2>1. r = <<o>>
    BY <1>9 DEF Reaction
  <2>2. o \in Ops /\ o.op = "playRingBack"
    BY OpTypes DEF Do
  <2> HIDE DEF o
  <2>3. (\A S : Has(<<o>>, S) <=> o \in S) /\ Once(<<o>>, PeersOnly)
    BY HasSmall, OnceSmall
  <2>4. /\ o \notin Closing /\ o \notin Endings /\ o \notin Ringers
        /\ o \notin Destroying /\ o \notin Starters
    BY <2>2, PeersOnlyKinds
  <2>5. Replaces(<<o>>, h)
    BY <1>2, <1>9, <2>3, <2>4, OneReplaces
  <2> QED  BY <1>2, <1>9, <2>1, <2>5
<1>10. CASE e = "early media"
  BY <1>5, <1>6, <1>10, HasSmall DEF Reaction
<1>11. CASE e \in {"update 0", "update 1", "update 2", "update 3"}
  BY <1>4, <1>6, <1>11, HasSmall DEF Reaction, UpdateTold, Tellable
<1>12. CASE e = "established"
  BY <1>4, <1>6, <1>12, HasSmall DEF Reaction, Tellable
<1>13. CASE e \in {"closed", "closed busy"}
  <2> DEFINE o == [op |-> "closeCurrent", busy |-> e = "closed busy"]
             x == Tell(c, "Hangup")
             y == OnCall("delist", c)
  <2>1. r = <<x, y, o>>
    BY <1>13 DEF Reaction, Ending
  <2>2. o \in Ops /\ o.op = "closeCurrent" /\ x \notin PeersOnly /\ y \notin PeersOnly
    BY <1>4, <1>5, OpTypes DEF Tellable
  <2> HIDE DEF o, x, y
  <2>3. \A S : Has(<<x, y, o>>, S) <=> x \in S \/ y \in S \/ o \in S
    BY HasThree
  <2>4. Once(<<x, y, o>>, PeersOnly)
    <3>1. /\ Len(<<x, y, o>>) = 3
          /\ <<x, y, o>>[1] = x /\ <<x, y, o>>[2] = y /\ <<x, y, o>>[3] = o
      OBVIOUS
    <3> QED  BY <2>2, <3>1 DEF Once
  <2>5. \A S : S \subseteq PeersOnly => (Has(<<x, y, o>>, S) => o \in S)
    BY <2>2, <2>3
  <2>6. /\ o \in Closers /\ o \notin Ringers /\ o \notin RingBacks
        /\ o \notin Destroying /\ o \notin Starters
    BY <2>2, PeersOnlyKinds
  <2>7. Replaces(<<x, y, o>>, h)
    BY <1>2, <1>13, <2>4, <2>5, <2>6, OneReplaces
  <2>8. Has(<<x, y, o>>, Closers)
    BY <2>3, <2>6
  <2> QED  BY <2>1, <2>7, <2>8
<1>14. CASE e = "other"
  BY <1>6, <1>14, HasSmall DEF Reaction
<1> QED  BY <1>1, <1>7, <1>8, <1>9, <1>10, <1>11, <1>12, <1>13, <1>14 DEF Events

(* The step of a thread that hangs nothing up puts operations of these     *)
(* sets only in the place of one.  It closes the current call only when    *)
(* there is one, and then stops its sounds; while the plugin listens, the  *)
(* report of an end leads to that, and the report of a call makes it the   *)
(* current one.                                                            *)
TurnScript(t, ops) ==
    LET h == Head(todo[t]) IN
    /\ todo[t] # <<>> /\ Continue(t, ops)
    /\ Replaces(ops, h)
    /\ Has(ops, CloseCurrents) => currentCall' # NoCall
    /\ h \in Closers /\ ~ Deaf =>
          \/ Has(ops, Closers)
          \/ /\ h \in CloseCurrents
             /\ currentCall # NoCall =>
                   Has(ops, {Do("stopRinging")}) /\ Has(ops, {Do("stopMediaPlayer")})
    /\ \A c \in CallIds : h \in Handling(c, "incoming") /\ ~ Deaf =>
          Has(ops, Handling(c, "incoming")) \/ h.op = "sipCall"

LEMMA StepReplaces ==
    ASSUME TypeOK, NEW t \in Threads, Step(t), ~ Hangup(t)
    PROVE  \E ops \in Seq(Ops) : TurnScript(t, ops)
<1> DEFINE h == Head(todo[t])
<1>1. todo[t] # <<>> => h \in Ops
  BY HeadTailProperties DEF TypeOK
<1>2. ASSUME todo[t] # <<>>, NEW ops \in Seq(Ops), Continue(t, ops), ~ Has(ops, PeersOnly),
             h \notin Closers, \A c \in CallIds : h \notin Handling(c, "incoming")
      PROVE  TurnScript(t, ops)
  <2>1. Replaces(ops, h) /\ ~ Has(ops, CloseCurrents)
    BY <1>2, NothingReplaces, PeersOnlyParts
  <2> QED  BY <1>2, <2>1 DEF TurnScript
<1>3. \A c \in CallIds : h.op \notin {"uaEvent", "sipCall"} => h \notin Handling(c, "incoming")
  BY DEF Handling
<1>4. CASE HandleUaEvent(t)
  <2> DEFINE o == [op |-> "sipCall", call |-> h.call, event |-> h.event]
  <2>1. todo[t] # <<>> /\ h.op = "uaEvent"
    BY <1>4 DEF HandleUaEvent, At
  <2>2. h.call \in CallIds /\ h.event \in Events /\ h \in Ops
    BY <1>1, <2>1, OpFields DEF CallOps
  <2>3. CASE Deaf
    <3>1. Continue(t, <<>>) /\ <<>> \in Seq(Ops) /\ \A S : ~ Has(<<>>, S)
      BY <1>4, <2>3, ShortScripts, HasSmall DEF HandleUaEvent, Deaf
    <3>2. Replaces(<<>>, h)
      BY <3>1, NothingReplaces
    <3> QED  BY <2>1, <2>3, <3>1, <3>2 DEF TurnScript
  <2>4. CASE ~ Deaf
    <3>1. Continue(t, <<o>>)
      BY <1>4, <2>4 DEF HandleUaEvent, Deaf
    <3>2. o \in Ops /\ o.op = "sipCall" /\ o.call = h.call /\ o.event = h.event
      BY <2>2, OpTypes
    <3> HIDE DEF o
    <3>3. /\ o \in Closing <=> h \in Closing
          /\ o \in Endings <=> h \in Endings
          /\ o \in Closers <=> h \in Closers
          /\ o \in Ringers <=> h \in Ringers
          /\ o \in RingBacks <=> h \in RingBacks
          /\ o \notin Destroying /\ o \notin CloseCurrents /\ o \notin Starters
      BY <2>1, <2>2, <3>2, PeersOnlyKinds
    <3>4. \A c \in CallIds : o \in Handling(c, "incoming") <=> h \in Handling(c, "incoming")
      BY <2>1, <2>2, <3>2 DEF Handling
    <3>5. /\ <<o>> \in Seq(Ops) /\ \A S : Has(<<o>>, S) <=> o \in S
          /\ \A S : Once(<<o>>, S)
      BY <3>2, ShortScripts, HasSmall, OnceSmall
    <3>6. Replaces(<<o>>, h)
      BY <2>1, <3>3, <3>5 DEF Replaces
    <3> QED  BY <2>1, <3>1, <3>3, <3>4, <3>5, <3>6 DEF TurnScript
  <2> QED  BY <2>3, <2>4
<1>5. CASE SipCall(t)
  <2> DEFINE r == Reaction(h.call, h.event)
  <2>1. /\ todo[t] # <<>> /\ h.op = "sipCall" /\ Continue(t, r)
        /\ currentCall' = GetSipCall(h.call)
    BY <1>5 DEF SipCall, At
  <2>2. h.call \in CallIds /\ h.event \in Events /\ h \in Ops
    BY <1>1, <2>1, OpFields DEF CallOps
  <2>3. currentCall' # NoCall
    <3>1. GetSipCall(h.call) \in [callp : CallIds, ua : BOOLEAN]
      BY <2>2 DEF GetSipCall
    <3> QED  BY <2>1, <3>1, NoCallAssumption
  <2>4. r \in Seq(Ops) /\ Replaces(r, h) /\ (h \in Closers => Has(r, Closers))
    BY <2>1, <2>2, ReactionType, ReactionReplaces
  <2> HIDE DEF r
  <2>5. TurnScript(t, r)
    BY <2>1, <2>3, <2>4 DEF TurnScript
  <2> QED  BY <2>4, <2>5
<1>6. CASE TellDart(t)
  <2>1. todo[t] # <<>> /\ h.op = "tell" /\ Continue(t, <<>>) /\ <<>> \in Seq(Ops)
    BY <1>6, ShortScripts DEF TellDart, At
  <2>2. h \notin Closers /\ ~ Has(<<>>, PeersOnly)
    BY <1>1, <2>1, PeersOnlyKinds, HasSmall
  <2> QED  BY <1>2, <1>3, <2>1, <2>2
<1>7. CASE Answer(t)
  <2> DEFINE a == UaEvent(h.call, "other")
             b == OnCall("sendAnswer", h.call)
  <2>1. todo[t] # <<>> /\ h.op = "answer" /\ (Continue(t, <<a, b>>) \/ Continue(t, <<>>))
    BY <1>7 DEF Answer, At
  <2>2. h.call \in CallIds /\ "other" \in Events
    BY <1>1, <2>1, OpFields DEF CallOps, Events
  <2>3. /\ a \in Ops /\ a.op = "uaEvent" /\ a.event = "other"
        /\ b \in Ops /\ b.op = "sendAnswer"
    BY <2>2, OpTypes DEF UaEvent, OnCall
  <2> HIDE DEF a, b
  <2>4. a \notin PeersOnly /\ b \notin PeersOnly /\ h \notin Closers
    BY <1>1, <2>1, <2>3, PeersOnlyKinds
  <2>5. /\ <<a, b>> \in Seq(Ops) /\ ~ Has(<<a, b>>, PeersOnly)
        /\ <<>> \in Seq(Ops) /\ ~ Has(<<>>, PeersOnly)
    BY <2>3, <2>4, ShortScripts, HasSmall
  <2> QED  BY <1>2, <1>3, <2>1, <2>4, <2>5
<1>8. CASE CloseCurrent(t)
  <2>1. todo[t] # <<>> /\ h.op = "closeCurrent"
    BY <1>8 DEF CloseCurrent, At
  <2>2. h \in Ops /\ h \in CloseCurrents /\ h \in Closing /\ h \in Endings
    BY <1>1, <2>1, PeersOnlyKinds
  <2>3. CASE currentCall = NoCall
    <3>1. Continue(t, <<>>) /\ <<>> \in Seq(Ops) /\ \A S : ~ Has(<<>>, S)
      BY <1>8, <2>3, ShortScripts, HasSmall DEF CloseCurrent
    <3>2. Replaces(<<>>, h)
      BY <3>1, NothingReplaces
    <3> QED  BY <1>3, <2>1, <2>2, <2>3, <3>1, <3>2 DEF TurnScript
  <2>4. CASE currentCall # NoCall
    <3> DEFINE u == Do("stopRinging")
               v == Do("stopMediaPlayer")
               x == IF h.busy THEN Do("playBusy") ELSE Do("resetIfCurrent")
               n == Do("noCurrent")
               ops == <<u, v, x, n>>
    <3>1. Continue(t, ops)
      BY <1>8, <2>4 DEF CloseCurrent
    <3>2. /\ u \in Ops /\ u.op = "stopRinging" /\ v \in Ops /\ v.op = "stopMediaPlayer"
          /\ x \in Ops /\ x.op \in {"playBusy", "resetIfCurrent"}
          /\ n \in Ops /\ n.op = "noCurrent"
      BY OpTypes DEF Do
    <3> HIDE DEF u, v, x, n
    <3>3. /\ u \notin PeersOnly /\ v \notin PeersOnly /\ u \notin Closing /\ v \notin Closing
          /\ x \notin Closing /\ x \notin Ringers /\ x \notin RingBacks /\ x \notin Destroying
          /\ x \notin Starters /\ x \notin CloseCurrents
          /\ n \notin Ringers /\ n \notin RingBacks /\ n \notin Destroying /\ n \notin Starters
          /\ n \notin CloseCurrents
      BY <3>2, PeersOnlyKinds
    <3>4. /\ ops \in Seq(Ops) /\ Len(ops) = 4
          /\ ops[1] = u /\ ops[2] = v /\ ops[3] = x /\ ops[4] = n
      BY <3>2, ShortScripts
    <3> HIDE DEF ops
    <3>5. Once(ops, Closing)
      BY <3>3, <3>4 DEF Once
    <3>6. \A S : Has(ops, S) <=> u \in S \/ v \in S \/ x \in S \/ n \in S
      BY <3>4 DEF Has
    <3>7. /\ u \notin Ringers /\ u \notin RingBacks /\ u \notin Destroying /\ u \notin Starters
          /\ v \notin Ringers /\ v \notin RingBacks /\ v \notin Destroying /\ v \notin Starters
          /\ u \notin CloseCurrents /\ v \notin CloseCurrents
      BY <3>2, PeersOnlyKinds
    <3>8. Replaces(ops, h)
      BY <2>2, <3>3, <3>5, <3>6, <3>7 DEF Replaces
    <3>9. ~ Has(ops, CloseCurrents) /\ Has(ops, {u}) /\ Has(ops, {v})
      BY <3>3, <3>6, <3>7
    <3>10. TurnScript(t, ops)
      BY <1>3, <2>1, <2>2, <3>1, <3>8, <3>9 DEF TurnScript, u, v
    <3> QED  BY <3>4, <3>10
  <2> QED  BY <2>3, <2>4
<1>9. CASE PlainStep(t) /\ ~ CloseCurrent(t)
  <2>1. PICK ops \in Seq(Ops) : PlainScript(t, ops)
    BY <1>9, PlainSteps
  <2>2. /\ todo[t] # <<>> /\ Continue(t, ops)
        /\ h \in Ops /\ h.op \notin {"uaEvent", "sipCall", "closeCurrent"}
    <3>1. h.op # "closeCurrent"
      BY <1>9, MediaScript DEF PlainStep, Delist, CloseCurrent, NoCurrent, SendInvite, SetCurrent,
                  WithCurrent, SendAnswer, Destroy, Hold, SetUa, At, TypeOK, MediaKinds, TimerOps
    <3> QED  BY <1>1, <2>1, <3>1 DEF PlainScript, TellingKinds
  <2>3. h \notin Closers
    BY <2>2, PeersOnlyKinds
  <2>4. \A i \in 1 .. Len(ops) :
           /\ ops[i] \in Ops
           /\ ops[i].op \notin {"uaEvent", "sipCall", "destroy", "startRinging", "playRingBack",
                                "closeCurrent", "noCurrent", "playBusy"}
           /\ ops[i].op \in {"newTimer", "schedule", "newPlayer", "startPlayer"}
                 => ops[i] \in CalledBy(h)
    BY <2>1, <2>2, ElementOfSeq DEF PlainScript, TellingKinds
  <2>5. \A i \in 1 .. Len(ops) :
           /\ ops[i] \notin Closing /\ ops[i] \notin Endings /\ ops[i] \notin Destroying
           /\ ops[i] \notin CloseCurrents
    BY <2>4, PeersOnlyKinds
  <2>6. Has(ops, Ringers) => h \in Ringers
    <3> SUFFICES ASSUME NEW i \in 1 .. Len(ops), ops[i] \in Ringers  PROVE h \in Ringers
      BY DEF Has
    <3>1. ops[i].op \in {"newTimer", "schedule"} /\ ops[i] \in CalledBy(h)
      BY <2>4, PeersOnlyKinds
    <3>2. h.op = "startRinging"
      BY <3>1 DEF CalledBy
    <3> QED  BY <2>2, <3>2, PeersOnlyKinds
  <2>7. Has(ops, RingBacks) => h \in RingBacks
    <3> SUFFICES ASSUME NEW i \in 1 .. Len(ops), ops[i] \in RingBacks  PROVE h \in RingBacks
      BY DEF Has
    <3>1. ops[i].op = "newPlayer" /\ ops[i].tone = "ringback" /\ ops[i] \in CalledBy(h)
      BY <2>4, PeersOnlyKinds
    <3>2. h.op = "playRingBack"
      BY <3>1 DEF CalledBy
    <3> QED  BY <2>2, <3>2, PeersOnlyKinds
  <2>8. Has(ops, Starters) => h \in RingBacks \/ (h \in Endings /\ h.op = "playBusy")
    <3> SUFFICES ASSUME NEW i \in 1 .. Len(ops), ops[i] \in Starters
                 PROVE  h \in RingBacks \/ (h \in Endings /\ h.op = "playBusy")
      BY DEF Has
    <3>1. ops[i].op = "startPlayer" /\ ops[i] \in CalledBy(h)
      BY <2>4, PeersOnlyKinds
    <3>2. h.op \in {"playRingBack", "playBusy"}
      BY <3>1 DEF CalledBy
    <3> QED  BY <2>2, <3>2, PeersOnlyKinds
  <2>9. Replaces(ops, h) /\ ~ Has(ops, CloseCurrents)
    <3>1. /\ ~ Has(ops, Closing) /\ ~ Has(ops, Endings) /\ ~ Has(ops, Destroying)
          /\ ~ Has(ops, CloseCurrents)
      BY <2>5 DEF Has
    <3>2. Once(ops, Closing)
      BY <2>5 DEF Once
    <3> QED  BY <2>6, <2>7, <2>8, <3>1, <3>2 DEF Replaces
  <2>10. TurnScript(t, ops)
    BY <1>3, <2>2, <2>3, <2>9 DEF TurnScript
  <2> QED  BY <2>10
<1> QED  BY <1>4, <1>5, <1>6, <1>7, <1>8, <1>9 DEF Step, PlainStep

(* What is joined contains what its parts do.                              *)
LEMMA HasConcat ==
    ASSUME NEW a \in Seq(Ops), NEW b \in Seq(Ops), NEW S
    PROVE  Has(a \o b, S) <=> Has(a, S) \/ Has(b, S)
<1> DEFINE r == a \o b
<1>1. /\ Len(r) = Len(a) + Len(b) /\ Len(a) \in Nat /\ Len(b) \in Nat
      /\ \A i \in 1 .. Len(a) + Len(b) :
            r[i] = IF i <= Len(a) THEN a[i] ELSE b[i - Len(a)]
  BY ConcatProperties, LenProperties
<1> HIDE DEF r
<1>2. \A i \in 1 .. Len(r) :
         \/ i \in 1 .. Len(a) /\ r[i] = a[i]
         \/ i - Len(a) \in 1 .. Len(b) /\ r[i] = b[i - Len(a)]
  BY <1>1
<1>3. Has(r, S) => Has(a, S) \/ Has(b, S)
  BY <1>2 DEF Has
<1>4. \A i \in 1 .. Len(a) : i \in 1 .. Len(r) /\ r[i] = a[i]
  BY <1>1
<1>5. ASSUME NEW i \in 1 .. Len(b)
      PROVE  Len(a) + i \in 1 .. Len(r) /\ r[Len(a) + i] = b[i]
  <2>1. /\ Len(a) + i \in 1 .. Len(a) + Len(b) /\ ~ Len(a) + i <= Len(a)
        /\ (Len(a) + i) - Len(a) = i
    BY <1>1
  <2> QED  BY <1>1, <2>1
<1> QED  BY <1>3, <1>4, <1>5 DEF Has, r

(* The ring-back tone plays.                                               *)
RingBackPlays == player = [tone |-> "ringback", is |-> "plays"]

(* What a step makes heard, and what it silences.                          *)
LEMMA SoundStep ==
    ASSUME TypeOK, NEW t \in Threads, Step(t)
    PROVE  LET h == Head(todo[t]) IN
           /\ ringing' => ringing \/ h.op = "startRinging"
           /\ \A k \in Timers : timer'[k] = "runs" => timer[k] = "runs" \/ h.op = "schedule"
           /\ RingBackPlays' =>
                 RingBackPlays \/ (h.op = "startPlayer" /\ player.tone = "ringback")
           /\ player'.tone = "ringback" =>
                 player.tone = "ringback" \/ (h.op = "newPlayer" /\ h.tone = "ringback")
           /\ h.op = "stopRingtone" => ~ ringing'
           /\ h.op = "stopMediaPlayer" => ~ RingBackPlays'
           /\ \A k \in Timers : h = OfTimer("cancel", k) => timer'[k] # "runs"
<1> DEFINE h == Head(todo[t])
<1>1. /\ timer \in [Timers -> TimerStates]
      /\ player \in Players \union {NoPlayer}
      /\ todo \in [Threads -> Seq(Ops)] /\ (todo[t] # <<>> => h \in Ops)
  BY HeadTailProperties DEF TypeOK, MediaTypeOK
<1>2. /\ h.op \in TimerOps /\ todo[t] # <<>> => h.timer \in Timers
      /\ \A k : OfTimer("cancel", k).op = "cancel" /\ OfTimer("cancel", k).timer = k
  BY <1>1, OpFields DEF OfTimer
<1>3. /\ player = [tone |-> player.tone, is |-> player.is]
      /\ RingBackPlays <=> player.tone = "ringback" /\ player.is = "plays"
      /\ \A x : [player EXCEPT !.is = x].tone = player.tone /\ [player EXCEPT !.is = x].is = x
  BY <1>1 DEF Players, NoPlayer, RingBackPlays
<1>4. RingBackPlays' => player'.tone = "ringback" /\ player'.is = "plays"
  BY DEF RingBackPlays
<1>5. CASE UNCHANGED <<ringing, timer, player>> /\ h.op \notin {"stopRingtone", "stopMediaPlayer"}
           /\ h.op # "cancel"
  BY <1>2, <1>5 DEF RingBackPlays
<1>6. CASE MediaStep(t)
  <2>1. todo[t] # <<>>
    BY <1>1, <1>6, MediaScript
  <2>2. CASE StartRinging(t) \/ StopRingtone(t)
    BY <1>2, <2>2 DEF StartRinging, StopRingtone, At, RingBackPlays
  <2>3. CASE NewTimer(t) \/ Schedule(t) \/ NoTimer(t)
    <3>1. h.timer \in Timers /\ h.op \in {"newTimer", "schedule", "noTimer"}
      BY <1>2, <2>1, <2>3 DEF NewTimer, Schedule, NoTimer, At, TimerOps
    <3>2. UNCHANGED <<ringing, player>>
      BY <2>3 DEF NewTimer, Schedule, NoTimer
    <3>3. \A k \in Timers : timer'[k] = "runs" => timer[k] = "runs" \/ h.op = "schedule"
      BY <1>1, <2>3, <3>1 DEF NewTimer, Schedule, NoTimer, At
    <3> QED  BY <1>2, <3>1, <3>2, <3>3 DEF RingBackPlays
  <2>4. CASE Cancel(t)
    <3>1. h.timer \in Timers /\ h.op = "cancel" /\ UNCHANGED <<ringing, player>>
      BY <1>2, <2>1, <2>4 DEF Cancel, At, TimerOps
    <3>2. \A k \in Timers : timer'[k] = "runs" => timer[k] = "runs" /\ k # h.timer
      BY <1>1, <2>4, <3>1 DEF Cancel
    <3> QED  BY <1>2, <3>1, <3>2 DEF RingBackPlays
  <2>5. CASE NewPlayer(t)
    <3>1. /\ h.op = "newPlayer" /\ player' = [tone |-> h.tone, is |-> "ready"]
          /\ UNCHANGED <<ringing, timer>>
      BY <2>5 DEF NewPlayer, At
    <3> QED  BY <1>2, <1>4, <3>1
  <2>6. CASE ForgetPlayer(t)
    <3>1. /\ h.op = "noPlayer" /\ player' = NoPlayer /\ UNCHANGED <<ringing, timer>>
      BY <2>6 DEF ForgetPlayer, At
    <3> QED  BY <1>2, <1>4, <3>1 DEF NoPlayer
  <2>7. ASSUME NEW op, NEW able, NEW next, UsePlayer(t, op, able, next)
        PROVE  /\ h.op = op /\ UNCHANGED <<ringing, timer>> /\ player'.tone = player.tone
               /\ player'.is = next \/ player' = player
               /\ player.is \in able \union {"null"} => player'.is = next \/ player' = NoPlayer
    BY <1>3, <2>7 DEF UsePlayer, At
  <2>8. CASE StartPlayer(t)
    <3>1. /\ h.op = "startPlayer" /\ UNCHANGED <<ringing, timer>> /\ player'.tone = player.tone
          /\ player'.is = "plays" \/ player' = player
      BY <2>7, <2>8 DEF StartPlayer
    <3> QED  BY <1>2, <1>4, <3>1
  <2>9. CASE Release(t)
    <3>1. /\ h.op = "release" /\ UNCHANGED <<ringing, timer>> /\ player'.tone = player.tone
          /\ player'.is = "released" \/ player' = player
      BY <2>7, <2>9 DEF Release
    <3> QED  BY <1>2, <1>4, <3>1 DEF RingBackPlays
  <2>10. CASE StopMediaPlayer(t)
    <3>1. /\ h.op = "stopMediaPlayer" /\ UNCHANGED <<ringing, timer>>
          /\ player'.tone = player.tone
          /\ player'.is = "stopped" \/ player' = player
          /\ player.is \in {"ready", "plays", "stopped", "null"} =>
                player'.is = "stopped" \/ player' = NoPlayer
      BY <2>7, <2>10 DEF StopMediaPlayer
    <3>2. player'.is # "plays"
      BY <1>1, <3>1 DEF NoPlayer
    <3> QED  BY <1>2, <1>4, <3>1, <3>2
  <2>11. CASE StopRinging(t) \/ IfTimer(t) \/ PlayRingBack(t) \/ PlayBusy(t) \/ SetCallVolume(t)
              \/ Reset(t)
    BY <1>5, <2>11 DEF StopRinging, IfTimer, PlayRingBack, PlayBusy, PlayTone, SetCallVolume,
                       Reset, ResetCallVolume, At, media
  <2> QED  BY <1>6, <2>2, <2>3, <2>4, <2>5, <2>6, <2>8, <2>9, <2>10, <2>11
           DEF MediaStep, MediaSteps
<1>7. CASE ~ MediaStep(t)
  <2>1. UNCHANGED <<ringing, timer, player>>
    BY <1>7 DEF Step, HandleUaEvent, SipCall, TellDart, Delist, CloseCurrent, NoCurrent,
                SendInvite, SetCurrent, WithCurrent, Answer, SendAnswer, Hangup, Destroy,
                Hold, SetUa, media
  <2>2. h.op \notin {"stopRingtone", "stopMediaPlayer", "cancel"}
    BY <1>7 DEF Step, HandleUaEvent, SipCall, TellDart, Delist, CloseCurrent, NoCurrent,
                SendInvite, SetCurrent, WithCurrent, Answer, SendAnswer, Hangup, Destroy,
                Hold, SetUa, At
  <2> QED  BY <1>5, <2>1, <2>2
<1> QED  BY <1>6, <1>7

(* What a step that silences something calls for, and what the busy tone.  *)
LEMMA SilencingStep ==
    ASSUME TypeOK, NEW t \in Threads, Step(t), todo[t] # <<>>
    PROVE  LET h == Head(todo[t]) IN
           /\ h.op = "stopRinging" =>
                 /\ Has(todo'[t], {Do("stopRingtone")})
                 /\ \A k \in Timers : Has(todo'[t], {OfTimer("ifTimer", k)})
           /\ \A k \in Timers : h = OfTimer("ifTimer", k) /\ timer[k] = "runs" =>
                 Has(todo'[t], {OfTimer("cancel", k)})
           /\ h.op = "playBusy" /\ Has(todo'[t], Starters) =>
                 Has(todo[t], Starters) \/ player.tone # "ringback"
<1> DEFINE h == Head(todo[t])
<1>1. todo \in [Threads -> Seq(Ops)] /\ h \in Ops
  BY HeadTailProperties DEF TypeOK
<1>2. ASSUME NEW ops \in Seq(Ops), Continue(t, ops)
      PROVE  \A S : /\ Has(ops, S) => Has(todo'[t], S)
                    /\ Has(todo'[t], S) => Has(ops, S) \/ Has(todo[t], S)
  BY <1>1, <1>2, ScriptsAfterStep
<1>3. CASE h.op = "stopRinging"
  <2>1. StopRinging(t)
    BY <1>3 DEF Step, HandleUaEvent, SipCall, TellDart, Delist, CloseCurrent, NoCurrent,
                SendInvite, SetCurrent, WithCurrent, Answer, SendAnswer, Hangup, Destroy,
                Hold, SetUa, MediaStep, MediaSteps, Reset, StartRinging, NewTimer, Schedule,
                IfTimer, Cancel, NoTimer, StopRingtone, PlayRingBack, PlayBusy, NewPlayer,
                StartPlayer, StopMediaPlayer, Release, ForgetPlayer, UsePlayer, SetCallVolume, At
  <2> DEFINE a == Stopping("rt")
             b == <<Do("stopRingtone")>>
             c == Stopping("vb")
  <2>2. Continue(t, a \o b \o c)
    BY <2>1 DEF StopRinging
  <2>3. ASSUME NEW k \in {"rt", "vb"}
        PROVE  /\ Stopping(k) \in Seq(Ops)
               /\ k \in Timers => Has(Stopping(k), {OfTimer("ifTimer", k)})
    <3>1. CASE k \in Timers
      <4>1. OfTimer("ifTimer", k) \in Ops
        BY <3>1, OpTypes DEF TimerOps
      <4>2. Stopping(k) = <<OfTimer("ifTimer", k)>>
        BY <3>1 DEF Stopping, WithTimer
      <4> QED  BY <4>1, <4>2, ShortScripts, HasSmall
    <3>2. CASE k \notin Timers
      BY <3>2, ShortScripts DEF Stopping, WithTimer
    <3> QED  BY <3>1, <3>2
  <2>4. b \in Seq(Ops) /\ Has(b, {Do("stopRingtone")})
    <3>1. Do("stopRingtone") \in Ops
      BY OpTypes
    <3> QED  BY <3>1, ShortScripts, HasSmall
  <2>5. a \in Seq(Ops) /\ c \in Seq(Ops)
    BY <2>3
  <2>6. /\ "rt" \in Timers => Has(a, {OfTimer("ifTimer", "rt")})
        /\ "vb" \in Timers => Has(c, {OfTimer("ifTimer", "vb")})
    BY <2>3
  <2> HIDE DEF a, b, c
  <2>7. a \o b \in Seq(Ops) /\ \A S : Has(a \o b, S) <=> Has(a, S) \/ Has(b, S)
    BY <2>4, <2>5, HasConcat, ConcatProperties
  <2>8. PICK d \in Seq(Ops) : d = a \o b
    BY <2>7
  <2>9. d \o c \in Seq(Ops) /\ \A S : Has(d \o c, S) <=> Has(d, S) \/ Has(c, S)
    BY <2>5, HasConcat, ConcatProperties
  <2>10. PICK e \in Seq(Ops) : e = d \o c
    BY <2>9
  <2>11. Continue(t, e) /\ \A S : Has(e, S) <=> Has(a, S) \/ Has(b, S) \/ Has(c, S)
    BY <2>2, <2>7, <2>8, <2>9, <2>10
  <2>12. \A S : Has(a, S) \/ Has(b, S) \/ Has(c, S) => Has(todo'[t], S)
    BY <1>2, <2>11
  <2>13. \A k \in Timers : Has(todo'[t], {OfTimer("ifTimer", k)})
    BY <2>6, <2>12, TimersAssumption
  <2>14. \A k : OfTimer("ifTimer", k).op = "ifTimer"
    BY DEF OfTimer
  <2> QED  BY <1>3, <2>4, <2>12, <2>13, <2>14
<1>4. ASSUME NEW k \in Timers, h = OfTimer("ifTimer", k), timer[k] = "runs"
      PROVE  Has(todo'[t], {OfTimer("cancel", k)})
  <2>1. h.op = "ifTimer" /\ h.timer = k
    BY <1>4 DEF OfTimer
  <2>2. IfTimer(t)
    BY <2>1 DEF Step, HandleUaEvent, SipCall, TellDart, Delist, CloseCurrent, NoCurrent,
                SendInvite, SetCurrent, WithCurrent, Answer, SendAnswer, Hangup, Destroy,
                Hold, SetUa, MediaStep, MediaSteps, Reset, StartRinging, NewTimer, Schedule,
                StopRinging, Cancel, NoTimer, StopRingtone, PlayRingBack, PlayBusy, NewPlayer,
                StartPlayer, StopMediaPlayer, Release, ForgetPlayer, UsePlayer, SetCallVolume, At
  <2> DEFINE a == OfTimer("cancel", k)
             b == OfTimer("noTimer", k)
  <2>3. Continue(t, <<a, b>>)
    BY <1>4, <2>1, <2>2 DEF IfTimer
  <2>4. a \in Ops /\ b \in Ops
    BY OpTypes DEF TimerOps
  <2> HIDE DEF a, b
  <2>5. <<a, b>> \in Seq(Ops) /\ Has(<<a, b>>, {a})
    BY <2>4, ShortScripts, HasSmall
  <2>6. Has(todo'[t], {a})
    BY <1>2, <2>3, <2>5
  <2> QED  BY <2>6 DEF a
<1>5. ASSUME h.op = "playBusy", player.tone = "ringback", Has(todo'[t], Starters)
      PROVE  Has(todo[t], Starters)
  <2>1. PlayBusy(t)
    BY <1>5 DEF Step, HandleUaEvent, SipCall, TellDart, Delist, CloseCurrent, NoCurrent,
                SendInvite, SetCurrent, WithCurrent, Answer, SendAnswer, Hangup, Destroy,
                Hold, SetUa, MediaStep, MediaSteps, Reset, StartRinging, NewTimer, Schedule,
                StopRinging, IfTimer, Cancel, NoTimer, StopRingtone, PlayRingBack, NewPlayer,
                StartPlayer, StopMediaPlayer, Release, ForgetPlayer, UsePlayer, SetCallVolume, At
  <2>2. Continue(t, <<>>)
    BY <1>5, <2>1 DEF PlayBusy, PlayTone, NoPlayer
  <2>3. <<>> \in Seq(Ops) /\ ~ Has(<<>>, Starters)
    BY ShortScripts, HasSmall
  <2> QED  BY <1>2, <1>5, <2>2, <2>3
<1>6. \A k : h = OfTimer("ifTimer", k) => h.op = "ifTimer"
  BY DEF OfTimer
<1> QED  BY <1>3, <1>4, <1>5, <1>6

(* What a step does to the current call; and what it may find too late.    *)
LEMMA CurrentStep ==
    ASSUME TypeOK, NEW t \in Threads, Step(t)
    PROVE  LET h == Head(todo[t]) IN
           /\ h.op \in {"sipCall", "setCurrent"} =>
                 currentCall' # NoCall /\ currentCall'.callp = h.call
           /\ h.op \notin {"sipCall", "setCurrent", "noCurrent"} => currentCall' = currentCall
           /\ h.op = "setCurrent" /\ ~ Live(h.call) => late'
           /\ h.op = "sendAnswer" /\ phase[h.call] = "gone" => misused'
           /\ (late => late') /\ (misused => misused')
<1> DEFINE h == Head(todo[t])
<1>1. \A c \in CallIds : \A b \in BOOLEAN : [callp |-> c, ua |-> b] # NoCall
  BY NoCallAssumption
<1>2. todo[t] # <<>> => h \in Ops
  BY HeadTailProperties DEF TypeOK
<1>3. /\ misused \in BOOLEAN /\ late \in BOOLEAN
      /\ \A c : Use(c) => (misused => misused') /\ (phase[c] = "gone" => misused')
  BY DEF TypeOK, Use
<1>4. CASE SipCall(t)
  <2>1. todo[t] # <<>> /\ h.op = "sipCall" /\ currentCall' = GetSipCall(h.call)
        /\ UNCHANGED <<late, misused>>
    BY <1>4 DEF SipCall, At, baresip, dart
  <2>2. h.call \in CallIds
    BY <1>2, <2>1, OpFields DEF CallOps
  <2>3. GetSipCall(h.call) # NoCall /\ GetSipCall(h.call).callp = h.call
    BY <1>1, <2>2 DEF GetSipCall
  <2> QED  BY <2>1, <2>3
<1>5. CASE SetCurrent(t)
  <2>1. /\ todo[t] # <<>> /\ h.op = "setCurrent" /\ currentCall' = [callp |-> h.call, ua |-> TRUE]
        /\ late' = (late \/ ~ Live(h.call)) /\ misused' = misused
    BY <1>5 DEF SetCurrent, At, baresip
  <2>2. h.call \in CallIds
    BY <1>2, <2>1, OpFields DEF CallOps
  <2> QED  BY <1>1, <2>1, <2>2
<1>6. CASE NoCurrent(t)
  BY <1>6 DEF NoCurrent, At, baresip, dart
<1>7. CASE SendAnswer(t)
  BY <1>3, <1>7 DEF SendAnswer, At, kotlin, dart
<1>8. CASE Answer(t) \/ Hangup(t) \/ Destroy(t) \/ Hold(t)
  BY <1>3, <1>8 DEF Answer, Hangup, Destroy, Hold, At, kotlin, dart
<1>9. CASE HandleUaEvent(t) \/ TellDart(t) \/ Delist(t) \/ CloseCurrent(t) \/ SendInvite(t)
           \/ WithCurrent(t) \/ SetUa(t) \/ MediaStep(t)
  <2>1. UNCHANGED <<currentCall, late, misused>>
    BY <1>9 DEF HandleUaEvent, TellDart, Delist, CloseCurrent, SendInvite, WithCurrent, SetUa,
                MediaStep, kotlin, baresip, dart
  <2>2. h.op \notin {"sipCall", "setCurrent", "noCurrent", "sendAnswer"}
    BY <1>9, MediaScript DEF HandleUaEvent, TellDart, Delist, CloseCurrent, SendInvite,
                             WithCurrent, SetUa, At, TypeOK, MediaKinds, TimerOps
  <2> QED  BY <2>1, <2>2
<1> QED  BY <1>4, <1>5, <1>6, <1>7, <1>8, <1>9 DEF Step

\* A method is about to answer a call, or to make one the current one.
Answering == {o \in Ops : o.op \in {"withCurrent", "answer", "sendAnswer"}}
Acting == Answering \union {o \in Ops : o.op = "setCurrent"}
ActsOn(c) == {OnCall("setCurrent", c), OnCall("sendAnswer", c)}

\* The handling of any event of the call c.
Reports(c) == {o \in Ops : o.op \in {"uaEvent", "sipCall"} /\ o.call = c}

(* Of which calls a step calls for something.                              *)
TargetScript(t, ops) ==
    LET h == Head(todo[t]) IN
    /\ todo[t] # <<>> /\ Continue(t, ops)
    /\ Final(ops, Answering)
    /\ Has(ops, Answering) => h \in Answering
    /\ Has(ops, Acting) => h \in Acting \/ h.op = "sendInvite"
    /\ \A c \in CallIds :
          /\ Has(ops, Reports(c)) =>
                h \in Reports(c) \/ (h.op = "answer" /\ Has(ops, {OnCall("sendAnswer", c)}))
          /\ Has(ops, {OnCall("sendAnswer", c)}) =>
                phase[c] \in {"incoming", "answered", "cancelled"}
          /\ Has(ops, {OnCall("setCurrent", c)}) => h = Invite(c) /\ phase'[c] = "outgoing"

LEMMA TargetSteps ==
    ASSUME TypeOK, NEW t \in Threads, Step(t), ~ Hangup(t)
    PROVE  \E ops \in Seq(Ops) : TargetScript(t, ops)
<1> DEFINE h == Head(todo[t])
<1>1. /\ todo[t] # <<>> => h \in Ops
      /\ phase \in [CallIds -> Phases]
  BY HeadTailProperties DEF TypeOK
<1>2. ASSUME NEW ops \in Seq(Ops), todo[t] # <<>>, Continue(t, ops),
             \A i \in 1 .. Len(ops) :
                ops[i].op \notin {"uaEvent", "sipCall", "withCurrent", "answer", "sendAnswer",
                                  "setCurrent"}
      PROVE  TargetScript(t, ops)
  <2>1. \A c : OnCall("sendAnswer", c).op = "sendAnswer" /\ OnCall("setCurrent", c).op = "setCurrent"
    BY DEF OnCall
  <2>2. ~ Has(ops, Answering) /\ ~ Has(ops, Acting)
    BY <1>2 DEF Has, Answering, Acting
  <2>3. \A c \in CallIds : /\ ~ Has(ops, Reports(c))
                           /\ ~ Has(ops, {OnCall("sendAnswer", c)})
                           /\ ~ Has(ops, {OnCall("setCurrent", c)})
    BY <1>2, <2>1 DEF Has, Reports
  <2> QED  BY <1>2, <2>2, <2>3, FinalSmall DEF TargetScript
<1>3. ASSUME todo[t] # <<>>, Continue(t, <<>>)
      PROVE  \E ops \in Seq(Ops) : TargetScript(t, ops)
  <2>1. <<>> \in Seq(Ops) /\ \A i \in 1 .. Len(<<>>) : FALSE
    BY ShortScripts
  <2>2. TargetScript(t, <<>>)
    BY <1>2, <1>3, <2>1
  <2> QED  BY <2>1, <2>2
<1>4. CASE HandleUaEvent(t)
  <2> DEFINE o == [op |-> "sipCall", call |-> h.call, event |-> h.event]
  <2>1. /\ todo[t] # <<>> /\ h.op = "uaEvent" /\ h \in Ops
        /\ Continue(t, <<o>>) \/ Continue(t, <<>>)
    BY <1>1, <1>4 DEF HandleUaEvent, At
  <2>2. h.call \in CallIds /\ h.event \in Events
    BY <2>1, OpFields DEF CallOps
  <2>3. o \in Ops /\ o.op = "sipCall" /\ o.call = h.call
    BY <2>2, OpTypes
  <2> HIDE DEF o
  <2>4. /\ <<o>> \in Seq(Ops) /\ \A S : Has(<<o>>, S) <=> o \in S
        /\ Final(<<o>>, Answering)
    BY <2>3, ShortScripts, HasSmall, FinalSmall
  <2>5. o \notin Answering /\ o \notin Acting /\ \A c : o \in Reports(c) => h \in Reports(c)
    BY <2>1, <2>3 DEF Answering, Acting, Reports
  <2>6. \A c : o # OnCall("sendAnswer", c) /\ o # OnCall("setCurrent", c)
    BY <2>3 DEF OnCall
  <2>7. CASE Continue(t, <<o>>)
    BY <2>1, <2>4, <2>5, <2>6, <2>7 DEF TargetScript
  <2> QED  BY <1>3, <2>1, <2>7
<1>5. CASE SipCall(t)
  <2>1. todo[t] # <<>> /\ h.op = "sipCall" /\ Continue(t, Reaction(h.call, h.event))
    BY <1>5 DEF SipCall, At
  <2>2. h.call \in CallIds /\ h.event \in Events
    BY <1>1, <2>1, OpFields DEF CallOps
  <2>3. PICK r \in Seq(Ops) : r = Reaction(h.call, h.event)
    BY <2>2, ReactionType
  <2>4. \A i \in 1 .. Len(r) : r[i].op \in ReactionKinds
    BY <2>2, <2>3, ReactionTells
  <2> QED  BY <1>2, <2>1, <2>3, <2>4 DEF ReactionKinds
<1>6. CASE TellDart(t)
  BY <1>3, <1>6 DEF TellDart, At
<1>7. CASE Answer(t)
  <2> DEFINE d == h.call
             a == UaEvent(d, "other")
             b == OnCall("sendAnswer", d)
  <2>1. /\ todo[t] # <<>> /\ h.op = "answer" /\ h \in Ops
        /\ \/ phase[d] \in {"incoming", "answered", "cancelled"} /\ Continue(t, <<a, b>>)
           \/ Continue(t, <<>>)
    BY <1>1, <1>7 DEF Answer, At
  <2>2. d \in CallIds /\ "other" \in Events
    BY <2>1, OpFields DEF CallOps, Events
  <2>3. /\ a \in Ops /\ a.op = "uaEvent" /\ a.call = d
        /\ b \in Ops /\ b.op = "sendAnswer" /\ b.call = d
    BY <2>2, OpTypes DEF UaEvent, OnCall
  <2>4. \A c : /\ a # OnCall("sendAnswer", c) /\ a # OnCall("setCurrent", c)
               /\ b # OnCall("setCurrent", c) /\ (b = OnCall("sendAnswer", c) => c = d)
    BY DEF UaEvent, OnCall
  <2>5. b = OnCall("sendAnswer", d)
    OBVIOUS
  <2> HIDE DEF a, b, d
  <2>6. /\ <<a, b>> \in Seq(Ops) /\ \A S : Has(<<a, b>>, S) <=> a \in S \/ b \in S
    BY <2>3, ShortScripts, HasSmall
  <2>7. a \notin Answering /\ Final(<<a, b>>, Answering) /\ h \in Answering /\ h \in Acting
    BY <2>1, <2>3, FinalSmall DEF Answering, Acting
  <2>8. \A c \in CallIds : a \in Reports(c) \/ b \in Reports(c) => c = d
    BY <2>3 DEF Reports
  <2>9. CASE phase[d] \in {"incoming", "answered", "cancelled"} /\ Continue(t, <<a, b>>)
    BY <2>1, <2>4, <2>5, <2>6, <2>7, <2>8, <2>9 DEF TargetScript
  <2> QED  BY <1>3, <2>1, <2>9
<1>8. CASE SendInvite(t)
  <2> DEFINE d == h.call
             a == OnCall("setCurrent", d)
             b == OnCall("delist", d)
  <2>1. todo[t] # <<>> /\ h.op = "sendInvite" /\ h \in Ops
    BY <1>1, <1>8 DEF SendInvite, At
  <2>2. d \in CallIds
    BY <2>1, OpFields DEF CallOps
  <2>3. \/ phase'[d] = "outgoing" /\ Continue(t, <<a>>)
        \/ Continue(t, <<b>>)
    BY <1>1, <1>8, <2>2 DEF SendInvite
  <2>4. h = Invite(d)
    BY <2>1 DEF Ops, Invite, OnCall
  <2>5. a \in Ops /\ a.op = "setCurrent" /\ a.call = d /\ b \in Ops /\ b.op = "delist"
    BY <2>2, OpTypes DEF OnCall
  <2>6. \A c : a # OnCall("sendAnswer", c) /\ (a = OnCall("setCurrent", c) => c = d)
    BY DEF OnCall
  <2> HIDE DEF a, b, d
  <2>7. /\ <<a>> \in Seq(Ops) /\ \A S : Has(<<a>>, S) <=> a \in S
        /\ Final(<<a>>, Answering)
    BY <2>5, ShortScripts, HasSmall, FinalSmall
  <2>11. <<b>> \in Seq(Ops) /\ \A i \in 1 .. Len(<<b>>) : <<b>>[i] = b
    BY <2>5, ShortScripts
  <2>8. a \notin Answering /\ \A c : a \notin Reports(c)
    BY <2>5 DEF Answering, Reports
  <2>9. CASE phase'[d] = "outgoing" /\ Continue(t, <<a>>)
    BY <2>1, <2>4, <2>6, <2>7, <2>8, <2>9 DEF TargetScript
  <2>10. CASE Continue(t, <<b>>)
    BY <1>2, <2>1, <2>5, <2>10, <2>11
  <2> QED  BY <2>3, <2>9, <2>10
<1>9. CASE WithCurrent(t)
  <2> DEFINE o == OnCall(h.do, currentCall.callp)
  <2>1. /\ todo[t] # <<>> /\ h.op = "withCurrent" /\ h \in Ops
        /\ (currentCall # NoCall /\ Continue(t, <<o>>)) \/ Continue(t, <<>>)
    BY <1>1, <1>9 DEF WithCurrent, At
  <2>2. h.do \in {"answer", "hangup", "pause", "resume"}
    BY <2>1, OpFields
  <2>3. currentCall # NoCall => o \in Ops
    <3>1. currentCall # NoCall => currentCall.callp \in CallIds
      BY DEF TypeOK, SipCalls
    <3> QED  BY <2>2, <3>1, OpTypes
  <2>4. o.op \in {"answer", "hangup", "pause", "resume"}
    BY <2>2 DEF OnCall
  <2>5. \A c : o # OnCall("sendAnswer", c) /\ o # OnCall("setCurrent", c)
    BY <2>4 DEF OnCall
  <2> HIDE DEF o
  <2>6. /\ o \in Ops => <<o>> \in Seq(Ops)
        /\ \A S : Has(<<o>>, S) <=> o \in S
        /\ Final(<<o>>, Answering)
    BY ShortScripts, HasSmall, FinalSmall
  <2>7. h \in Answering /\ h \in Acting /\ \A c : o \notin Reports(c)
    BY <2>1, <2>4 DEF Answering, Acting, Reports
  <2>8. CASE currentCall # NoCall /\ Continue(t, <<o>>)
    BY <2>1, <2>3, <2>5, <2>6, <2>7, <2>8 DEF TargetScript
  <2> QED  BY <1>3, <2>1, <2>8
<1>10. CASE PlainStep(t) /\ ~ SendInvite(t) /\ ~ WithCurrent(t)
  <2>1. PICK ops \in Seq(Ops) : PlainScript(t, ops)
    BY <1>10, PlainSteps
  <2>2. h.op \notin {"sendInvite", "withCurrent"}
    BY <1>10, MediaScript DEF PlainStep, Delist, CloseCurrent, NoCurrent, SetCurrent, SendAnswer,
                              Destroy, Hold, SetUa, At, TypeOK, MediaKinds, TimerOps
  <2>3. \A i \in 1 .. Len(ops) :
           ops[i].op \notin {"uaEvent", "sipCall", "withCurrent", "answer", "sendAnswer",
                             "setCurrent"}
    BY <2>1, <2>2 DEF PlainScript, TellingKinds
  <2> QED  BY <1>2, <2>1, <2>3 DEF PlainScript
<1> QED  BY <1>4, <1>5, <1>6, <1>7, <1>8, <1>9, <1>10 DEF Step, PlainStep

Engaged(c) == phase[c] \notin {"none", "failed", "gone"}
Begun(c) == Engaged(c) /\ phase[c] # "idle"

(* One call at a time is with baresip.  Whatever concerns calls of peers   *)
(* is on the baresip thread; when it ends one, it destroys it last, after  *)
(* it has forgotten the current call; what is to sound is for a call that  *)
(* rings, or is the busy tone of one that ends.                            *)
TurnScripts ==
    /\ \A c, d \in CallIds : Engaged(c) /\ Engaged(d) => c = d
    /\ ~ Has(todo["main"], PeersOnly)
    /\ \A c \in CallIds :
          Has(todo["re"], {OnCall("destroy", c)}) <=> phase[c] \in {"cancelled", "closing"}
    /\ Final(todo["re"], Destroying)
    /\ Once(todo["re"], Closing)
    /\ Has(todo["re"], Endings) => Has(todo["re"], Destroying)
    /\ Has(todo["re"], Ringers) => \E c \in CallIds : phase[c] \in {"incoming", "answered"}
    /\ Has(todo["re"], RingBacks) => \E c \in CallIds : phase[c] = "outgoing"
    /\ Has(todo["re"], Starters) =>
          \/ \E c \in CallIds : phase[c] = "outgoing"
          \/ Has(todo["re"], Destroying) /\ player.tone # "ringback"

(* Methods act on calls that have begun and may be over; what the peers do *)
(* is reported of calls that are not, and what a method causes is reported *)
(* of a call that is just made or to be answered.                          *)
TurnTargets ==
    /\ ~ Has(todo["re"], Acting)
    /\ Final(todo["main"], Answering)
    /\ \A c \in CallIds :
          /\ Has(todo["re"], Reports(c)) => Begun(c)
          /\ Has(todo["main"], ActsOn(c)) => phase[c] \notin {"none", "idle", "failed"}
          /\ Has(todo["main"], Reports(c)) =>
                phase[c] = "idle" \/ Has(todo["main"], {OnCall("sendAnswer", c)})

(* The live call is the current one, or is about to become it, or a method *)
(* is about to act on a call that is over.                                 *)
Reachable(c) ==
    \/ currentCall # NoCall /\ currentCall.callp = c
    \/ Has(todo["re"], Handling(c, "incoming"))
    \/ Has(todo["main"], {OnCall("setCurrent", c)})
    \/ \E d \in CallIds : phase[d] = "gone" /\ Has(todo["main"], ActsOn(d))

TurnCurrent ==
    /\ Has(todo["re"], CloseCurrents) => currentCall # NoCall
    /\ ~ late /\ ~ misused => \A c \in CallIds : Live(c) => Reachable(c)

\* What stops the ringtone, the timer k and the ring-back tone.
Hushing == Closers \union {Do("stopRinging"), Do("stopRingtone")}
Stilling(k) == Closers \union {Do("stopRinging"), OfTimer("ifTimer", k), OfTimer("cancel", k)}
Muting == Closers \union {Do("stopMediaPlayer")}

\* What sounds is for a call, and is stopped before that call is destroyed.
Sounds == ringing \/ (\E k \in Timers : timer[k] = "runs") \/ RingBackPlays

TurnSounds ==
    /\ Sounds => \E c \in CallIds : Begun(c)
    /\ Has(todo["re"], Destroying) =>
          /\ ringing => Has(todo["re"], Hushing)
          /\ \A k \in Timers : timer[k] = "runs" => Has(todo["re"], Stilling(k))
          /\ RingBackPlays => Has(todo["re"], Muting)

TurnInv ==
    /\ OrderInv /\ AccountInv
    /\ isRunning => TurnScripts /\ TurnTargets /\ TurnCurrent /\ TurnSounds

(* These sets are the same in every state.                                 *)
LEMMA SameSets ==
    /\ PeersOnly' = PeersOnly /\ Closing' = Closing /\ Closers' = Closers
    /\ Endings' = Endings /\ Starters' = Starters
    /\ CloseCurrents' = CloseCurrents /\ Destroying' = Destroying /\ Ringers' = Ringers
    /\ RingBacks' = RingBacks /\ Acting' = Acting /\ Answering' = Answering
    /\ Hushing' = Hushing /\ Muting' = Muting /\ \A k : Stilling(k)' = Stilling(k)
    /\ \A c \in CallIds : /\ Handling(c, "incoming")' = Handling(c, "incoming")
                          /\ Reports(c)' = Reports(c) /\ ActsOn(c)' = ActsOn(c)
BY DEF PeersOnly, Endings, Starters, Closing, Closers, CloseCurrents, Destroying, Ringers,
       RingBacks, Handled, Handling, Acting, Answering, Reports, ActsOn, Hushing, Muting, Stilling

(* How far a step brings a call, when calls follow one another.            *)
LEMMA TurnPhase ==
    ASSUME OrderInv, TurnScripts, NEW t \in Threads, Step(t), NEW c \in CallIds
    PROVE  \/ phase'[c] = phase[c] /\ Head(todo[t]) # OnCall("destroy", c)
           \/ /\ t = "main" /\ Head(todo[t]) = Invite(c) /\ phase[c] = "idle"
              /\ \/ phase'[c] = "outgoing" /\ Has(todo'["main"], {OnCall("setCurrent", c)})
                 \/ phase'[c] = "failed"
           \/ phase[c] = "incoming" /\ phase'[c] = "answered"
           \/ /\ t = "re" /\ Head(todo[t]) = OnCall("destroy", c)
              /\ phase[c] \in {"cancelled", "closing"} /\ phase'[c] = "gone"
<1> DEFINE h == Head(todo[t])
           s == OnCall("setCurrent", c)
<1>1. /\ TypeOK /\ RingInv /\ InOrder(c) /\ ~ Has(todo[t], HangingUp)
      /\ todo \in [Threads -> Seq(Ops)] /\ "main" \in Threads /\ "re" \in Threads
  BY ThreadNames DEF OrderInv, RingInv, TypeOK
<1>2. ~ Hangup(t)
  BY <1>1, NoHangingUp
<1>3. PICK ops \in Seq(Ops) : /\ todo[t] # <<>> /\ Continue(t, ops)
                              /\ \A i \in 1 .. Len(ops) : CalledFor(t, ops[i])
  BY <1>1, StepCallsFor
<1>4. h \in Ops /\ \A S : h \in S => Has(todo[t], S)
  BY <1>1, <1>3, ScriptsAfterStep
<1>5. CASE h = Invite(c)
  <2>1. h.op = "sendInvite" /\ h.call = c
    BY <1>5 DEF Invite, OnCall
  <2>2. h \in OnMain
    BY <1>4, <2>1 DEF OnMain
  <2>3. t = "main"
    BY <1>1, <1>4, <2>2 DEF RingInv, Threads
  <2>4. phase[c] = "idle"
    BY <1>1, <1>4, <1>5, <2>3 DEF InOrder
  <2>5. SendInvite(t)
    BY <1>1, <2>1, MediaScript DEF Step, HandleUaEvent, SipCall, TellDart, Delist, CloseCurrent,
                NoCurrent, SetCurrent, WithCurrent, Answer, SendAnswer, Hangup, Destroy,
                Hold, SetUa, At, TypeOK, MediaKinds, TimerOps
  <2>6. \/ phase'[c] = "outgoing" /\ Continue(t, <<s>>)
        \/ phase'[c] = "failed"
    BY <1>1, <2>1, <2>5 DEF SendInvite, TypeOK
  <2>7. <<s>> \in Seq(Ops) /\ Has(<<s>>, {s})
    BY OpTypes, ShortScripts, HasSmall
  <2> HIDE DEF s
  <2>8. Continue(t, <<s>>) => Has(todo'[t], {s})
    BY <1>1, <1>3, <2>7, ScriptsAfterStep
  <2> QED  BY <1>5, <2>3, <2>4, <2>6, <2>8 DEF s
<1>6. CASE h = OnCall("destroy", c)
  <2>1. h.op = "destroy" /\ h.call = c
    BY <1>6 DEF OnCall
  <2>2. h \in Destroying
    BY <1>4, <2>1, PeersOnlyKinds
  <2>3. h \in PeersOnly
    BY <1>4, <2>2, PeersOnlyKinds
  <2>4. t = "re"
    BY <1>4, <2>3 DEF TurnScripts, Threads
  <2>5. phase[c] \in {"cancelled", "closing"}
    BY <1>4, <1>6, <2>4 DEF TurnScripts
  <2>6. Destroy(t)
    BY <1>1, <2>1, MediaScript DEF Step, HandleUaEvent, SipCall, TellDart, Delist, CloseCurrent,
                NoCurrent, SendInvite, SetCurrent, WithCurrent, Answer, SendAnswer, Hangup,
                Hold, SetUa, At, MediaKinds, TimerOps
  <2>7. phase'[c] = "gone"
    BY <1>1, <2>1, <2>6 DEF Destroy, TypeOK
  <2> QED  BY <1>6, <2>4, <2>5, <2>7
<1>7. CASE h # Invite(c) /\ h # OnCall("destroy", c)
  BY <1>1, <1>2, <1>7, PhaseStep
<1> QED  BY <1>5, <1>6, <1>7

(* Of which calls the methods and the reports are, after a step.           *)
LEMMA TargetsKept ==
    ASSUME OrderInv, TurnScripts, TurnTargets, NEW t \in Threads, Step(t)
    PROVE  TurnTargets'
<1> DEFINE h == Head(todo[t])
           re == todo["re"]
           main == todo["main"]
           reN == todo'["re"]
           mainN == todo'["main"]
<1>1. /\ TypeOK /\ RingInv /\ todo \in [Threads -> Seq(Ops)] /\ ~ Has(todo[t], HangingUp)
      /\ "main" \in Threads /\ "re" \in Threads
  BY ThreadNames DEF OrderInv, RingInv, TypeOK
<1>2. ~ Hangup(t)
  BY <1>1, NoHangingUp
<1>3. PICK ops \in Seq(Ops) : TargetScript(t, ops)
  BY <1>1, <1>2, TargetSteps
<1>4. todo[t] # <<>> /\ Continue(t, ops)
  BY <1>3 DEF TargetScript
<1>5. /\ h \in Ops
      /\ \A X : /\ Has(todo'[t], X) <=> Has(ops, X) \/ Has(Tail(todo[t]), X)
                /\ Has(todo[t], X) <=> h \in X \/ Has(Tail(todo[t]), X)
      /\ \A r \in Threads \ {t} : todo'[r] = todo[r]
  BY <1>1, <1>4, ScriptsAfterStep
<1>6. /\ t = "main" => reN = re
      /\ t = "re" => mainN = main
      /\ t = "main" \/ t = "re"
  BY <1>1, <1>5 DEF Threads
<1>7. t = "re" => h.op # "sendInvite" /\ h \notin Acting /\ h.op # "answer"
  <2> SUFFICES ASSUME t = "re"  PROVE h.op # "sendInvite" /\ h \notin Acting /\ h.op # "answer"
    OBVIOUS
  <2>1. h \notin OnMain /\ h \notin Acting
    BY <1>1, <1>5 DEF RingInv, TurnTargets
  <2> QED  BY <1>5, <2>1 DEF OnMain, Acting, Answering
<1>8. ~ Has(reN, Acting)
  BY <1>3, <1>5, <1>6, <1>7 DEF TargetScript, TurnTargets
<1>9. Final(mainN, Answering)
  <2>1. Final(main, Answering)
    BY DEF TurnTargets
  <2>2. ASSUME t = "main"  PROVE Final(mainN, Answering)
    <3>1. mainN = ops \o Tail(main) /\ main \in Seq(Ops) /\ main # <<>> /\ h = Head(main)
      BY <1>1, <1>4, <2>2 DEF Continue
    <3>2. Final(ops, Answering) /\ (Has(ops, Answering) => h \in Answering)
      BY <1>3 DEF TargetScript
    <3>3. h \in Answering => Tail(main) = <<>>
      BY <2>1, <3>1, FinalContinue
    <3>4. ops \o <<>> = ops
      OBVIOUS
    <3>5. ~ Has(ops, Answering) => Final(ops \o Tail(main), Answering)
      BY <2>1, <3>1, FinalContinue
    <3> QED  BY <3>1, <3>2, <3>3, <3>4, <3>5
  <2> QED  BY <1>6, <2>1, <2>2
<1>10. \A c \in CallIds :
          \/ phase'[c] = phase[c]
          \/ t = "main" /\ h = Invite(c) /\ phase[c] = "idle" /\ phase'[c] \in {"outgoing", "failed"}
          \/ phase[c] = "incoming" /\ phase'[c] = "answered"
          \/ /\ t = "re" /\ h = OnCall("destroy", c)
             /\ phase[c] \in {"cancelled", "closing"} /\ phase'[c] = "gone"
  BY TurnPhase
<1>11. ASSUME NEW c \in CallIds, Has(reN, Reports(c))  PROVE Begun(c)'
  <2>1. Has(re, Reports(c))
    BY <1>3, <1>5, <1>6, <1>7, <1>11 DEF TargetScript
  <2>2. Begun(c)
    BY <2>1 DEF TurnTargets
  <2>3. CASE t = "re" /\ h = OnCall("destroy", c)
    <3>1. h.op = "destroy"
      BY <2>3 DEF OnCall
    <3>2. h \in Destroying /\ h \notin Reports(c) /\ h.op # "answer"
      BY <1>5, <3>1, PeersOnlyKinds DEF Reports
    <3>3. Tail(re) = <<>>
      BY <1>1, <1>4, <2>3, <3>2, FinalContinue DEF TurnScripts
    <3>4. ~ Has(Tail(re), Reports(c))
      BY <3>3, HasSmall
    <3> QED  BY <1>3, <1>5, <1>11, <2>3, <3>2, <3>4 DEF TargetScript
  <2> QED  BY <1>10, <2>2, <2>3 DEF Begun, Engaged
<1>12. ASSUME NEW c \in CallIds, Has(mainN, ActsOn(c))
       PROVE  phase'[c] \notin {"none", "idle", "failed"}
  <2>1. CASE Has(main, ActsOn(c))
    BY <1>10, <2>1 DEF TurnTargets
  <2>2. CASE ~ Has(main, ActsOn(c))
    <3>1. t = "main" /\ Has(ops, ActsOn(c))
      BY <1>5, <1>6, <1>12, <2>2
    <3>2. Has(ops, {OnCall("setCurrent", c)}) \/ Has(ops, {OnCall("sendAnswer", c)})
      BY <3>1 DEF Has, ActsOn
    <3>3. phase[c] \in {"incoming", "answered", "cancelled"} \/ phase'[c] = "outgoing"
      BY <1>3, <3>2 DEF TargetScript
    <3> QED  BY <1>10, <3>3
  <2> QED  BY <2>1, <2>2
<1>13. ASSUME NEW c \in CallIds, Has(mainN, Reports(c))
       PROVE  phase'[c] = "idle" \/ Has(mainN, {OnCall("sendAnswer", c)})
  <2> DEFINE a == OnCall("sendAnswer", c)
  <2>1. SUFFICES ASSUME ~ Has(mainN, {a})  PROVE phase'[c] = "idle"
    OBVIOUS
  <2>2. a.op = "sendAnswer" /\ Invite(c).op = "sendInvite"
    BY DEF OnCall, Invite
  <2> HIDE DEF a
  <2>3. ~ Has(ops, {a}) \/ t = "re"
    BY <1>5, <1>6, <2>1
  <2>4. Has(main, Reports(c)) /\ (t = "main" /\ Has(ops, Reports(c)) => h \in Reports(c))
    BY <1>3, <1>5, <1>6, <1>13, <2>3 DEF TargetScript, a
  <2>5. ASSUME t = "main", Tail(main) = <<>>, h \notin Reports(c)  PROVE FALSE
    <3>1. mainN = todo'[t] /\ Has(todo'[t], Reports(c))
      BY <1>13, <2>5
    <3>2. PICK rest : rest = Tail(todo[t])
      OBVIOUS
    <3>3. rest = <<>>
      BY <2>5, <3>2
    <3>4. ~ Has(rest, Reports(c))
      BY <3>3, HasSmall
    <3>5. Has(ops, Reports(c))
      BY <1>5, <3>1, <3>2, <3>4
    <3> QED  BY <2>4, <2>5, <3>5
  <2>6. CASE Has(main, {a})
    <3>1. t = "main" /\ h = a
      BY <1>5, <1>6, <2>1, <2>6
    <3>2. h \in Answering /\ h \notin Reports(c)
      BY <1>5, <2>2, <3>1 DEF Answering, Reports
    <3>3. Tail(main) = <<>>
      BY <1>1, <1>4, <3>1, <3>2, FinalContinue DEF TurnTargets
    <3> QED  BY <2>5, <3>1, <3>2, <3>3
  <2>7. CASE ~ Has(main, {a})
    <3>1. phase[c] = "idle"
      BY <2>4, <2>7 DEF TurnTargets, a
    <3>2. ASSUME t = "main", h = Invite(c)  PROVE FALSE
      <4>1. Has(main, {Invite(c)})
        BY <1>5, <3>2
      <4>2. Inviting(c)
        BY <1>1, <4>1 DEF RingInv, RingFirst
      <4>3. h.op = "sendInvite" /\ h \notin Reports(c)
        BY <2>2, <3>2 DEF Reports
      <4>4. PICK rest : rest = Tail(main)
        OBVIOUS
      <4>5. rest = <<>>
        BY <3>2, <4>2, <4>3, <4>4, InvitingHead
      <4> QED  BY <2>5, <3>2, <4>3, <4>4, <4>5
    <3> QED  BY <1>10, <3>1, <3>2
  <2> QED  BY <2>6, <2>7
<1> QED  BY <1>8, <1>9, <1>11, <1>12, <1>13, SameSets DEF TurnTargets

(* What the operations before and after a step have to do with each other. *)
TurnBasics(t, ops) ==
    LET h == Head(todo[t]) IN
    /\ todo[t] # <<>> /\ Continue(t, ops)
    /\ TurnScript(t, ops) /\ Replaces(ops, h)
    /\ h \in Ops
    /\ \A X : /\ Has(todo'[t], X) <=> Has(ops, X) \/ Has(Tail(todo[t]), X)
              /\ Has(todo[t], X) <=> h \in X \/ Has(Tail(todo[t]), X)
    /\ t = "main" => todo'["re"] = todo["re"]
    /\ t = "re" => todo'["main"] = todo["main"]
    /\ t = "main" \/ t = "re"
    /\ h \in PeersOnly => t = "re" /\ Has(todo["re"], {h})
    /\ Has(ops, PeersOnly) => t = "re"
    /\ h \in Destroying => \A X : ~ Has(todo'["re"], X)

LEMMA TurnStepBasics ==
    ASSUME TurnInv, isRunning, NEW t \in Threads, Step(t)
    PROVE  \E ops \in Seq(Ops) : TurnBasics(t, ops)
<1> DEFINE h == Head(todo[t])
           re == todo["re"]
<1>1. /\ TypeOK /\ OrderInv /\ TurnScripts
      /\ todo \in [Threads -> Seq(Ops)] /\ ~ Has(todo[t], HangingUp)
      /\ "main" \in Threads /\ "re" \in Threads
  BY ThreadNames DEF TurnInv, AccountInv, OrderInv, TypeOK
<1>2. ~ Hangup(t)
  BY <1>1, NoHangingUp
<1>3. PICK ops \in Seq(Ops) : TurnScript(t, ops)
  BY <1>1, <1>2, StepReplaces
<1>4. todo[t] # <<>> /\ Continue(t, ops) /\ Replaces(ops, h)
  BY <1>3 DEF TurnScript
<1>5. /\ h \in Ops
      /\ \A X : /\ Has(todo'[t], X) <=> Has(ops, X) \/ Has(Tail(todo[t]), X)
                /\ Has(todo[t], X) <=> h \in X \/ Has(Tail(todo[t]), X)
      /\ \A r \in Threads \ {t} : todo'[r] = todo[r]
  BY <1>1, <1>4, ScriptsAfterStep
<1>6. /\ t = "main" => todo'["re"] = todo["re"]
      /\ t = "re" => todo'["main"] = todo["main"]
      /\ t = "main" \/ t = "re"
  BY <1>1, <1>5 DEF Threads
<1>7. /\ h \in PeersOnly => t = "re" /\ Has(re, {h})
      /\ Has(ops, PeersOnly) => t = "re"
  <2>1. h \in PeersOnly => t = "re"
    BY <1>1, <1>5, <1>6 DEF TurnScripts
  <2>2. Has(ops, PeersOnly) => h \in PeersOnly
    BY <1>4, <1>5, PeersOnlyParts, PeersOnlyKinds DEF Replaces
  <2>3. h \in {h}
    OBVIOUS
  <2>4. h \in PeersOnly => Has(re, {h})
    BY <1>5, <2>1, <2>3
  <2> QED  BY <2>1, <2>2, <2>4
\* The last thing that the baresip thread does is to destroy the call.
<1>8. ASSUME h \in Destroying  PROVE \A X : ~ Has(todo'["re"], X)
  <2>1. t = "re" /\ h.op = "destroy"
    BY <1>5, <1>7, <1>8, PeersOnlyKinds
  <2>2. Tail(todo[t]) = <<>>
    BY <1>1, <1>4, <1>8, <2>1, FinalContinue DEF TurnScripts
  <2>3. Destroy(t)
    BY <1>1, <2>1, MediaScript DEF Step, HandleUaEvent, SipCall, TellDart, Delist, CloseCurrent,
                NoCurrent, SendInvite, SetCurrent, WithCurrent, Answer, SendAnswer, Hangup,
                Hold, SetUa, At, MediaKinds, TimerOps
  <2>4. Continue(t, <<>>) /\ <<>> \in Seq(Ops)
    BY <2>3, ShortScripts DEF Destroy
  <2>5. \A X : Has(todo'[t], X) <=> Has(<<>>, X) \/ Has(Tail(todo[t]), X)
    BY <1>1, <1>4, <2>4, ScriptsAfterStep
  <2>6. \A X : ~ Has(<<>>, X)
    BY HasSmall
  <2>7. \A X : ~ Has(todo'[t], X)
    BY <2>2, <2>5, <2>6
  <2> QED  BY <2>1, <2>7
<1> QED  BY <1>3, <1>4, <1>5, <1>6, <1>7, <1>8 DEF TurnBasics

(* Who is to ring, or to play a ring-back tone, is for a call that has not *)
(* ended, so that none is destroyed.                                       *)
LEMMA HeadSounds ==
    ASSUME TurnScripts, NEW h \in Ops, Has(todo["re"], {h})
    PROVE  /\ h \in Ringers => \E c \in CallIds : phase[c] \in {"incoming", "answered"}
           /\ h \in RingBacks => \E c \in CallIds : phase[c] = "outgoing"
           /\ h \in Starters /\ player.tone = "ringback" => \E c \in CallIds : phase[c] = "outgoing"
           /\ h \in Ringers \/ h \in RingBacks \/ (h \in Starters /\ player.tone = "ringback")
                 => ~ Has(todo["re"], Destroying)
<1>1. \A X : h \in X => Has(todo["re"], X)
  BY DEF Has
<1>2. /\ h \in Ringers => \E c \in CallIds : phase[c] \in {"incoming", "answered"}
      /\ h \in RingBacks => \E c \in CallIds : phase[c] = "outgoing"
      /\ h \in Starters /\ player.tone = "ringback" => \E c \in CallIds : phase[c] = "outgoing"
  BY <1>1 DEF TurnScripts
<1>3. ASSUME h \in Ringers \/ h \in RingBacks \/ (h \in Starters /\ player.tone = "ringback"),
             Has(todo["re"], Destroying)
      PROVE  FALSE
  <2>1. PICK c \in CallIds : phase[c] \in {"incoming", "answered", "outgoing"}
    BY <1>2, <1>3
  <2>2. PICK d \in CallIds : Has(todo["re"], {OnCall("destroy", d)})
    BY <1>3, PeersOnlyParts
  <2>3. phase[d] \in {"cancelled", "closing"}
    BY <2>2 DEF TurnScripts
  <2>4. Engaged(c) /\ Engaged(d)
    BY <2>1, <2>3 DEF Engaged
  <2> QED  BY <2>1, <2>3, <2>4 DEF TurnScripts
<1> QED  BY <1>2, <1>3

LEMMA ScriptsKept ==
    ASSUME TurnInv, isRunning, NEW t \in Threads, Step(t), NEW ops \in Seq(Ops), TurnBasics(t, ops)
    PROVE  TurnScripts'
<1> DEFINE h == Head(todo[t])
           re == todo["re"]
           reN == todo'["re"]
           mainN == todo'["main"]
           D(c) == {OnCall("destroy", c)}
<1>1. /\ TypeOK /\ OrderInv /\ TurnScripts /\ todo \in [Threads -> Seq(Ops)] /\ isRunning
      /\ "main" \in Threads /\ "re" \in Threads
  BY ThreadNames DEF TurnInv, AccountInv, TypeOK
<1>2. todo[t] # <<>> /\ Continue(t, ops) /\ Replaces(ops, h) /\ h \in Ops
  BY DEF TurnBasics
<1>3. \A X : /\ Has(todo'[t], X) <=> Has(ops, X) \/ Has(Tail(todo[t]), X)
             /\ Has(todo[t], X) <=> h \in X \/ Has(Tail(todo[t]), X)
  BY DEF TurnBasics
<1>4. /\ t = "main" => reN = re
      /\ t = "re" => mainN = todo["main"]
      /\ t = "main" \/ t = "re"
  BY DEF TurnBasics
<1>5. /\ h \in PeersOnly => t = "re" /\ Has(re, {h})
      /\ Has(ops, PeersOnly) => t = "re"
      /\ h \in Destroying => \A X : ~ Has(reN, X)
  BY DEF TurnBasics
<1>6. /\ Has(reN, Endings) => Has(re, Endings)
      /\ Has(reN, Ringers) => Has(re, Ringers)
      /\ Has(reN, RingBacks) => Has(re, RingBacks)
  BY <1>2, <1>3, <1>4 DEF Replaces
<1>7. \A X : Has(re, X) /\ h \notin X => Has(reN, X)
  BY <1>3, <1>4
<1>8. /\ Once(reN, Closing) /\ Final(reN, Destroying)
  <2>1. CASE t = "main"
    BY <1>1, <1>4, <2>1 DEF TurnScripts
  <2>2. CASE t = "re"
    <3>1. reN = ops \o Tail(re)
      BY <1>1, <1>2, <2>2 DEF Continue
    <3>2. re \in Seq(Ops) /\ re # <<>> /\ h = Head(re)
      BY <1>1, <1>2, <2>2
    <3>3. Once(re, Closing) /\ Final(re, Destroying)
      BY <1>1 DEF TurnScripts
    <3>4. Once(ops, Closing) /\ (Has(ops, Closing) => h \in Closing) /\ ~ Has(ops, Destroying)
      BY <1>2 DEF Replaces
    <3>5. Once(ops \o Tail(re), Closing)
      BY <3>2, <3>3, <3>4, OnceContinue
    <3>6. Final(ops \o Tail(re), Destroying)
      BY <3>2, <3>3, <3>4, FinalContinue
    <3> QED  BY <3>1, <3>5, <3>6
  <2> QED  BY <1>4, <2>1, <2>2
<1>9. ~ Has(mainN, PeersOnly)
  <2>1. ~ Has(todo["main"], PeersOnly)
    BY <1>1 DEF TurnScripts
  <2> QED  BY <1>3, <1>4, <1>5, <2>1
<1>10. \A c \in CallIds :
          \/ phase'[c] = phase[c] /\ h # OnCall("destroy", c)
          \/ phase[c] = "idle" /\ phase'[c] \in {"outgoing", "failed"}
          \/ phase[c] = "incoming" /\ phase'[c] = "answered"
          \/ /\ t = "re" /\ h = OnCall("destroy", c)
             /\ phase[c] \in {"cancelled", "closing"} /\ phase'[c] = "gone"
  BY <1>1, TurnPhase
<1>11. \A c \in CallIds : h = OnCall("destroy", c) => h \in Destroying
  <2>1. \A c \in CallIds : h = OnCall("destroy", c) => h.op = "destroy"
    BY DEF OnCall
  <2>2. h.op = "destroy" => h \in Destroying
    BY <1>2, PeersOnlyKinds
  <2> QED  BY <2>1, <2>2
<1>12. \A c, d \in CallIds : Engaged(c)' /\ Engaged(d)' => c = d
  <2>1. \A c \in CallIds : Engaged(c)' => Engaged(c)
    BY <1>10 DEF Engaged
  <2> QED  BY <1>1, <2>1 DEF TurnScripts
<1>13. ASSUME NEW c \in CallIds
       PROVE  Has(reN, D(c)) <=> phase'[c] \in {"cancelled", "closing"}
  <2>1. ~ Has(ops, D(c)) /\ (h \in D(c) <=> h = OnCall("destroy", c))
    BY <1>2, PeersOnlyParts DEF Replaces
  <2>2. Has(reN, D(c)) => Has(re, D(c))
    BY <1>3, <1>4, <2>1
  <2>3. Has(re, D(c)) => Has(reN, D(c)) \/ h = OnCall("destroy", c)
    BY <1>7, <2>1
  <2>4. h = OnCall("destroy", c) => ~ Has(reN, D(c))
    BY <1>5, <1>11
  <2>5. Has(re, D(c)) <=> phase[c] \in {"cancelled", "closing"}
    BY <1>1 DEF TurnScripts
  <2> HIDE DEF h, D
  <2> QED  BY <1>10, <2>2, <2>3, <2>4, <2>5
<1> HIDE DEF D
<1>14. Has(reN, Ringers) => \E c \in CallIds : phase'[c] \in {"incoming", "answered"}
  BY <1>1, <1>6, <1>10 DEF TurnScripts
<1>15. (\E c \in CallIds : phase[c] = "outgoing") => \E c \in CallIds : phase'[c] = "outgoing"
  BY <1>10
<1>16. Has(reN, RingBacks) => \E c \in CallIds : phase'[c] = "outgoing"
  BY <1>1, <1>6, <1>15 DEF TurnScripts
<1>17. \A X : Has(reN, X) /\ Has(re, Destroying) => Has(reN, Destroying)
  BY <1>5, <1>7
<1>18. Has(reN, Endings) => Has(reN, Destroying)
  BY <1>1, <1>6, <1>17 DEF TurnScripts
<1>19. h \in RingBacks => \E c \in CallIds : phase'[c] = "outgoing"
  <2>1. h \in RingBacks => Has(re, {h})
    BY <1>2, <1>5, PeersOnlyKinds
  <2> QED  BY <1>1, <1>2, <1>15, <2>1, HeadSounds
<1>20. player'.tone = "ringback" => player.tone = "ringback" \/ h \in RingBacks
  <2>1. h.op = "newPlayer" /\ h.tone = "ringback" => h \in RingBacks
    BY <1>2, PeersOnlyKinds
  <2> QED  BY <1>1, <2>1, SoundStep
<1>21. ASSUME Has(reN, Starters), ~ \E c \in CallIds : phase'[c] = "outgoing"
       PROVE  Has(reN, Destroying) /\ player'.tone # "ringback"
  <2>1. h \notin RingBacks
    BY <1>19, <1>21
  <2>2. CASE Has(re, Starters)
    <3>1. Has(re, Destroying) /\ player.tone # "ringback"
      BY <1>1, <1>15, <1>21, <2>2 DEF TurnScripts
    <3> QED  BY <1>17, <1>20, <1>21, <2>1, <3>1
  <2>3. CASE ~ Has(re, Starters)
    <3>1. t = "re" /\ Has(ops, Starters) /\ ~ Has(todo[t], Starters) /\ Has(todo'[t], Starters)
      BY <1>3, <1>4, <1>21, <2>3
    <3>2. h \in Endings /\ h.op = "playBusy"
      BY <1>2, <2>1, <3>1 DEF Replaces
    <3>3. Has(re, Destroying)
      BY <1>1, <1>3, <3>1, <3>2 DEF TurnScripts
    <3>4. player.tone # "ringback"
      BY <1>1, <1>2, <3>1, <3>2, SilencingStep
    <3> QED  BY <1>17, <1>20, <1>21, <2>1, <3>3, <3>4
  <2> QED  BY <2>2, <2>3
<1> QED
  BY <1>8, <1>9, <1>12, <1>13, <1>14, <1>16, <1>18, <1>21, SameSets DEF TurnScripts, D

(* What stops a sound of a call that ends is not passed over.              *)
LEMMA SilencersStay ==
    ASSUME TurnInv, isRunning, NEW t \in Threads, Step(t), NEW ops \in Seq(Ops), TurnBasics(t, ops)
    PROVE  /\ ringing' /\ Has(todo["re"], Hushing) => Has(todo'["re"], Hushing)
           /\ \A k \in Timers :
                 timer[k] = "runs" /\ timer'[k] = "runs" /\ Has(todo["re"], Stilling(k))
                    => Has(todo'["re"], Stilling(k))
           /\ RingBackPlays' /\ Has(todo["re"], Muting) => Has(todo'["re"], Muting)
<1> DEFINE h == Head(todo[t])
           re == todo["re"]
           reN == todo'["re"]
<1>1. TypeOK /\ TurnCurrent /\ ~ Deaf /\ todo[t] # <<>> /\ h \in Ops
  BY DEF TurnInv, AccountInv, Deaf, TurnBasics
<1>2. /\ \A X : /\ Has(todo'[t], X) <=> Has(ops, X) \/ Has(Tail(todo[t]), X)
                /\ Has(todo[t], X) <=> h \in X \/ Has(Tail(todo[t]), X)
      /\ t = "main" => reN = re
      /\ t = "main" \/ t = "re"
  BY DEF TurnBasics
<1>3. \A X : Has(re, X) => Has(reN, X) \/ (t = "re" /\ h \in X)
  BY <1>2
<1>4. \A o, X : Has(reN, {o}) /\ o \in X => Has(reN, X)
  BY DEF Has
<1>5. ASSUME t = "re", h \in Closers
      PROVE  \/ Has(reN, Closers)
             \/ Has(reN, {Do("stopRinging")}) /\ Has(reN, {Do("stopMediaPlayer")})
  <2>1. \/ Has(ops, Closers)
        \/ /\ h \in CloseCurrents
           /\ currentCall # NoCall =>
                 Has(ops, {Do("stopRinging")}) /\ Has(ops, {Do("stopMediaPlayer")})
    BY <1>1, <1>5 DEF TurnBasics, TurnScript
  <2>2. h \in CloseCurrents => currentCall # NoCall
    BY <1>1, <1>2, <1>5 DEF TurnCurrent
  <2> QED  BY <1>2, <1>5, <2>1, <2>2
<1>6. /\ Do("stopRinging") \in Hushing /\ Do("stopRingtone") \in Hushing
      /\ \A k : /\ Do("stopRinging") \in Stilling(k)
                /\ OfTimer("ifTimer", k) \in Stilling(k)
                /\ OfTimer("cancel", k) \in Stilling(k)
      /\ Do("stopMediaPlayer") \in Muting
  BY DEF Hushing, Stilling, Muting
<1>7. /\ Has(reN, Closers) => Has(reN, Hushing) /\ Has(reN, Muting) /\ \A k : Has(reN, Stilling(k))
  BY DEF Has, Hushing, Stilling, Muting
<1>8. t = "re" /\ h \in Closers => Has(reN, Hushing) /\ Has(reN, Muting) /\ \A k : Has(reN, Stilling(k))
  BY <1>4, <1>5, <1>6, <1>7
<1>9. \A x : Do(x).op = x
  BY DEF Do
<1>10. ASSUME ringing', Has(re, Hushing)  PROVE Has(reN, Hushing)
  <2>1. CASE t = "re" /\ h = Do("stopRinging")
    <3>1. Has(reN, {Do("stopRingtone")})
      BY <1>1, <1>9, <2>1, SilencingStep
    <3> QED  BY <1>4, <1>6, <3>1
  <2>2. h # Do("stopRingtone")
    <3>1. h.op # "stopRingtone"
      BY <1>1, <1>10, SoundStep
    <3> QED  BY <1>9, <3>1
  <2>3. h \in Hushing => h \in Closers \/ h = Do("stopRinging")
    BY <2>2 DEF Hushing
  <2> QED  BY <1>3, <1>8, <1>10, <2>1, <2>3
<1>11. ASSUME NEW k \in Timers, timer[k] = "runs", timer'[k] = "runs", Has(re, Stilling(k))
       PROVE  Has(reN, Stilling(k))
  <2>1. CASE t = "re" /\ h = Do("stopRinging")
    <3>1. Has(reN, {OfTimer("ifTimer", k)})
      BY <1>1, <1>9, <2>1, SilencingStep
    <3> QED  BY <1>4, <1>6, <3>1
  <2>2. CASE t = "re" /\ h = OfTimer("ifTimer", k)
    <3>1. Has(reN, {OfTimer("cancel", k)})
      BY <1>1, <1>11, <2>2, SilencingStep
    <3> QED  BY <1>4, <1>6, <3>1
  <2>3. h # OfTimer("cancel", k)
    BY <1>1, <1>11, SoundStep
  <2>4. h \in Stilling(k) => h \in Closers \/ h = Do("stopRinging") \/ h = OfTimer("ifTimer", k)
    BY <2>3 DEF Stilling
  <2> QED  BY <1>3, <1>8, <1>11, <2>1, <2>2, <2>4
<1>12. ASSUME RingBackPlays', Has(re, Muting)  PROVE Has(reN, Muting)
  <2>1. h # Do("stopMediaPlayer")
    <3>1. h.op # "stopMediaPlayer"
      BY <1>1, <1>12, SoundStep
    <3> QED  BY <1>9, <3>1
  <2>2. h \in Muting => h \in Closers
    BY <2>1 DEF Muting
  <2> QED  BY <1>3, <1>8, <1>12, <2>2
<1> QED  BY <1>10, <1>11, <1>12

LEMMA SoundsKept ==
    ASSUME TurnInv, isRunning, NEW t \in Threads, Step(t), NEW ops \in Seq(Ops), TurnBasics(t, ops)
    PROVE  TurnSounds'
<1> DEFINE h == Head(todo[t])
           re == todo["re"]
           reN == todo'["re"]
<1>1. /\ TypeOK /\ OrderInv /\ TurnScripts /\ TurnSounds /\ h \in Ops
      /\ h \in PeersOnly => t = "re" /\ Has(re, {h})
      /\ h \in Destroying => \A X : ~ Has(reN, X)
  BY DEF TurnInv, AccountInv, TurnBasics
<1>2. \A X : h \in X /\ Has(re, {h}) => Has(re, X)
  BY DEF Has
<1>3. /\ h.op \in {"startRinging", "schedule"} => h \in Ringers
      /\ h.op = "startPlayer" => h \in Starters
      /\ h \in Ringers \/ h \in Starters \/ h \in Destroying => Has(re, {h})
  BY <1>1, PeersOnlyKinds
<1>4. /\ ringing' => ringing \/ h \in Ringers
      /\ \A k \in Timers : timer'[k] = "runs" => timer[k] = "runs" \/ h \in Ringers
      /\ RingBackPlays' => RingBackPlays \/ (h \in Starters /\ player.tone = "ringback")
  BY <1>1, <1>3, SoundStep
<1>5. ASSUME Has(re, Destroying)
      PROVE  /\ ringing' => Has(reN, Hushing)
             /\ \A k \in Timers : timer'[k] = "runs" => Has(reN, Stilling(k))
             /\ RingBackPlays' => Has(reN, Muting)
  <2>1. h \notin Ringers /\ ~ (h \in Starters /\ player.tone = "ringback")
    BY <1>1, <1>3, <1>5, HeadSounds
  <2>2. /\ ringing' => ringing
        /\ \A k \in Timers : timer'[k] = "runs" => timer[k] = "runs"
        /\ RingBackPlays' => RingBackPlays
    BY <1>4, <2>1
  <2>3. /\ ringing => Has(re, Hushing)
        /\ \A k \in Timers : timer[k] = "runs" => Has(re, Stilling(k))
        /\ RingBackPlays => Has(re, Muting)
    BY <1>1, <1>5 DEF TurnSounds
  <2> QED  BY <2>2, <2>3, SilencersStay
<1>6. Has(reN, Destroying) => Has(re, Destroying)
  BY DEF TurnBasics, Replaces
<1>7. ASSUME Sounds'  PROVE \E c \in CallIds : Begun(c)'
  <2>1. ringing' \/ (\E k \in Timers : timer'[k] = "runs") \/ RingBackPlays'
    BY <1>7 DEF Sounds
  <2>2. h \notin Destroying
    <3> SUFFICES ASSUME h \in Destroying  PROVE FALSE
      OBVIOUS
    <3>1. Has(re, Destroying)
      BY <1>2, <1>3
    <3>2. \A X : ~ Has(reN, X)
      BY <1>1
    <3> QED  BY <1>5, <2>1, <3>1, <3>2
  <2>3. PICK c \in CallIds : Begun(c)
    <3>1. Sounds \/ h \in Ringers \/ (h \in Starters /\ player.tone = "ringback")
      BY <1>4, <2>1 DEF Sounds
    <3>2. \A c \in CallIds : phase[c] \in {"incoming", "answered", "outgoing"} => Begun(c)
      BY DEF Begun, Engaged
    <3>3. CASE Sounds
      BY <1>1, <3>3 DEF TurnSounds
    <3>4. CASE h \in Ringers \/ (h \in Starters /\ player.tone = "ringback")
      BY <1>1, <1>3, <3>2, <3>4, HeadSounds
    <3> QED  BY <3>1, <3>3, <3>4
  <2>4. h # OnCall("destroy", c)
    <3>1. h = OnCall("destroy", c) => h.op = "destroy"
      BY DEF OnCall
    <3> QED  BY <1>1, <2>2, <3>1, PeersOnlyKinds
  <2>5. \/ phase'[c] = phase[c]
        \/ phase[c] = "idle"
        \/ phase[c] = "incoming" /\ phase'[c] = "answered"
        \/ h = OnCall("destroy", c)
    BY <1>1, TurnPhase
  <2>6. Begun(c)'
    BY <2>3, <2>4, <2>5 DEF Begun, Engaged
  <2> QED  BY <2>6
<1> QED  BY <1>5, <1>6, <1>7, SameSets DEF TurnSounds

LEMMA CurrentKept ==
    ASSUME TurnInv, isRunning, NEW t \in Threads, Step(t), NEW ops \in Seq(Ops), TurnBasics(t, ops)
    PROVE  TurnCurrent'
<1> DEFINE h == Head(todo[t])
           re == todo["re"]
           main == todo["main"]
           reN == todo'["re"]
           mainN == todo'["main"]
<1>1. /\ TypeOK /\ OrderInv /\ TurnScripts /\ TurnTargets /\ TurnCurrent /\ ~ Deaf
      /\ h \in Ops /\ todo[t] # <<>> /\ TurnScript(t, ops)
      /\ todo \in [Threads -> Seq(Ops)]
  BY DEF TurnInv, AccountInv, TurnBasics, Deaf, TypeOK
<1>2. /\ \A X : /\ Has(todo'[t], X) <=> Has(ops, X) \/ Has(Tail(todo[t]), X)
                /\ Has(todo[t], X) <=> h \in X \/ Has(Tail(todo[t]), X)
      /\ t = "main" => reN = re
      /\ t = "re" => mainN = main
      /\ t = "main" \/ t = "re"
      /\ h \in PeersOnly => t = "re"
  BY DEF TurnBasics
<1>3. \A X : /\ Has(re, X) => Has(reN, X) \/ (t = "re" /\ h \in X)
             /\ Has(main, X) => Has(mainN, X) \/ (t = "main" /\ h \in X)
             /\ h \in X => (t = "re" /\ Has(re, X)) \/ (t = "main" /\ Has(main, X))
  BY <1>2
<1>4. /\ h.op \in {"sipCall", "setCurrent"} =>
            currentCall' # NoCall /\ currentCall'.callp = h.call
      /\ h.op \notin {"sipCall", "setCurrent", "noCurrent"} => currentCall' = currentCall
      /\ h.op = "setCurrent" /\ ~ Live(h.call) => late'
      /\ h.op = "sendAnswer" /\ phase[h.call] = "gone" => misused'
      /\ (late => late') /\ (misused => misused')
  BY <1>1, CurrentStep
<1>5. h.op = "noCurrent" => h \in Closing
  BY <1>1, PeersOnlyKinds
<1>6. h \in Closing => t = "re" /\ Has(re, Destroying)
  <2> SUFFICES ASSUME h \in Closing  PROVE t = "re" /\ Has(re, Destroying)
    OBVIOUS
  <2>1. h \in Endings /\ h \in PeersOnly
    BY <1>1, PeersOnlyKinds
  <2>2. t = "re" /\ Has(re, Endings)
    BY <1>2, <1>3, <2>1
  <2> QED  BY <1>1, <2>2 DEF TurnScripts
<1>7. \A c, d \in CallIds : Engaged(c) /\ Engaged(d) => c = d
  BY <1>1 DEF TurnScripts
<1>8. Has(reN, CloseCurrents) => currentCall' # NoCall
  <2> SUFFICES ASSUME Has(reN, CloseCurrents), ~ Has(ops, CloseCurrents)
               PROVE  currentCall' # NoCall
    BY <1>1 DEF TurnScript
  <2>1. Has(re, CloseCurrents) /\ (t = "re" => Has(Tail(re), CloseCurrents))
    BY <1>2
  <2>2. currentCall # NoCall
    BY <1>1, <2>1 DEF TurnCurrent
  <2>3. h \notin Closing
    <3> SUFFICES ASSUME h \in Closing  PROVE FALSE
      OBVIOUS
    <3>1. t = "re" /\ Has(Tail(re), Closing)
      BY <1>6, <2>1, PeersOnlyParts
    <3>2. Once(re, Closing) /\ re \in Seq(Ops) /\ re # <<>> /\ h = Head(re)
      <4>1. "re" \in Threads
        BY ThreadNames
      <4> QED  BY <1>1, <3>1, <4>1 DEF TurnScripts
    <3> QED  BY <3>1, <3>2, OnceContinue
  <2> QED  BY <1>4, <1>5, <2>2, <2>3
<1>9. ASSUME ~ late', ~ misused', NEW c \in CallIds, Live(c)'
      PROVE  Reachable(c)'
  <2>1. ~ late /\ ~ misused
    BY <1>4, <1>9
  <2>2. \A d \in CallIds :
           \/ phase'[d] = phase[d]
           \/ /\ phase[d] = "idle"
              /\ (phase'[d] = "outgoing" /\ Has(mainN, {OnCall("setCurrent", d)})) \/ phase'[d] = "failed"
           \/ phase[d] = "incoming" /\ phase'[d] = "answered"
           \/ phase[d] \in {"cancelled", "closing"} /\ phase'[d] = "gone"
    BY <1>1, TurnPhase
  <2>3. Live(c) \/ Has(mainN, {OnCall("setCurrent", c)})
    BY <1>9, <2>2 DEF Live
  <2>4. ASSUME currentCall' # NoCall, currentCall'.callp = c  PROVE Reachable(c)'
    BY <2>4 DEF Reachable
  <2>5. Has(mainN, {OnCall("setCurrent", c)}) => Reachable(c)'
    <3>1. {OnCall("setCurrent", c)}' = {OnCall("setCurrent", c)}
      BY DEF OnCall
    <3> QED  BY <3>1 DEF Reachable
  <2>6. ASSUME NEW d \in CallIds, phase[d] = "gone", Has(mainN, ActsOn(d))  PROVE Reachable(c)'
    <3>1. phase'[d] = "gone"
      BY <2>2, <2>6
    <3> QED  BY <2>6, <3>1, SameSets DEF Reachable
  <2>7. Has(reN, Handling(c, "incoming")) => Reachable(c)'
    BY SameSets DEF Reachable
  <2> SUFFICES ASSUME Live(c)  PROVE Reachable(c)'
    BY <2>3, <2>5
  <2>8. Engaged(c) /\ phase[c] # "idle"
    BY DEF Live, Engaged
  \* A method that acts on a call that is over.
  <2>9. ASSUME NEW d \in CallIds, Has(main, ActsOn(d)), d # c
        PROVE  phase[d] = "gone" /\ h # OnCall("setCurrent", d) /\ Reachable(c)'
    <3>1. phase[d] = "gone"
      BY <1>1, <1>7, <2>8, <2>9 DEF TurnTargets, Engaged
    <3>2. h # OnCall("setCurrent", d) /\ h # OnCall("sendAnswer", d)
      <4>1. \A x : OnCall(x, d).op = x /\ OnCall(x, d).call = d
        BY DEF OnCall
      <4> QED  BY <1>4, <1>9, <3>1, <4>1 DEF Live
    <3>3. Has(mainN, ActsOn(d))
      BY <1>3, <2>9, <3>2 DEF ActsOn
    <3> QED  BY <2>6, <3>1, <3>2, <3>3
  <2>10. CASE currentCall # NoCall /\ currentCall.callp = c
    <3>1. h.op # "noCurrent"
      <4> SUFFICES ASSUME h.op = "noCurrent"  PROVE FALSE
        OBVIOUS
      <4>1. Has(re, Destroying)
        BY <1>5, <1>6
      <4>2. PICK d \in CallIds : Has(re, {OnCall("destroy", d)})
        BY <4>1, PeersOnlyParts
      <4>3. phase[d] \in {"cancelled", "closing"}
        BY <1>1, <4>2 DEF TurnScripts
      <4> QED  BY <1>7, <2>8, <4>3 DEF Engaged, Live
    <3>2. CASE h.op \notin {"sipCall", "setCurrent"}
      BY <1>4, <2>4, <2>10, <3>1, <3>2
    <3>3. CASE h.op \in {"sipCall", "setCurrent"} /\ h.call = c
      BY <1>4, <2>4, <3>3
    <3>4. CASE h.op = "setCurrent" /\ h.call # c
      <4>1. h.call \in CallIds /\ h \in Acting
        BY <1>1, <3>4, OpFields DEF CallOps, Acting
      <4>2. h = OnCall("setCurrent", h.call)
        BY <1>1, <3>4 DEF Ops, OnCall
      <4>3. Has(main, ActsOn(h.call))
        <5>1. ~ Has(re, Acting)
          BY <1>1 DEF TurnTargets
        <5>2. h \in ActsOn(h.call)
          BY <4>2 DEF ActsOn
        <5> QED  BY <1>3, <4>1, <5>1, <5>2
      <4> QED  BY <2>9, <3>4, <4>1, <4>3
    <3>5. CASE h.op = "sipCall" /\ h.call # c
      <4>1. h.call \in CallIds
        BY <1>1, <3>5, OpFields DEF CallOps
      <4>2. PICK d \in CallIds : d = h.call
        BY <4>1
      <4>3. h \in Reports(d)
        BY <1>1, <3>5, <4>2 DEF Reports
      <4>4. ~ Has(re, Reports(d))
        BY <1>1, <1>7, <2>8, <3>5, <4>2 DEF TurnTargets, Begun
      <4>5. phase[d] = "idle" \/ Has(main, {OnCall("sendAnswer", d)})
        BY <1>1, <1>3, <4>3, <4>4 DEF TurnTargets
      <4>6. phase[d] # "idle"
        BY <1>7, <2>8, <3>5, <4>2 DEF Engaged
      <4>7. Has(main, ActsOn(d))
        BY <4>5, <4>6 DEF Has, ActsOn
      <4> QED  BY <2>9, <3>5, <4>2, <4>7
    <3> QED  BY <3>2, <3>3, <3>4, <3>5
  <2>11. CASE Has(re, Handling(c, "incoming"))
    <3>1. ASSUME t = "re", h \in Handling(c, "incoming")  PROVE Reachable(c)'
      <4>1. Has(ops, Handling(c, "incoming")) \/ h.op = "sipCall"
        BY <1>1, <3>1 DEF TurnScript
      <4>2. h.call = c
        BY <3>1 DEF Handling
      <4> QED  BY <1>2, <1>4, <2>4, <2>7, <3>1, <4>1, <4>2
    <3> QED  BY <1>3, <2>7, <2>11, <3>1
  <2>12. CASE Has(main, {OnCall("setCurrent", c)})
    <3>1. ASSUME h = OnCall("setCurrent", c)  PROVE Reachable(c)'
      <4>1. h.op = "setCurrent" /\ h.call = c
        BY <3>1 DEF OnCall
      <4> QED  BY <1>4, <2>4, <4>1
    <3> QED  BY <1>3, <2>5, <2>12, <3>1
  <2>13. ASSUME NEW d \in CallIds, phase[d] = "gone", Has(main, ActsOn(d))  PROVE Reachable(c)'
    <3>1. d # c
      BY <2>8, <2>13 DEF Engaged
    <3> QED  BY <2>9, <2>13, <3>1
  <2>14. Reachable(c)
    BY <1>1, <2>1 DEF TurnCurrent
  <2> QED  BY <2>10, <2>11, <2>12, <2>13, <2>14 DEF Reachable
<1> QED  BY <1>8, <1>9, SameSets DEF TurnCurrent

LEMMA TurnStep ==
    ASSUME TurnInv, isRunning, NEW t \in Threads, Step(t)
    PROVE  TurnScripts' /\ TurnTargets' /\ TurnCurrent' /\ TurnSounds'
<1>1. PICK ops \in Seq(Ops) : TurnBasics(t, ops)
  BY TurnStepBasics
<1>2. OrderInv /\ TurnScripts /\ TurnTargets
  BY DEF TurnInv
<1> QED  BY <1>1, <1>2, ScriptsKept, TargetsKept, CurrentKept, SoundsKept

(* So does entering a handler that no peer has a part in ...               *)
LEMMA TurnMethod ==
    ASSUME TurnInv, isRunning, ~ misused, NEW ops \in Seq(Ops), MethodScript(ops)
    PROVE  TurnScripts' /\ TurnTargets' /\ TurnCurrent' /\ TurnSounds'
<1> DEFINE re == todo["re"]
           main == todo["main"]
<1>1. /\ TurnScripts /\ TurnTargets /\ TurnCurrent /\ TurnSounds
      /\ todo \in [Threads -> Seq(Ops)] /\ player \in Players \union {NoPlayer}
      /\ "main" \in Threads /\ "re" \in Threads \ {"main"}
      /\ Start("main", ops) /\ UNCHANGED <<phase, currentCall, late, ringing, timer>>
      /\ player' \in {player, [player EXCEPT !.is = "stopped"]}
  BY DEF TurnInv, AccountInv, TypeOK, MediaTypeOK, Threads, MethodScript
<1>2. /\ player'.tone = player.tone
      /\ RingBackPlays' => RingBackPlays
  BY <1>1 DEF Players, NoPlayer, RingBackPlays
<1>3. /\ todo'["re"] = re /\ todo'["main"] = ops /\ \A X : ~ Has(main, X)
  BY <1>1, ScriptsAfterStart
<1>4. \A i \in 1 .. Len(ops) :
         /\ ops[i] \in Ops
         /\ ops[i].op \notin CallOps \union NeverMethods
         /\ ops[i].op = "withCurrent" => i = Len(ops)
  BY ElementOfSeq DEF MethodScript
<1>5. ~ Has(ops, PeersOnly)
  <2>1. \A i \in 1 .. Len(ops) : ops[i] \notin PeersOnly
    BY <1>4, PeersOnlyKinds DEF CallOps, NeverMethods
  <2> QED  BY <2>1 DEF Has
<1>6. /\ Final(ops, Answering)
      /\ \A c \in CallIds : ~ Has(ops, Reports(c)) /\ ~ Has(ops, ActsOn(c))
  <2>1. \A i \in 1 .. Len(ops) : ops[i] \in Answering => i = Len(ops)
    BY <1>4 DEF Answering, CallOps
  <2>2. \A c : OnCall("sendAnswer", c).op = "sendAnswer" /\ OnCall("setCurrent", c).op = "setCurrent"
    BY DEF OnCall
  <2>3. \A i \in 1 .. Len(ops) : \A c \in CallIds : ops[i] \notin Reports(c) /\ ops[i] \notin ActsOn(c)
    BY <1>4, <2>2 DEF Reports, ActsOn, CallOps
  <2> QED  BY <2>1, <2>3 DEF Final, Has
<1>7. /\ \A c \in CallIds : /\ Engaged(c)' = Engaged(c) /\ Begun(c)' = Begun(c)
                            /\ Live(c)' = Live(c)
      /\ Sounds' => Sounds
  BY <1>1, <1>2 DEF Engaged, Begun, Live, Sounds
<1>8. TurnScripts'
  BY <1>1, <1>2, <1>3, <1>5, <1>7, SameSets DEF TurnScripts
<1>9. TurnTargets'
  BY <1>1, <1>3, <1>6, <1>7, SameSets DEF TurnTargets
<1>10. TurnCurrent'
  <2>1. ASSUME ~ late', NEW c \in CallIds, Live(c)'  PROVE Reachable(c)'
    <3>1. Reachable(c)
      BY <1>1, <1>7, <2>1 DEF TurnCurrent
    <3>2. (currentCall # NoCall /\ currentCall.callp = c) \/ Has(re, Handling(c, "incoming"))
      BY <1>3, <3>1 DEF Reachable
    <3> QED  BY <1>1, <1>3, <3>2, SameSets DEF Reachable
  <2> QED  BY <1>1, <1>3, <2>1, SameSets DEF TurnCurrent
<1>11. TurnSounds'
  BY <1>1, <1>2, <1>3, <1>7, SameSets DEF TurnSounds
<1> QED  BY <1>8, <1>9, <1>10, <1>11

(* ... the end of a call, which the baresip thread reports ...             *)
LEMMA TurnClose ==
    ASSUME TurnInv, isRunning, NEW d \in CallIds, NEW e \in {"closed", "closed busy"},
           Close(d), Start("re", <<UaEvent(d, e), OnCall("destroy", d)>>)
    PROVE  TurnScripts' /\ TurnTargets' /\ TurnCurrent' /\ TurnSounds'
<1> DEFINE re == todo["re"]
           a == UaEvent(d, e)
           o == OnCall("destroy", d)
           ops == <<a, o>>
           D(c) == {OnCall("destroy", c)}
<1>1. /\ TurnScripts /\ TurnTargets /\ TurnCurrent /\ TurnSounds
      /\ todo \in [Threads -> Seq(Ops)]
      /\ phase \in [CallIds -> Phases] /\ "re" \in Threads /\ "main" \in Threads \ {"re"}
      /\ Start("re", ops) /\ currentCall' = currentCall /\ media' = media
  BY DEF TurnInv, AccountInv, TypeOK, Threads, Close, kotlin
<1>2. UNCHANGED <<ringing, timer, player>>
  BY <1>1 DEF media
<1>3. /\ a \in Ops /\ a.op = "uaEvent" /\ a.event = e /\ a.call = d /\ e \in Events
      /\ o \in Ops /\ o.op = "destroy" /\ o.call = d
  <2>1. e \in Events
    BY DEF Events
  <2> QED  BY <2>1, OpTypes DEF UaEvent, OnCall
<1>4. \A c \in CallIds : a \notin D(c) /\ (o \in D(c) <=> c = d)
  <2>1. \A c : OnCall("destroy", c).op = "destroy" /\ OnCall("destroy", c).call = c
    BY DEF OnCall
  <2>2. o = OnCall("destroy", d)
    OBVIOUS
  <2> HIDE DEF a, o
  <2> QED  BY <1>3, <2>1, <2>2
<1>5. /\ todo'["main"] = todo["main"] /\ todo'["re"] = ops /\ \A X : ~ Has(re, X)
  BY <1>1, ScriptsAfterStart
<1> HIDE DEF a, o, D
<1>6. /\ a \in Closers /\ a \in Closing /\ a \notin Destroying /\ a \notin Ringers
      /\ a \notin RingBacks /\ a \notin CloseCurrents /\ a \notin Starters
      /\ o \in Destroying /\ o \notin Closing /\ o \notin Ringers /\ o \notin RingBacks
      /\ o \notin CloseCurrents /\ o \notin Starters
  BY <1>3, PeersOnlyKinds DEF CloseCurrents, Starters
<1>7. /\ a \notin Acting /\ o \notin Acting
      /\ \A c \in CallIds : o \notin Reports(c) /\ (a \in Reports(c) => c = d)
  BY <1>3 DEF Acting, Answering, Reports
<1>8. \A X : Has(ops, X) <=> a \in X \/ o \in X
  BY HasSmall
<1>9. Once(ops, Closing)
  BY <1>6, OnceSmall
<1>10. Final(ops, Destroying)
  BY <1>6, FinalSmall
<1> HIDE DEF ops
<1>11. /\ Live(d) /\ phase'[d] \in {"cancelled", "closing"}
       /\ \A c \in CallIds \ {d} : phase'[c] = phase[c]
  BY <1>1 DEF Close
<1>12. \A c \in CallIds : phase[c] \notin {"cancelled", "closing"}
  BY <1>1, <1>5 DEF TurnScripts
<1>13. /\ \A c \in CallIds : Engaged(c)' => Engaged(c)
       /\ \A c \in CallIds : Begun(c) => Begun(c)'
       /\ Begun(d)' /\ Engaged(d)
       /\ \A c \in CallIds : Live(c)' => c # d /\ Engaged(c)
       /\ Sounds' = Sounds /\ RingBackPlays' = RingBackPlays
  BY <1>2, <1>11 DEF Engaged, Begun, Live, Sounds, RingBackPlays
<1>14. \A c \in CallIds : ~ Live(c)'
  BY <1>1, <1>13 DEF TurnScripts
<1>15. \A c \in CallIds : Has(ops, D(c)) <=> phase'[c] \in {"cancelled", "closing"}
  BY <1>4, <1>8, <1>11, <1>12
<1>16. TurnScripts'
  BY <1>1, <1>5, <1>6, <1>8, <1>9, <1>10, <1>13, <1>15, SameSets DEF TurnScripts, D
<1>17. TurnTargets'
  <2>1. \A c \in CallIds : /\ phase[c] \notin {"none", "idle", "failed"}
                                 => phase'[c] \notin {"none", "idle", "failed"}
                           /\ phase[c] = "idle" => phase'[c] = "idle"
    BY <1>11 DEF Live
  <2>2. ~ Has(ops, Acting) /\ \A c \in CallIds : Has(ops, Reports(c)) => Begun(c)'
    BY <1>7, <1>8, <1>13
  <2> QED  BY <1>1, <1>5, <2>1, <2>2, SameSets DEF TurnTargets
<1>18. TurnCurrent'
  BY <1>1, <1>5, <1>6, <1>8, <1>14, SameSets DEF TurnCurrent
<1>19. TurnSounds'
  <2>1. a \in Hushing /\ a \in Muting /\ \A k \in Timers : a \in Stilling(k)
    BY <1>6 DEF Hushing, Muting, Stilling
  <2> QED  BY <1>1, <1>2, <1>5, <1>8, <1>13, <2>1, SameSets DEF TurnSounds
<1> QED  BY <1>16, <1>17, <1>18, <1>19

(* ... another report of a peer, on the baresip thread ...                 *)
LEMMA TurnReport ==
    ASSUME TurnInv, isRunning, ~ misused, ~ Overlap, NEW d \in CallIds,
           NEW e \in Events \ {"closed", "closed busy"}, Start("re", <<UaEvent(d, e)>>),
           e = "incoming" => Incoming(d), e = "established" => Established(d),
           e \in {"ringing", "progress"} => Progress(d),
           e \notin {"incoming", "established"} => UNCHANGED phase,
           Begun(d)',
           UNCHANGED <<currentCall, late, media>>
    PROVE  TurnScripts' /\ TurnTargets' /\ TurnCurrent' /\ TurnSounds'
<1> DEFINE re == todo["re"]
           a == UaEvent(d, e)
           ops == <<a>>
<1>1. /\ TurnScripts /\ TurnTargets /\ TurnCurrent /\ TurnSounds
      /\ todo \in [Threads -> Seq(Ops)]
      /\ phase \in [CallIds -> Phases] /\ "re" \in Threads /\ "main" \in Threads \ {"re"}
      /\ Start("re", ops)
  BY DEF TurnInv, AccountInv, TypeOK, Threads
<1>2. UNCHANGED <<ringing, timer, player>>
  BY DEF media
<1>3. a \in Ops /\ a.op = "uaEvent" /\ a.event = e /\ a.call = d
  BY OpTypes DEF UaEvent
<1>4. /\ todo'["main"] = todo["main"] /\ todo'["re"] = ops /\ \A X : ~ Has(re, X)
  BY <1>1, ScriptsAfterStart
<1> HIDE DEF a
<1>5. /\ a \notin Endings /\ a \notin Closing /\ a \notin Destroying /\ a \notin CloseCurrents
      /\ a \notin Starters
      /\ a \in Ringers => e = "incoming"
      /\ a \in RingBacks => e \in {"ringing", "progress"}
      /\ e = "incoming" => a \in Handling(d, "incoming")
  <2>1. e = "incoming" => a \in Handling(d, "incoming")
    BY <1>3 DEF Handling
  <2> QED  BY <1>3, <2>1, PeersOnlyKinds
<1>6. a \notin Acting /\ \A c \in CallIds : a \in Reports(c) => c = d
  BY <1>3 DEF Acting, Answering, Reports
<1>7. /\ \A X : Has(ops, X) <=> a \in X
      /\ Once(ops, Closing) /\ Final(ops, Destroying)
  BY HasSmall, OnceSmall, FinalSmall
<1> HIDE DEF ops
<1>8. \A c \in CallIds : phase[c] \notin {"cancelled", "closing"}
  BY <1>1, <1>4 DEF TurnScripts
<1>9. \A c \in CallIds :
         \/ phase'[c] = phase[c]
         \/ /\ c = d /\ e = "incoming" /\ phase[c] = "none" /\ phase'[c] = "incoming"
         \/ /\ c = d /\ phase[c] \in {"outgoing", "answered"} /\ phase'[c] = "up"
  <2>1. CASE e = "incoming"
    BY <1>1, <2>1 DEF Incoming, CanBegin
  <2>2. CASE e = "established"
    BY <1>1, <2>2 DEF Established
  <2>3. CASE e \notin {"incoming", "established"}
    BY <2>3
  <2> QED  BY <2>1, <2>2, <2>3
<1>10. e = "incoming" => phase'[d] = "incoming" /\ \A c \in CallIds : ~ Engaged(c)
  BY <1>1 DEF Incoming, CanBegin, Engaged
<1>11. e \in {"ringing", "progress"} => phase'[d] = "outgoing"
  BY DEF Progress, baresip
<1>12. /\ \A c \in CallIds : Engaged(c)' => Engaged(c) \/ (c = d /\ e = "incoming")
       /\ \A c \in CallIds : Begun(c) => Begun(c)'
       /\ \A c \in CallIds : Live(c)' => Live(c) \/ (c = d /\ e = "incoming")
       /\ \A c \in CallIds : phase'[c] \notin {"cancelled", "closing"}
       /\ Sounds' = Sounds
  BY <1>2, <1>8, <1>9 DEF Engaged, Begun, Live, Sounds, RingBackPlays
<1>13. \A b, c \in CallIds : Engaged(b)' /\ Engaged(c)' => b = c
  BY <1>1, <1>10, <1>12 DEF TurnScripts
<1>14. \A c \in CallIds : ~ Has(ops, {OnCall("destroy", c)})
  <2>1. \A c : OnCall("destroy", c).op = "destroy"
    BY DEF OnCall
  <2> QED  BY <1>3, <1>7, <2>1
<1>15. Has(ops, Ringers) => \E c \in CallIds : phase'[c] \in {"incoming", "answered"}
  BY <1>5, <1>7, <1>10
<1>16. Has(ops, RingBacks) => \E c \in CallIds : phase'[c] = "outgoing"
  BY <1>5, <1>7, <1>11
<1>17. TurnScripts'
  BY <1>1, <1>4, <1>5, <1>7, <1>12, <1>13, <1>14, <1>15, <1>16, SameSets DEF TurnScripts
<1>18. TurnTargets'
  <2>1. \A c \in CallIds : /\ phase[c] \notin {"none", "idle", "failed"}
                                 => phase'[c] \notin {"none", "idle", "failed"}
                           /\ phase[c] = "idle" => phase'[c] = "idle"
    BY <1>9
  <2>2. ~ Has(ops, Acting) /\ \A c \in CallIds : Has(ops, Reports(c)) => Begun(c)'
    BY <1>6, <1>7
  <2> QED  BY <1>1, <1>4, <2>1, <2>2, SameSets DEF TurnTargets
<1>19. TurnCurrent'
  <2>1. ASSUME ~ late', NEW c \in CallIds, Live(c)'  PROVE Reachable(c)'
    <3>1. CASE c = d /\ e = "incoming"
      BY <1>4, <1>5, <1>7, <3>1, SameSets DEF Reachable
    <3>2. CASE Live(c)
      <4>1. Reachable(c)
        BY <1>1, <2>1, <3>2 DEF TurnCurrent
      <4>2. \A b \in CallIds : phase[b] = "gone" => phase'[b] = "gone"
        BY <1>9
      <4>3. {OnCall("setCurrent", c)}' = {OnCall("setCurrent", c)}
        BY DEF OnCall
      <4> QED  BY <1>4, <4>1, <4>2, <4>3, SameSets DEF Reachable
    <3> QED  BY <1>12, <2>1, <3>1, <3>2
  <2> QED  BY <1>4, <1>5, <1>7, <2>1, SameSets DEF TurnCurrent
<1>20. TurnSounds'
  BY <1>1, <1>4, <1>5, <1>7, <1>12, SameSets DEF TurnSounds
<1> QED  BY <1>17, <1>18, <1>19, <1>20

(* ... and a call of the application.                                      *)
LEMMA TurnCall ==
    ASSUME TurnInv, isRunning, ~ Overlap, NEW d \in CallIds, Call(d),
           Start("main", <<UaEvent(d, "outgoing"), Invite(d)>>)
    PROVE  TurnScripts' /\ TurnTargets' /\ TurnCurrent' /\ TurnSounds'
<1> DEFINE re == todo["re"]
           a == UaEvent(d, "outgoing")
           o == Invite(d)
           ops == <<a, o>>
<1>1. /\ TurnScripts /\ TurnTargets /\ TurnCurrent /\ TurnSounds
      /\ todo \in [Threads -> Seq(Ops)]
      /\ phase \in [CallIds -> Phases] /\ "main" \in Threads /\ "re" \in Threads \ {"main"}
      /\ Start("main", ops) /\ currentCall' = currentCall /\ media' = media
  BY DEF TurnInv, AccountInv, TypeOK, Threads, Call
<1>2. UNCHANGED <<ringing, timer, player>>
  BY <1>1 DEF media
<1>3. /\ a \in Ops /\ a.op = "uaEvent" /\ a.event = "outgoing" /\ a.call = d
      /\ o \in Ops /\ o.op = "sendInvite"
  <2>1. "outgoing" \in Events
    BY DEF Events
  <2> QED  BY <2>1, OpTypes DEF UaEvent, OnCall, Invite
<1>4. todo'["re"] = re /\ todo'["main"] = ops
  BY <1>1, ScriptsAfterStart
<1> HIDE DEF a, o
<1>5. /\ ~ Has(ops, PeersOnly) /\ ~ Has(ops, Answering)
      /\ \A c \in CallIds : ~ Has(ops, ActsOn(c)) /\ (Has(ops, Reports(c)) => c = d)
  <2>1. a \notin PeersOnly /\ o \notin PeersOnly
    BY <1>3, PeersOnlyKinds
  <2>2. \A c : OnCall("sendAnswer", c).op = "sendAnswer" /\ OnCall("setCurrent", c).op = "setCurrent"
    BY DEF OnCall
  <2>3. /\ a \notin Answering /\ o \notin Answering
        /\ \A c \in CallIds : /\ a \notin ActsOn(c) /\ o \notin ActsOn(c)
                              /\ o \notin Reports(c) /\ (a \in Reports(c) => c = d)
    BY <1>3, <2>2 DEF Answering, ActsOn, Reports
  <2> QED  BY <2>1, <2>3, HasSmall
<1> HIDE DEF ops
<1>6. /\ \A c \in CallIds : phase[c] \in {"none", "failed", "gone"}
      /\ phase'[d] = "idle" /\ \A c \in CallIds \ {d} : phase'[c] = phase[c]
  BY <1>1 DEF Call, CanBegin
<1>7. /\ \A c \in CallIds : ~ Engaged(c) /\ ~ Begun(c) /\ ~ Live(c)'
      /\ \A c \in CallIds : Engaged(c)' => c = d
      /\ Sounds' = Sounds /\ player' = player
      /\ \A c \in CallIds : phase[c] \notin {"cancelled", "closing", "incoming", "answered", "outgoing"}
      /\ \A c \in CallIds : phase'[c] \notin {"cancelled", "closing"}
  BY <1>2, <1>6 DEF Engaged, Begun, Live, Sounds, RingBackPlays
<1>8. ~ Has(re, Destroying)
  BY <1>1, <1>7, PeersOnlyParts DEF TurnScripts
<1>9. TurnScripts'
  BY <1>1, <1>4, <1>5, <1>7, <1>8, SameSets DEF TurnScripts
<1>10. TurnTargets'
  BY <1>1, <1>4, <1>5, <1>6, <1>7, FinalSmall, SameSets DEF TurnTargets
<1>11. TurnCurrent'
  BY <1>1, <1>4, <1>7, SameSets DEF TurnCurrent
<1>12. TurnSounds'
  BY <1>1, <1>4, <1>7, <1>8, SameSets DEF TurnSounds
<1> QED  BY <1>9, <1>10, <1>11, <1>12

LEMMA TurnKept ==
    ASSUME OnlyPeersEnd, AccountStays, ~ Overlap, TurnInv, [Next]_vars
    PROVE  TurnInv'
<1>1. OrderInv' /\ AccountInv'
  BY OrderKept, AccountKept DEF TurnInv
<1>2. isRunning' => isRunning
  <2>1. CASE \E t \in Threads : Step(t)
    BY <2>1 DEF Step, HandleUaEvent, SipCall, TellDart, Delist, CloseCurrent, NoCurrent,
                SendInvite, SetCurrent, WithCurrent, Answer, SendAnswer, Hangup, Destroy,
                Hold, SetUa, MediaStep, kotlin
  <2>2. CASE \E c \in CallIds : CallSteps(c)
    BY <2>2, CallStepsStart DEF CallScript
  <2>3. CASE MethodCalled
    BY <2>3, MethodScripts DEF MethodScript
  <2>4. CASE UNCHANGED vars
    BY <2>4 DEF vars, kotlin
  <2> QED  BY <2>1, <2>2, <2>3, <2>4 DEF Next, MethodCalled
<1> SUFFICES ASSUME isRunning  PROVE TurnScripts' /\ TurnTargets' /\ TurnCurrent' /\ TurnSounds'
  BY <1>1, <1>2 DEF TurnInv
<1>3. CASE \E t \in Threads : Step(t)
  BY <1>3, TurnStep
<1>4. CASE MethodCalled /\ ~ misused
  BY <1>4, MethodScripts, TurnMethod
<1>5. CASE (\E c \in CallIds : CallSteps(c)) /\ ~ misused
  <2>1. PICK d \in CallIds : CallSteps(d)
    BY <1>5
  <2>2. PICK e \in Events, o \in Ops, t \in Threads : CallScript(d, e, o, t)
    BY <2>1, CallStepsStart
  <2>3. CASE t = "main"
    <3>1. Call(d)
      BY <2>2, <2>3 DEF CallScript
    <3>2. Start("main", <<UaEvent(d, "outgoing"), Invite(d)>>)
      BY <3>1 DEF Call, Invite
    <3> QED  BY <3>1, <3>2, TurnCall
  <2>4. CASE t = "re" /\ e \in {"closed", "closed busy"}
    <3>1. Close(d)
      BY <2>2, <2>4 DEF CallScript
    <3>2. PICK x \in {"closed", "closed busy"} :
             Start("re", <<UaEvent(d, x), OnCall("destroy", d)>>)
      BY <3>1 DEF Close
    <3> QED  BY <3>1, <3>2, TurnClose
  <2>5. CASE t = "re" /\ e \notin {"closed", "closed busy"}
    <3>1. /\ Start("re", <<UaEvent(d, e)>>)
          /\ e = "incoming" => Incoming(d)
          /\ e = "established" => Established(d)
          /\ e \in {"ringing", "progress"} => Progress(d)
          /\ e \notin {"incoming", "established"} => UNCHANGED phase
          /\ UNCHANGED <<currentCall, late, media>>
      BY <2>2, <2>5 DEF CallScript
    <3>2. ~ Call(d)
      <4>1. todo \in [Threads -> Seq(Ops)] /\ "main" \in Threads /\ "re" \in Threads \ {"main"}
        BY DEF TurnInv, AccountInv, TypeOK, Threads
      <4>2. todo'["re"] # <<>>
        <5>1. PICK x : x = UaEvent(d, e)
          OBVIOUS
        <5>2. Start("re", <<x>>)
          BY <3>1, <5>1
        <5>3. todo'["re"] = <<x>>
          BY <4>1, <5>2, ScriptsAfterStart
        <5>4. Len(<<x>>) = 1 /\ Len(<<>>) = 0
          OBVIOUS
        <5> QED  BY <5>3, <5>4
      <4>3. Call(d) => todo'["re"] = todo["re"]
        BY <4>1, ScriptsAfterStart DEF Call
      <4>4. todo["re"] = <<>>
        BY <3>1, <4>1, ScriptsAfterStart
      <4> QED  BY <4>2, <4>3, <4>4
    <3>3. Begun(d)'
      <4>1. phase \in [CallIds -> Phases]
        BY DEF TurnInv, AccountInv, TypeOK
      <4> QED  BY <2>1, <3>2, <4>1 DEF CallSteps, Incoming, Progress, Established, PeerUpdate,
                                   OtherEvent, Close, baresip, Begun, Engaged
    <3> QED  BY <1>5, <2>5, <3>1, <3>3, TurnReport
  <2> QED  BY <2>3, <2>4, <2>5 DEF Threads
<1>6. CASE UNCHANGED vars
  <2>1. /\ UNCHANGED <<ringing, timer, player, currentCall, late, misused, phase, todo>>
        /\ TurnScripts /\ TurnTargets /\ TurnCurrent /\ TurnSounds
    BY <1>6 DEF TurnInv, vars, kotlin, baresip, dart, media
  <2>2. /\ \A c \in CallIds : /\ Engaged(c)' = Engaged(c) /\ Begun(c)' = Begun(c)
                              /\ Live(c)' = Live(c)
        /\ Sounds' = Sounds /\ RingBackPlays' = RingBackPlays
    BY <2>1 DEF Engaged, Begun, Live, Sounds, RingBackPlays
  <2>3. TurnScripts'
    BY <2>1, <2>2, SameSets DEF TurnScripts
  <2>4. TurnTargets'
    BY <2>1, <2>2, SameSets DEF TurnTargets
  <2>5. TurnCurrent'
    <3>1. \A c \in CallIds : Reachable(c) => Reachable(c)'
      <4>1. \A c : {OnCall("setCurrent", c)}' = {OnCall("setCurrent", c)}
        BY DEF OnCall
      <4> QED  BY <2>1, <4>1, SameSets DEF Reachable
    <3> QED  BY <2>1, <2>2, <3>1, SameSets DEF TurnCurrent
  <2>6. TurnSounds'
    BY <2>1, <2>2, SameSets DEF TurnSounds
  <2> QED  BY <2>3, <2>4, <2>5, <2>6
<1> QED  BY <1>3, <1>4, <1>5, <1>6 DEF Next, MethodCalled

LEMMA TurnBegins == ASSUME Init  PROVE TurnInv
<1>1. /\ \A t \in Threads : todo[t] = <<>>
      /\ \A c \in CallIds : phase[c] = "none"
      /\ ~ Sounds
  BY DEF Init, MediaInit, Sounds, RingBackPlays, NoPlayer
<1>2. \A t \in Threads : /\ \A S : ~ Has(todo[t], S)
                         /\ \A S : Once(todo[t], S) /\ Final(todo[t], S)
  BY <1>1, HasSmall, OnceSmall, FinalSmall
<1>3. \A c \in CallIds : ~ Engaged(c) /\ ~ Live(c) /\ phase[c] \notin {"cancelled", "closing"}
  BY <1>1 DEF Engaged, Live
<1>4. TurnScripts /\ TurnTargets
  BY <1>2, <1>3, ThreadNames DEF TurnScripts, TurnTargets
<1>5. TurnCurrent /\ TurnSounds
  BY <1>1, <1>2, <1>3, ThreadNames DEF TurnCurrent, TurnSounds
<1> QED  BY <1>4, <1>5, OrderBegins, AccountBegins DEF TurnInv

(* The live call is the current one once it is reported, so that the       *)
(* application can answer it, hang it up or pause it: while it keeps its   *)
(* account and leaves it to the peers to end calls, one call begins when   *)
(* the others are over, and call() was not so slow that the call had ended *)
(* before it became the current one (late), no end that is reported on     *)
(* either thread makes SipManager forget it.                               *)
THEOREM LiveCallsAreReachable ==
    ASSUME OnlyPeersEnd, AccountStays, ~ Overlap
    PROVE  Spec => []LiveIsReachable
<1>1. TurnInv => LiveIsReachable
  <2> SUFFICES ASSUME TurnInv, Quiet, ~ late, NEW c \in CallIds, Live(c)
               PROVE  currentCall # NoCall /\ currentCall.callp = c
    BY DEF LiveIsReachable
  <2>1. \A t \in Threads : todo[t] = <<>>
    BY DEF Quiet, Idle
  <2>2. \A S : ~ Has(todo["re"], S) /\ ~ Has(todo["main"], S)
    BY <2>1, ThreadNames, HasSmall
  <2>3. Reachable(c)
    BY DEF TurnInv, TurnCurrent, Quiet
  <2> QED  BY <2>2, <2>3 DEF Reachable
<1>2. Init => TurnInv
  BY TurnBegins
<1>3. TurnInv /\ [Next]_vars => TurnInv'
  BY TurnKept
<1> QED  BY <1>1, <1>2, <1>3, PTL DEF Spec

(* Under the same conditions no sound that SipManager holds outlives its   *)
(* call: when baresip destroys a call, the ringtone, the timers that its   *)
(* fields hold and the ring-back tone have been stopped, one access after  *)
(* the other, whatever the application did on the other thread meanwhile.  *)
THEOREM NoSoundOutlivesItsCall ==
    ASSUME OnlyPeersEnd, AccountStays, ~ Overlap
    PROVE  Spec => []SilentWhenOver
<1>1. TurnInv => SilentWhenOver
  <2> SUFFICES ASSUME TurnInv, Quiet, NoLiveCall  PROVE Silent
    BY DEF SilentWhenOver
  <2>1. \A t \in Threads : todo[t] = <<>>
    BY DEF Quiet, Idle
  <2>2. \A S : ~ Has(todo["re"], S)
    BY <2>1, ThreadNames, HasSmall
  <2>3. TurnScripts /\ TurnSounds /\ TypeOK
    BY DEF TurnInv, AccountInv, Quiet
  <2>4. \A c \in CallIds : ~ Begun(c)
    <3>1. \A c \in CallIds : phase[c] \in Phases /\ phase[c] \notin {"cancelled", "closing"}
      BY <2>2, <2>3 DEF TurnScripts, TypeOK
    <3> QED  BY <3>1 DEF Begun, Engaged, NoLiveCall, Live, Phases
  <2> QED  BY <2>3, <2>4 DEF TurnSounds, Silent, Sounds, RingBackPlays
<1>2. Init => TurnInv
  BY TurnBegins
<1>3. TurnInv /\ [Next]_vars => TurnInv'
  BY TurnKept
<1> QED  BY <1>1, <1>2, <1>3, PTL DEF Spec
=============================================================================
