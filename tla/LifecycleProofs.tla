-------------------------- MODULE LifecycleProofs --------------------------
(***************************************************************************)
(* Theorems of Lifecycle, for every file of the installation, any number   *)
(* of processes and engines, and any faults: what is opened is closed      *)
(* again, a process starts baresip once, and the settings of the user      *)
(* stay, since Config.initialize keeps those of any text (RewriteKeeps).   *)
(*                                                                         *)
(* The script of a thread is always the rest of one of a few, from some    *)
(* place on, and the place says what can be open.                          *)
(***************************************************************************)
EXTENDS Lifecycle, WellFoundedInduction, SequenceTheorems, TLAPS

\* The script s from its operation i on.
Rest(s, i) == SubSeq(s, i, Len(s))

\* What is still to be done of SipManager's constructor before the thread starts.
Constructing(s) ==
    \/ s = Construct
    \/ s = <<Op("initialize"), Op("spawn"), Op("running")>>
    \/ \E text : s = <<WriteOp(text), Op("spawn"), Op("running")>>
    \/ s = <<Op("spawn"), Op("running")>>

BeforeSpawn == Constructing(todo["main"])

\* The rest of stopped(), after its first operation.
StoppedRests == {<<Op("not_running"), Op("unregister")>>, <<Op("unregister")>>, <<>>}

\* Where the main thread is.
MainInv ==
    BeforeSpawn \/ todo["main"] \in {<<Op("running")>>, Stopped} \union StoppedRests

\* The parts that the first i - 1 operations of baresipStart open.
Before(i) == {Parts[k] : k \in {j \in DOMAIN Parts : j < i}}

\* The order in which the parts are closed.
ClosedParts ==
    <<"mqueue_alloc", "ua_init", "conf_configure", "baresip_init",
      "uag_event_register", "conf_modules", "thread", "libre">>

\* What goes with each.
Gone(k) == IF ClosedParts[k] = "baresip_init" THEN {"baresip_init", "message_listen"}
                                               ELSE {ClosedParts[k]}

\* The parts that are closed from i on.
ToClose(i) == UNION {Gone(k) : k \in i .. 8}

Errors == PartNames \union {""}

Opening == \E i \in 1 .. 11 : todo["re"] = Rest(BaresipStart, i) /\ opened \subseteq Before(i)

ClosingDown ==
    \E i \in 1 .. 9, error \in Errors :
        todo["re"] = Rest(Closing(error), i) /\ opened \subseteq ToClose(i)

Over == todo["re"] \in {Stopped} \union StoppedRests /\ opened = {}

\* Where the thread of baresip is, and what can be open there.
ReInv == Opening \/ ClosingDown \/ Over

\* Before the thread starts there is nothing of baresip.
OnceInv ==
    /\ BeforeSpawn => manager
    /\ BeforeSpawn \/ ~ manager => Idle("re") /\ opened = {} /\ told = NotBegun

\* Each stop in the queue is of an engine that detached.
StopsInv ==
    /\ stops \in 0 .. attached
    /\ engine \/ todo["main"] = Stopped => stops < attached
    /\ todo["main"] = Stopped => ~ engine

\* The values of the other variables.
ValuesInv ==
    /\ given \in Files /\ torn \in BOOLEAN /\ started \in 1 .. Processes
    /\ DOMAIN todo = Threads
    /\ alive \in BOOLEAN /\ attached \in 0 .. Attachments /\ engine \in BOOLEAN
    /\ manager \in BOOLEAN /\ receiver \in BOOLEAN /\ isRunning \in BOOLEAN
    /\ stopping \in BOOLEAN /\ term \in BOOLEAN
    /\ failed \in PartNames \union {"loop", ""}
    /\ told \in Errors \union {NotBegun}

IInv == ValuesInv /\ MainInv /\ ReInv /\ OnceInv /\ StopsInv
-----------------------------------------------------------------------------
(* Scripts.                                                                *)

(* The first operation of a small script, and what is left of it.          *)
LEMMA SmallTails ==
    /\ \A a : <<a>> # <<>> /\ Head(<<a>>) = a /\ Tail(<<a>>) = <<>>
    /\ \A a, b : <<a, b>> # <<>> /\ Head(<<a, b>>) = a /\ Tail(<<a, b>>) = <<b>>
    /\ \A a, b, c :
          <<a, b, c>> # <<>> /\ Head(<<a, b, c>>) = a /\ Tail(<<a, b, c>>) = <<b, c>>
    /\ \A a, b, c, d : /\ <<a, b, c, d>> # <<>> /\ Head(<<a, b, c, d>>) = a
                       /\ Tail(<<a, b, c, d>>) = <<b, c, d>>
<1>1. \A a : <<a>> # <<>> /\ Head(<<a>>) = a /\ Tail(<<a>>) = <<>>
  OBVIOUS
<1>2. \A a, b : <<a, b>> # <<>> /\ Head(<<a, b>>) = a /\ Tail(<<a, b>>) = <<b>>
  OBVIOUS
<1>3. \A a, b, c :
          <<a, b, c>> # <<>> /\ Head(<<a, b, c>>) = a /\ Tail(<<a, b, c>>) = <<b, c>>
  OBVIOUS
<1>4. \A a, b, c, d : /\ <<a, b, c, d>> # <<>> /\ Head(<<a, b, c, d>>) = a
                       /\ Tail(<<a, b, c, d>>) = <<b, c, d>>
  OBVIOUS
<1> QED  BY <1>1, <1>2, <1>3, <1>4

(* Nothing is put before a small script.                                   *)
LEMMA SmallEmpty ==
    /\ <<>> \o <<>> = <<>>
    /\ \A a : <<>> \o <<a>> = <<a>> /\ <<a>> \o <<>> = <<a>>
    /\ \A a, b : <<>> \o <<a, b>> = <<a, b>> /\ \A c : <<c>> \o <<a, b>> = <<c, a, b>>
    /\ \A a, b, c : <<>> \o <<a, b, c>> = <<a, b, c>>
                      /\ <<a, b, c>> \o <<>> = <<a, b, c>>
<1>1. <<>> \o <<>> = <<>>
  OBVIOUS
<1>2. \A a : <<>> \o <<a>> = <<a>> /\ <<a>> \o <<>> = <<a>>
  OBVIOUS
<1>3. ASSUME NEW a, NEW b
      PROVE  <<>> \o <<a, b>> = <<a, b>> /\ \A c : <<c>> \o <<a, b>> = <<c, a, b>>
  <2>1. <<>> \o <<a, b>> = <<a, b>>
    OBVIOUS
  <2>2. ASSUME NEW c  PROVE <<c>> \o <<a, b>> = <<c, a, b>>
    <3> DEFINE T == {a, b, c}
               one == <<c>>
               two == <<a, b>>
    <3>1. one \in Seq(T) /\ Len(one) = 1 /\ one[1] = c
      OBVIOUS
    <3>2. two \in Seq(T) /\ Len(two) = 2 /\ two[1] = a /\ two[2] = b
      OBVIOUS
    <3>3. <<c, a, b>> \in Seq(T) /\ Len(<<c, a, b>>) = 3
      OBVIOUS
    <3> DEFINE three == <<c, a, b>>
    <3> HIDE DEF one, two, three, T
    <3>4. /\ one \o two \in Seq(T) /\ Len(one \o two) = Len(one) + Len(two)
          /\ \A i \in 1 .. Len(one) + Len(two) :
                (one \o two)[i] = IF i <= Len(one) THEN one[i] ELSE two[i - Len(one)]
      BY <3>1, <3>2, ConcatProperties
    <3>5. \A i \in 1 .. 3 : (one \o two)[i] = three[i]
      BY <3>1, <3>2, <3>4 DEF three
    <3>6. one \o two = three
      <4>1. three \in Seq(T) /\ Len(three) = 3  BY <3>3 DEF three
      <4> QED  BY <3>1, <3>2, <3>4, <3>5, <4>1, SeqEqual
    <3> QED  BY <3>6 DEF one, two, three
  <2> QED  BY <2>1, <2>2
<1>4. \A a, b, c : <<>> \o <<a, b, c>> = <<a, b, c>>
                      /\ <<a, b, c>> \o <<>> = <<a, b, c>>
  OBVIOUS
<1> QED  BY <1>1, <1>2, <1>3, <1>4

(* The rest of a script from i on begins with its operation i.             *)
LEMMA RestProperties ==
    ASSUME NEW T, NEW s \in Seq(T)
    PROVE  /\ Rest(s, 1) = s
           /\ Rest(s, Len(s) + 1) = <<>>
           /\ \A i \in 1 .. Len(s) : /\ Rest(s, i) # <<>> /\ Head(Rest(s, i)) = s[i]
                                     /\ <<>> \o Tail(Rest(s, i)) = Rest(s, i + 1)
<1>1. Len(s) \in Nat /\ \A i \in 1 .. Len(s) : s[i] \in T
  BY LenProperties, ElementOfSeq
<1>2. Rest(s, 1) = s
  BY SubSeqFull DEF Rest
<1>3. Rest(s, Len(s) + 1) = <<>>
  BY <1>1, SubSeqEmpty DEF Rest
<1>4. ASSUME NEW i \in 1 .. Len(s)
      PROVE  /\ Rest(s, i) # <<>> /\ Head(Rest(s, i)) = s[i]
             /\ <<>> \o Tail(Rest(s, i)) = Rest(s, i + 1)
  <2>1. /\ Rest(s, i) \in Seq(T) /\ Len(Rest(s, i)) = Len(s) - i + 1
        /\ Rest(s, i + 1) \in Seq(T)
    BY <1>1, SubSeqProperties DEF Rest
  <2>2. Rest(s, i) # <<>>
    BY <1>1, <2>1, EmptySeq
  <2>3. Head(Rest(s, i)) = s[i] /\ Tail(Rest(s, i)) = Rest(s, i + 1)
    BY <1>1, HeadTailOfSubSeq DEF Rest
  <2> QED  BY <2>1, <2>2, <2>3, ConcatEmptySeq
<1> QED  BY <1>2, <1>3, <1>4

(* What baresipStart is made of.                                           *)
LEMMA StartScript ==
    \E T : /\ BaresipStart \in Seq(T) /\ Len(BaresipStart) = 11
           /\ \A i \in 1 .. 9 : BaresipStart[i] = OpenOp(Parts[i])
           /\ BaresipStart[10] = Op("started") /\ BaresipStart[11] = Op("loop")
<1> DEFINE opens == [i \in 1 .. 9 |-> OpenOp(Parts[i])]
           rest == <<Op("started"), Op("loop")>>
           T == {OpenOp(Parts[i]) : i \in 1 .. 9} \union {Op("started"), Op("loop")}
<1>1. BaresipStart = opens \o rest
  BY DEF BaresipStart, Parts
<1>2. opens \in Seq(T) /\ Len(opens) = 9
  OBVIOUS
<1>3. rest \in Seq(T) /\ Len(rest) = 2 /\ rest[1] = Op("started") /\ rest[2] = Op("loop")
  <2> HIDE DEF opens
  <2> QED  OBVIOUS
<1>4. \A i \in 1 .. 9 : opens[i] = OpenOp(Parts[i])
  OBVIOUS
<1> HIDE DEF opens, rest, T
<1>5. /\ opens \o rest \in Seq(T) /\ Len(opens \o rest) = Len(opens) + Len(rest)
      /\ \A i \in 1 .. Len(opens) + Len(rest) :
            (opens \o rest)[i] = IF i <= Len(opens) THEN opens[i] ELSE rest[i - Len(opens)]
  BY <1>2, <1>3, ConcatProperties
<1>6. Len(opens \o rest) = 11
  BY <1>2, <1>3, <1>5
<1>7. \A i \in 1 .. 9 : (opens \o rest)[i] = opens[i]
  <2>1. \A i \in 1 .. 9 : i \in 1 .. Len(opens) + Len(rest) /\ i <= Len(opens)
    BY <1>2, <1>3
  <2> QED  BY ONLY <1>5, <2>1
<1>8. (opens \o rest)[10] = rest[1] /\ (opens \o rest)[11] = rest[2]
  BY <1>2, <1>3, <1>5
<1>9. \A i \in 1 .. 9 : BaresipStart[i] = OpenOp(Parts[i])
  BY <1>1, <1>4, <1>7
<1>10. BaresipStart[10] = Op("started") /\ BaresipStart[11] = Op("loop")
  BY <1>1, <1>3, <1>8
<1>11. BaresipStart \in Seq(T) /\ Len(BaresipStart) = 11
  BY <1>1, <1>5, <1>6
<1> QED  BY <1>9, <1>10, <1>11

(* What follows the label out is made of.                                  *)
LEMMA ClosingScript ==
    ASSUME NEW error
    PROVE  \E T : /\ Closing(error) \in Seq(T) /\ Len(Closing(error)) = 9
                  /\ \A i \in 1 .. 8 : Closing(error)[i] = CloseOp(ClosedParts[i])
                  /\ Closing(error)[9] = StoppedOp(error)
<1> DEFINE closes == [i \in 1 .. 8 |-> CloseOp(ClosedParts[i])]
           rest == <<StoppedOp(error)>>
           T == {CloseOp(ClosedParts[i]) : i \in 1 .. 8} \union {StoppedOp(error)}
<1>1. Closing(error) = closes \o rest
  BY DEF Closing, ClosedParts
<1>2. closes \in Seq(T) /\ Len(closes) = 8
  OBVIOUS
<1>3. rest \in Seq(T) /\ Len(rest) = 1 /\ rest[1] = StoppedOp(error)
  <2> HIDE DEF closes
  <2> QED  OBVIOUS
<1>4. \A i \in 1 .. 8 : closes[i] = CloseOp(ClosedParts[i])
  OBVIOUS
<1> HIDE DEF closes, rest, T
<1>5. /\ closes \o rest \in Seq(T) /\ Len(closes \o rest) = Len(closes) + Len(rest)
      /\ \A i \in 1 .. Len(closes) + Len(rest) :
            (closes \o rest)[i] = IF i <= Len(closes) THEN closes[i] ELSE rest[i - Len(closes)]
  BY <1>2, <1>3, ConcatProperties
<1>6. Len(closes \o rest) = 9
  BY <1>2, <1>3, <1>5
<1>7. \A i \in 1 .. 8 : (closes \o rest)[i] = closes[i]
  BY <1>2, <1>3, <1>5
<1>8. \A i \in 9 .. 9 : (closes \o rest)[i] = rest[i - 8]
  BY <1>2, <1>3, <1>5
<1>9. \A i \in 1 .. 8 : Closing(error)[i] = CloseOp(ClosedParts[i])
  BY <1>1, <1>4, <1>7
<1>10. (closes \o rest)[9] = rest[1]
  <2>1. 9 \in 9 .. 9 /\ 9 - 8 = 1
    OBVIOUS
  <2> QED  BY ONLY <1>8, <2>1
<1>11. Closing(error)[9] = StoppedOp(error)
  BY <1>1, <1>3, <1>10
<1>12. Closing(error) \in Seq(T) /\ Len(Closing(error)) = 9
  BY <1>1, <1>5, <1>6
<1> QED  BY ONLY <1>9, <1>11, <1>12

(* No other script of the main thread is one of the constructor's.         *)
LEMMA OtherScripts ==
    /\ \A s \in {<<Op("running")>>, Stopped} \union StoppedRests : ~ Constructing(s)
    /\ \A s : Constructing(s) \/ s \in {<<Op("running")>>} \union StoppedRests => s # Stopped
<1> DEFINE Op1(s) == Head(s).op
           Building == {"register", "initialize", "write", "spawn"}
<1>1. ASSUME NEW s, Constructing(s)  PROVE s # <<>> /\ Op1(s) \in Building
  <2>1. CASE s = Construct
    BY <2>1, SmallTails DEF Construct, Op
  <2>2. CASE s = <<Op("initialize"), Op("spawn"), Op("running")>>
    BY <2>2, SmallTails DEF Op
  <2>3. CASE \E text : s = <<WriteOp(text), Op("spawn"), Op("running")>>
    BY <2>3, SmallTails DEF WriteOp
  <2>4. CASE s = <<Op("spawn"), Op("running")>>
    BY <2>4, SmallTails DEF Op
  <2> QED  BY <1>1, <2>1, <2>2, <2>3, <2>4 DEF Constructing
<1>2. Stopped # <<>> /\ Op1(Stopped) = "baresipStop"
  BY SmallTails DEF Stopped, Op
<1>3. <<Op("running")>> # <<>> /\ Op1(<<Op("running")>>) = "running"
  BY SmallTails DEF Op
<1>4. \A s \in StoppedRests : s = <<>> \/ Op1(s) \in {"not_running", "unregister"}
  <2>1. Op1(<<Op("not_running"), Op("unregister")>>) = "not_running"
    BY SmallTails DEF Op
  <2>2. Op1(<<Op("unregister")>>) = "unregister"
    BY SmallTails DEF Op
  <2> QED  BY <2>1, <2>2 DEF StoppedRests
<1> HIDE DEF Op1
<1>5. \A s \in {<<Op("running")>>, Stopped} \union StoppedRests : ~ Constructing(s)
  BY <1>1, <1>2, <1>3, <1>4
<1>6. \A s : Constructing(s) \/ s \in {<<Op("running")>>} \union StoppedRests => s # Stopped
  BY <1>1, <1>2, <1>3, <1>4
<1> QED  BY <1>5, <1>6
-----------------------------------------------------------------------------
(* Where a thread is when it is at an operation.                           *)

(* A script of the main thread is known by its first operation.            *)
LEMMA MainAt ==
    ASSUME MainInv
    PROVE  /\ At("main", "register") => todo["main"] = Construct
           /\ At("main", "initialize") =>
                todo["main"] = <<Op("initialize"), Op("spawn"), Op("running")>>
           /\ At("main", "write") =>
                \E text : todo["main"] = <<WriteOp(text), Op("spawn"), Op("running")>>
           /\ At("main", "spawn") => todo["main"] = <<Op("spawn"), Op("running")>>
           /\ At("main", "running") => todo["main"] = <<Op("running")>>
           /\ At("main", "baresipStop") <=> todo["main"] = Stopped
           /\ At("main", "not_running") =>
                todo["main"] = <<Op("not_running"), Op("unregister")>>
           /\ At("main", "unregister") => todo["main"] = <<Op("unregister")>>
           /\ BeforeSpawn <=> \E op \in {"register", "initialize", "write", "spawn"} : At("main", op)
<1> DEFINE h == Head(todo["main"]).op
<1>1. CASE todo["main"] = Construct
  <2>1. todo["main"] # <<>> /\ h = "register"  BY <1>1, SmallTails DEF Construct, Op
  <2> QED  BY <1>1, <2>1 DEF At, BeforeSpawn, Constructing, Stopped, Construct, Op
<1>2. CASE todo["main"] = <<Op("initialize"), Op("spawn"), Op("running")>>
  <2>1. todo["main"] # <<>> /\ h = "initialize"  BY <1>2, SmallTails DEF Op
  <2>2. todo["main"] # Stopped  BY <2>1, SmallTails DEF Stopped, Op
  <2> QED  BY <1>2, <2>1, <2>2 DEF At, BeforeSpawn, Constructing
<1>3. CASE \E text : todo["main"] = <<WriteOp(text), Op("spawn"), Op("running")>>
  <2>1. todo["main"] # <<>> /\ h = "write"  BY <1>3, SmallTails DEF WriteOp
  <2>2. todo["main"] # Stopped  BY <2>1, SmallTails DEF Stopped, Op
  <2> QED  BY <1>3, <2>1, <2>2 DEF At, BeforeSpawn, Constructing
<1>4. CASE todo["main"] = <<Op("spawn"), Op("running")>>
  <2>1. todo["main"] # <<>> /\ h = "spawn"  BY <1>4, SmallTails DEF Op
  <2>2. todo["main"] # Stopped  BY <2>1, SmallTails DEF Stopped, Op
  <2> QED  BY <1>4, <2>1, <2>2 DEF At, BeforeSpawn, Constructing
<1>5. CASE todo["main"] \in {<<Op("running")>>, Stopped} \union StoppedRests
  <2>1. ASSUME BeforeSpawn
        PROVE  todo["main"] # <<>> /\ h \in {"register", "initialize", "write", "spawn"}
    <3>1. CASE todo["main"] = Construct
      BY <3>1, SmallTails DEF Construct, Op
    <3>2. CASE todo["main"] = <<Op("initialize"), Op("spawn"), Op("running")>>
      BY <3>2, SmallTails DEF Op
    <3>3. CASE \E text : todo["main"] = <<WriteOp(text), Op("spawn"), Op("running")>>
      BY <3>3, SmallTails DEF WriteOp
    <3>4. CASE todo["main"] = <<Op("spawn"), Op("running")>>
      BY <3>4, SmallTails DEF Op
    <3> QED  BY <2>1, <3>1, <3>2, <3>3, <3>4 DEF BeforeSpawn, Constructing
  <2>2. CASE todo["main"] = <<>>
    <3>1. todo["main"] # Stopped  BY <2>2, SmallTails DEF Stopped
    <3> QED  BY <2>1, <2>2, <3>1 DEF At
  <2>3. CASE todo["main"] = <<Op("running")>>
    <3>1. todo["main"] # <<>> /\ h = "running"  BY <2>3, SmallTails DEF Op
    <3>2. todo["main"] # Stopped  BY <3>1, SmallTails DEF Stopped, Op
    <3> QED  BY <2>1, <2>3, <3>1, <3>2 DEF At
  <2>4. CASE todo["main"] = Stopped
    <3>1. todo["main"] # <<>> /\ h = "baresipStop"  BY <2>4, SmallTails DEF Stopped, Op
    <3> QED  BY <2>1, <2>4, <3>1 DEF At
  <2>5. CASE todo["main"] = <<Op("not_running"), Op("unregister")>>
    <3>1. todo["main"] # <<>> /\ h = "not_running"  BY <2>5, SmallTails DEF Op
    <3>2. todo["main"] # Stopped  BY <3>1, SmallTails DEF Stopped, Op
    <3> QED  BY <2>1, <2>5, <3>1, <3>2 DEF At
  <2>6. CASE todo["main"] = <<Op("unregister")>>
    <3>1. todo["main"] # <<>> /\ h = "unregister"  BY <2>6, SmallTails DEF Op
    <3>2. todo["main"] # Stopped  BY <3>1, SmallTails DEF Stopped, Op
    <3> QED  BY <2>1, <2>6, <3>1, <3>2 DEF At
  <2> QED  BY <1>5, <2>2, <2>3, <2>4, <2>5, <2>6 DEF StoppedRests
<1> QED  BY <1>1, <1>2, <1>3, <1>4, <1>5 DEF MainInv, BeforeSpawn, Constructing

(* Each rest of baresipStart has an operation of its own in front.         *)
LEMMA StartAt ==
    ASSUME NEW i \in 1 .. 11, todo["re"] = Rest(BaresipStart, i)
    PROVE  /\ todo["re"] # <<>>
           /\ <<>> \o Tail(todo["re"]) = Rest(BaresipStart, i + 1)
           /\ i <= 9 => Head(todo["re"]) = OpenOp(Parts[i])
           /\ i = 10 => Head(todo["re"]) = Op("started")
           /\ i = 11 => Head(todo["re"]) = Op("loop")
<1>1. PICK T : /\ BaresipStart \in Seq(T) /\ Len(BaresipStart) = 11
               /\ \A k \in 1 .. 9 : BaresipStart[k] = OpenOp(Parts[k])
               /\ BaresipStart[10] = Op("started") /\ BaresipStart[11] = Op("loop")
  BY StartScript
<1>2. /\ Rest(BaresipStart, i) # <<>> /\ Head(Rest(BaresipStart, i)) = BaresipStart[i]
      /\ <<>> \o Tail(Rest(BaresipStart, i)) = Rest(BaresipStart, i + 1)
  BY <1>1, RestProperties
<1> QED  BY <1>1, <1>2

(* So has each of what follows the label out.                              *)
LEMMA ClosingAt ==
    ASSUME NEW error, NEW i \in 1 .. 9, todo["re"] = Rest(Closing(error), i)
    PROVE  /\ todo["re"] # <<>>
           /\ <<>> \o Tail(todo["re"]) = Rest(Closing(error), i + 1)
           /\ i <= 8 => Head(todo["re"]) = CloseOp(ClosedParts[i])
           /\ i = 9 => Head(todo["re"]) = StoppedOp(error) /\ Tail(todo["re"]) = <<>>
<1>1. PICK T : /\ Closing(error) \in Seq(T) /\ Len(Closing(error)) = 9
               /\ \A k \in 1 .. 8 : Closing(error)[k] = CloseOp(ClosedParts[k])
               /\ Closing(error)[9] = StoppedOp(error)
  BY ClosingScript
<1>2. /\ Rest(Closing(error), i) # <<>> /\ Head(Rest(Closing(error), i)) = Closing(error)[i]
      /\ <<>> \o Tail(Rest(Closing(error), i)) = Rest(Closing(error), i + 1)
  <2> DEFINE s == Closing(error)
  <2> HIDE DEF s
  <2>1. s \in Seq(T) /\ Len(s) = 9
    BY <1>1 DEF s
  <2>2. /\ Rest(s, i) # <<>> /\ Head(Rest(s, i)) = s[i]
        /\ <<>> \o Tail(Rest(s, i)) = Rest(s, i + 1)
    BY <2>1, RestProperties
  <2> QED  BY <2>2 DEF s
<1>3. ASSUME i = 9  PROVE Tail(todo["re"]) = <<>>
  <2>1. todo["re"] = <<Closing(error)[9]>>
    <3> DEFINE s == Closing(error)
    <3> HIDE DEF s
    <3>1. s \in Seq(T) /\ Len(s) = 9
      BY <1>1 DEF s
    <3>2. SubSeq(s, 9, 9) = <<s[9]>> \o SubSeq(s, 10, 9)
      BY <3>1, SubSeqRecursiveFirst
    <3>3. SubSeq(s, 10, 9) = <<>>
      BY SubSeqEmpty
    <3>4. todo["re"] = SubSeq(s, 9, 9)
      BY <1>3, <3>1 DEF Rest, s
    <3> QED  BY <3>2, <3>3, <3>4, SmallEmpty DEF s
  <2> QED  BY <2>1, SmallTails
<1> QED  BY <1>1, <1>2, <1>3

(* What is to be opened before a place is a part, and so is what is closed *)
(* from one on; at the ends they are nothing and everything.               *)
LEMMA PartsAround ==
    /\ \A i : Before(i) \subseteq PartNames
    /\ \A i \in 1 .. 9 : Parts[i] \in PartNames /\ Before(i) \union {Parts[i]} \subseteq Before(i + 1)
    /\ Before(10) \subseteq Before(11)
    /\ PartNames = ToClose(1) /\ ToClose(9) = {}
    /\ \A i \in 1 .. 8 : ToClose(i) \ Gone(i) \subseteq ToClose(i + 1)
    /\ \A i \in 1 .. 9 : ToClose(i) \subseteq PartNames
<1>1. DOMAIN Parts = 1 .. 9
  BY DEF Parts
<1>2. \A i : Before(i) \subseteq PartNames
  BY DEF Before, PartNames
<1>3. ASSUME NEW i \in 1 .. 9
      PROVE  Parts[i] \in PartNames /\ Before(i) \union {Parts[i]} \subseteq Before(i + 1)
  BY <1>1 DEF Before, PartNames
<1>4. Before(10) \subseteq Before(11)
  BY <1>1 DEF Before
<1>5. ToClose(9) = {}
  BY DEF ToClose
<1>6. ASSUME NEW i \in 1 .. 8  PROVE ToClose(i) \ Gone(i) \subseteq ToClose(i + 1)
  BY DEF ToClose
<1>7. PartNames = {"libre", "thread", "conf_configure", "baresip_init", "ua_init",
           "uag_event_register", "message_listen", "conf_modules", "mqueue_alloc"}
  <2>1. /\ Parts[1] = "libre" /\ Parts[2] = "thread" /\ Parts[3] = "conf_configure"
        /\ Parts[4] = "baresip_init" /\ Parts[5] = "ua_init" /\ Parts[6] = "uag_event_register"
        /\ Parts[7] = "message_listen" /\ Parts[8] = "conf_modules" /\ Parts[9] = "mqueue_alloc"
    BY DEF Parts
  <2>2. \A i : i \in 1 .. 9 <=> i \in {1, 2, 3, 4, 5, 6, 7, 8, 9}
    OBVIOUS
  <2> QED  BY <1>1, <2>1, <2>2 DEF PartNames
<1>8. /\ Gone(1) = {"mqueue_alloc"} /\ Gone(2) = {"ua_init"} /\ Gone(3) = {"conf_configure"}
      /\ Gone(4) = {"baresip_init", "message_listen"} /\ Gone(5) = {"uag_event_register"}
      /\ Gone(6) = {"conf_modules"} /\ Gone(7) = {"thread"} /\ Gone(8) = {"libre"}
  BY DEF Gone, ClosedParts
<1>9. \A k \in 1 .. 8 : Gone(k) \subseteq PartNames
  <2>1. \A k : k \in 1 .. 8 <=> k \in {1, 2, 3, 4, 5, 6, 7, 8}
    OBVIOUS
  <2> QED  BY <1>7, <1>8, <2>1
<1>10. PartNames \subseteq ToClose(1)
  <2>1. \A k : k \in 1 .. 8 <=> k \in {1, 2, 3, 4, 5, 6, 7, 8}
    OBVIOUS
  <2>2. \A k \in 1 .. 8 : Gone(k) \subseteq ToClose(1)
    BY DEF ToClose
  <2> QED  BY <1>7, <1>8, <2>1, <2>2
<1>11. \A i \in 1 .. 9 : ToClose(i) \subseteq PartNames
  BY <1>9 DEF ToClose
<1> QED  BY <1>2, <1>3, <1>4, <1>5, <1>6, <1>10, <1>11

\* A part is to be opened, or closed, or the upcall stopped is next.
AtOpen ==
    \E i \in 1 .. 9 : /\ Head(todo["re"]) = OpenOp(Parts[i])
                      /\ <<>> \o Tail(todo["re"]) = Rest(BaresipStart, i + 1)
                      /\ opened \subseteq Before(i)

AtClose ==
    \E i \in 1 .. 8, error \in Errors :
        /\ Head(todo["re"]) = CloseOp(ClosedParts[i])
        /\ <<>> \o Tail(todo["re"]) = Rest(Closing(error), i + 1)
        /\ opened \subseteq ToClose(i)

AtStopped ==
    /\ \E error \in Errors : Head(todo["re"]) = StoppedOp(error)
    /\ Tail(todo["re"]) = <<>>
    /\ opened = {}

(* What the operation in front of the thread of baresip says of what is    *)
(* open and of what comes next.                                            *)
LEMMA ReAt ==
    ASSUME ReInv
    PROVE  /\ At("re", "open") => AtOpen
           /\ At("re", "started") =>
                /\ <<>> \o Tail(todo["re"]) = Rest(BaresipStart, 11)
                /\ opened \subseteq Before(10)
           /\ At("re", "close") => AtClose
           /\ At("re", "stopped") => AtStopped
           /\ At("re", "baresipStop") => todo["re"] = Stopped /\ opened = {}
           /\ At("re", "not_running") =>
                todo["re"] = <<Op("not_running"), Op("unregister")>> /\ opened = {}
           /\ At("re", "unregister") => todo["re"] = <<Op("unregister")>> /\ opened = {}
           /\ Idle("re") => opened = {}
           /\ opened \subseteq PartNames
<1> DEFINE h == Head(todo["re"])
<1>1. CASE Opening
  <2>1. PICK i \in 1 .. 11 : todo["re"] = Rest(BaresipStart, i) /\ opened \subseteq Before(i)
    BY <1>1 DEF Opening
  <2>2. /\ todo["re"] # <<>>
        /\ <<>> \o Tail(todo["re"]) = Rest(BaresipStart, i + 1)
        /\ i <= 9 => h = OpenOp(Parts[i])
        /\ i = 10 => h = Op("started")
        /\ i = 11 => h = Op("loop")
    BY <2>1, StartAt
  <2>3. opened \subseteq PartNames
    BY <2>1, PartsAround
  <2>4. CASE i <= 9
    <3>1. h.op = "open" /\ i \in 1 .. 9  BY <2>2, <2>4 DEF OpenOp
    <3>2. AtOpen  BY <2>1, <2>2, <2>4, <3>1 DEF AtOpen
    <3>3. ~ Idle("re")  BY <2>2 DEF Idle
    <3>4. /\ ~ At("re", "started") /\ ~ At("re", "close") /\ ~ At("re", "stopped")
          /\ ~ At("re", "baresipStop") /\ ~ At("re", "not_running") /\ ~ At("re", "unregister")
      BY <3>1 DEF At
    <3> QED  BY <2>3, <3>2, <3>3, <3>4
  <2>5. CASE i = 10
    <3>1. h.op = "started"  BY <2>2, <2>5 DEF Op
    <3> QED  BY <2>1, <2>2, <2>3, <2>5, <3>1 DEF At, Idle
  <2>6. CASE i = 11
    <3>1. h.op = "loop"  BY <2>2, <2>6 DEF Op
    <3> QED  BY <2>1, <2>2, <2>3, <2>6, <3>1 DEF At, Idle
  <2> QED  BY <2>4, <2>5, <2>6
<1>2. CASE ClosingDown
  <2>1. PICK i \in 1 .. 9, error \in Errors :
            todo["re"] = Rest(Closing(error), i) /\ opened \subseteq ToClose(i)
    BY <1>2 DEF ClosingDown
  <2>2. /\ todo["re"] # <<>>
        /\ <<>> \o Tail(todo["re"]) = Rest(Closing(error), i + 1)
        /\ i <= 8 => h = CloseOp(ClosedParts[i])
        /\ i = 9 => h = StoppedOp(error) /\ Tail(todo["re"]) = <<>>
    BY <2>1, ClosingAt
  <2>3. opened \subseteq PartNames
    BY <2>1, PartsAround
  <2>4. CASE i <= 8
    <3>1. h.op = "close" /\ i \in 1 .. 8  BY <2>2, <2>4 DEF CloseOp
    <3>2. AtClose  BY <2>1, <2>2, <2>4, <3>1 DEF AtClose
    <3>3. ~ Idle("re")  BY <2>2 DEF Idle
    <3>4. /\ ~ At("re", "open") /\ ~ At("re", "started") /\ ~ At("re", "stopped")
          /\ ~ At("re", "baresipStop") /\ ~ At("re", "not_running") /\ ~ At("re", "unregister")
      BY <3>1 DEF At
    <3> QED  BY <2>3, <3>2, <3>3, <3>4
  <2>5. CASE i = 9
    <3>1. h.op = "stopped"  BY <2>2, <2>5 DEF StoppedOp
    <3>2. opened = {}  BY <2>1, <2>5, PartsAround
    <3>3. AtStopped  BY <2>1, <2>2, <2>5, <3>2 DEF AtStopped
    <3>4. ~ Idle("re")  BY <2>2 DEF Idle
    <3>5. /\ ~ At("re", "open") /\ ~ At("re", "started") /\ ~ At("re", "close")
          /\ ~ At("re", "baresipStop") /\ ~ At("re", "not_running") /\ ~ At("re", "unregister")
      BY <3>1 DEF At
    <3> QED  BY <2>3, <3>2, <3>3, <3>4, <3>5
  <2> QED  BY <2>4, <2>5
<1>3. CASE Over
  <2>1. opened = {} /\ opened \subseteq PartNames
    BY <1>3 DEF Over
  <2>2. CASE todo["re"] = <<>>
    BY <2>1, <2>2 DEF At
  <2>3. CASE todo["re"] = Stopped
    <3>1. todo["re"] # <<>> /\ h.op = "baresipStop"  BY <2>3, SmallTails DEF Stopped, Op
    <3> QED  BY <2>1, <2>3, <3>1 DEF At
  <2>4. CASE todo["re"] = <<Op("not_running"), Op("unregister")>>
    <3>1. todo["re"] # <<>> /\ h.op = "not_running"  BY <2>4, SmallTails DEF Op
    <3> QED  BY <2>1, <2>4, <3>1 DEF At
  <2>5. CASE todo["re"] = <<Op("unregister")>>
    <3>1. todo["re"] # <<>> /\ h.op = "unregister"  BY <2>5, SmallTails DEF Op
    <3> QED  BY <2>1, <2>5, <3>1 DEF At
  <2> QED  BY <1>3, <2>2, <2>3, <2>4, <2>5 DEF Over, StoppedRests
<1> QED  BY <1>1, <1>2, <1>3 DEF ReInv
-----------------------------------------------------------------------------
(* A step keeps the invariant.                                             *)

(* What becomes of the scripts when one of them is changed.                *)
LEMMA Scripted ==
    ASSUME DOMAIN todo = Threads, NEW t \in Threads, NEW ops,
           todo' = [todo EXCEPT ![t] = ops]
    PROVE  /\ DOMAIN todo' = Threads /\ todo'[t] = ops
           /\ \A u \in Threads \ {t} : todo'[u] = todo[u]
OBVIOUS

(* A new process, and one that ended, do nothing and have nothing open.    *)
LEMMA VolatileInv ==
    ASSUME Volatile
    PROVE  MainInv' /\ ReInv' /\ OnceInv' /\ StopsInv'
<1>1. /\ todo'["main"] = <<>> /\ todo'["re"] = <<>> /\ opened' = {} /\ stops' = 0
      /\ attached' = 0 /\ engine' = FALSE /\ told' = NotBegun
  BY DEF Volatile, Threads
<1>2. MainInv'
  BY <1>1 DEF MainInv, StoppedRests
<1>3. ReInv'
  BY <1>1 DEF ReInv, Over, StoppedRests
<1>4. ~ BeforeSpawn'
  BY <1>1, SmallTails DEF BeforeSpawn, Constructing, Construct
<1>5. OnceInv'
  BY <1>1, <1>4 DEF OnceInv, Idle
<1>6. StopsInv'
  <2>1. todo'["main"] # Stopped
    BY <1>1, SmallTails DEF Stopped
  <2> QED  BY <1>1, <2>1 DEF StopsInv
<1> QED  BY <1>2, <1>3, <1>5, <1>6

(* Steps of the thread of baresip leave the script of the main thread.     *)
LEMMA MainStays ==
    ASSUME DOMAIN todo = Threads, MainInv,
           ReStep \/ SignalHandler \/ LoopFails
    PROVE  \/ Volatile
           \/ todo'["main"] = todo["main"] /\ UNCHANGED <<attached, engine, manager>>
<1> USE DEF Threads
<1>1. CASE OpenPart
  BY <1>1, Scripted DEF OpenPart, Continue, Goto, kotlin
<1>2. CASE Started
  BY <1>2, Scripted DEF Started, Continue, kotlin
<1>3. CASE MqueueHandler \/ UasExit
  BY <1>3, Scripted DEF MqueueHandler, UasExit, Goto, kotlin
<1>4. CASE ClosePart
  BY <1>4, Scripted DEF ClosePart, Continue, kotlin
<1>5. CASE StoppedUpcall
  BY <1>5, Scripted DEF StoppedUpcall, Continue
<1>6. CASE BaresipStop("re")
  BY <1>6, Scripted DEF BaresipStop, Continue, kotlin
<1>7. CASE NotRunning("re")
  BY <1>7, Scripted DEF NotRunning, Continue
<1>8. CASE Unregister("re")
  BY <1>8, Scripted DEF Unregister, Continue, Die
<1>9. CASE SignalHandler
  BY <1>9 DEF SignalHandler, Die, kotlin
<1>10. CASE LoopFails
  BY <1>10, Scripted DEF LoopFails, Goto, kotlin
<1> QED
  BY <1>1, <1>2, <1>3, <1>4, <1>5, <1>6, <1>7, <1>8, <1>9, <1>10 DEF ReStep

(* Those of the main thread, but for the one that starts it, leave the     *)
(* script of the thread of baresip and what is open.                       *)
LEMMA ReStays ==
    ASSUME DOMAIN todo = Threads, Attach \/ Detach \/ MainStep
    PROVE  \/ Volatile
           \/ todo'["re"] = todo["re"] /\ UNCHANGED <<opened, told>>
           \/ Spawn
<1> USE DEF Threads
<1>1. CASE Attach
  BY <1>1, Scripted DEF Attach, Start, native
<1>2. CASE Detach
  BY <1>2, Scripted DEF Detach, Start, native
<1>3. CASE Register
  BY <1>3, Scripted DEF Register, Continue, native
<1>4. CASE Initialize
  <2>1. \/ Continue("main", <<WriteOp(Rewrite(file))>>)
        \/ Continue("main", <<>>)
    BY <1>4 DEF Initialize
  <2>2. todo'["re"] = todo["re"]
    BY <2>1, Scripted DEF Continue
  <2> QED  BY <1>4, <2>2 DEF Initialize, native, kotlin
<1>5. CASE Write
  BY <1>5, Scripted DEF Write, Continue, native, kotlin
<1>6. CASE Running
  BY <1>6, Scripted DEF Running, Continue, native
<1>7. CASE BaresipStop("main")
  BY <1>7, Scripted DEF BaresipStop, Continue, kotlin
<1>8. CASE NotRunning("main")
  BY <1>8, Scripted DEF NotRunning, Continue, native
<1>9. CASE Unregister("main")
  BY <1>9, Scripted DEF Unregister, Continue, Die, native
<1> QED
  BY <1>1, <1>2, <1>3, <1>4, <1>5, <1>6, <1>7, <1>8, <1>9 DEF MainStep

(* What a step of the main thread makes of its script.                     *)
LEMMA MainMoves ==
    ASSUME DOMAIN todo = Threads, MainInv, MainStep
    PROVE  \/ Volatile
           \/ /\ MainInv' /\ (BeforeSpawn' => BeforeSpawn)
              /\ todo'["main"] # Stopped
              /\ UNCHANGED <<attached, engine, manager>>
<1> USE DEF Threads
<1> DEFINE Moved ==
              /\ MainInv' /\ (BeforeSpawn' => BeforeSpawn)
              /\ todo'["main"] # Stopped
              /\ UNCHANGED <<attached, engine, manager>>
<1>1. ASSUME Constructing(todo["main"]), Constructing(todo'["main"]),
             UNCHANGED <<attached, engine, manager>>
      PROVE  Moved
  BY <1>1, OtherScripts DEF MainInv, BeforeSpawn
<1>2. ASSUME todo'["main"] \in {<<Op("running")>>} \union StoppedRests,
             UNCHANGED <<attached, engine, manager>>
      PROVE  Moved
  BY <1>2, OtherScripts DEF MainInv, BeforeSpawn
<1> HIDE DEF Moved
<1>3. CASE Register
  <2>1. todo["main"] = Construct
    BY <1>3, MainAt DEF Register
  <2>2. <<>> \o Tail(todo["main"]) = <<Op("initialize"), Op("spawn"), Op("running")>>
    BY <2>1, SmallTails, SmallEmpty DEF Construct
  <2>3. todo'["main"] = <<Op("initialize"), Op("spawn"), Op("running")>>
    BY <1>3, <2>2, Scripted DEF Register, Continue
  <2>4. UNCHANGED <<attached, engine, manager>>
    BY <1>3 DEF Register
  <2> QED  BY <1>1, <2>1, <2>3, <2>4 DEF Constructing, Moved
<1>4. CASE Initialize
  <2>1. todo["main"] = <<Op("initialize"), Op("spawn"), Op("running")>>
    BY <1>4, MainAt DEF Initialize
  <2>2. Tail(todo["main"]) = <<Op("spawn"), Op("running")>>
    BY <2>1, SmallTails
  <2>3. /\ <<WriteOp(Rewrite(file))>> \o Tail(todo["main"]) =
              <<WriteOp(Rewrite(file)), Op("spawn"), Op("running")>>
        /\ <<>> \o Tail(todo["main"]) = <<Op("spawn"), Op("running")>>
    <3>1. \A a, b, c : <<c>> \o <<a, b>> = <<c, a, b>>
      BY SmallEmpty
    <3>2. \A a, b : <<>> \o <<a, b>> = <<a, b>>
      BY SmallEmpty
    <3> HIDE DEF Moved
    <3> QED  BY ONLY <2>2, <3>1, <3>2
  <2>4. UNCHANGED <<attached, engine, manager>>
    BY <1>4 DEF Initialize, kotlin
  <2>5. CASE Continue("main", <<WriteOp(Rewrite(file))>>)
    <3>1. todo'["main"] = <<WriteOp(Rewrite(file)), Op("spawn"), Op("running")>>
      BY <2>3, <2>5, Scripted DEF Continue
    <3> QED  BY <1>1, <2>1, <2>4, <3>1 DEF Constructing, Moved
  <2>6. CASE Continue("main", <<>>)
    <3>1. todo'["main"] = <<Op("spawn"), Op("running")>>
      BY <2>3, <2>6, Scripted DEF Continue
    <3> QED  BY <1>1, <2>1, <2>4, <3>1 DEF Constructing, Moved
  <2> QED  BY <1>4, <2>5, <2>6 DEF Initialize
<1>5. CASE Write
  <2>1. PICK text : todo["main"] = <<WriteOp(text), Op("spawn"), Op("running")>>
    BY <1>5, MainAt DEF Write
  <2>2. <<>> \o Tail(todo["main"]) = <<Op("spawn"), Op("running")>>
    BY <2>1, SmallTails, SmallEmpty
  <2>3. todo'["main"] = <<Op("spawn"), Op("running")>>
    BY <1>5, <2>2, Scripted DEF Write, Continue
  <2>4. UNCHANGED <<attached, engine, manager>>
    BY <1>5 DEF Write, kotlin
  <2> QED  BY <1>1, <2>1, <2>3, <2>4 DEF Constructing, Moved
<1>6. CASE Spawn
  <2>1. todo["main"] = <<Op("spawn"), Op("running")>>
    BY <1>6, MainAt DEF Spawn
  <2>2. Tail(todo["main"]) = <<Op("running")>>
    BY <2>1, SmallTails
  <2>3. todo'["main"] = <<Op("running")>>
    BY <1>6, <2>2 DEF Spawn
  <2>4. UNCHANGED <<attached, engine, manager>>
    BY <1>6 DEF Spawn, kotlin
  <2> QED  BY <1>2, <2>3, <2>4 DEF Moved
<1>7. CASE Running
  <2>0. todo["main"] = <<Op("running")>>
    BY <1>7, MainAt DEF Running
  <2>1. <<>> \o Tail(todo["main"]) = <<>>
    BY <2>0, SmallTails, SmallEmpty
  <2>2. todo'["main"] = <<>>
    BY <1>7, <2>1, Scripted DEF Running, Continue
  <2>3. UNCHANGED <<attached, engine, manager>>
    BY <1>7 DEF Running
  <2> QED  BY <1>2, <2>2, <2>3 DEF StoppedRests, Moved
<1>8. CASE BaresipStop("main")
  <2>1. todo["main"] = Stopped
    BY <1>8, MainAt DEF BaresipStop
  <2>2. <<>> \o Tail(todo["main"]) = <<Op("not_running"), Op("unregister")>>
    BY <2>1, SmallTails, SmallEmpty DEF Stopped
  <2>3. todo'["main"] = <<Op("not_running"), Op("unregister")>>
    BY <1>8, <2>2, Scripted DEF BaresipStop, Continue
  <2>4. UNCHANGED <<attached, engine, manager>>
    BY <1>8 DEF BaresipStop, kotlin
  <2> QED  BY <1>2, <2>3, <2>4 DEF StoppedRests, Moved
<1>9. CASE NotRunning("main")
  <2>1. todo["main"] = <<Op("not_running"), Op("unregister")>>
    BY <1>9, MainAt DEF NotRunning
  <2>2. <<>> \o Tail(todo["main"]) = <<Op("unregister")>>
    BY <2>1, SmallTails, SmallEmpty
  <2>3. todo'["main"] = <<Op("unregister")>>
    BY <1>9, <2>2, Scripted DEF NotRunning, Continue
  <2>4. UNCHANGED <<attached, engine, manager>>
    BY <1>9 DEF NotRunning
  <2> QED  BY <1>2, <2>3, <2>4 DEF StoppedRests, Moved
<1>10. CASE Unregister("main") /\ receiver
  <2>1. todo["main"] = <<Op("unregister")>>
    BY <1>10, MainAt DEF Unregister
  <2>2. <<>> \o Tail(todo["main"]) = <<>>
    BY <2>1, SmallTails, SmallEmpty
  <2>3. todo'["main"] = <<>>
    BY <1>10, <2>2, Scripted DEF Unregister, Continue
  <2>4. UNCHANGED <<attached, engine, manager>>
    BY <1>10 DEF Unregister
  <2> QED  BY <1>2, <2>3, <2>4 DEF StoppedRests, Moved
<1>11. CASE Unregister("main") /\ ~ receiver
  BY <1>11 DEF Unregister, Die
<1> QED
  BY <1>3, <1>4, <1>5, <1>6, <1>7, <1>8, <1>9, <1>10, <1>11 DEF MainStep, Moved

(* An engine comes or goes.                                                *)
LEMMA EngineMoves ==
    ASSUME DOMAIN todo = Threads, MainInv, Attach \/ Detach
    PROVE  /\ MainInv'
           /\ BeforeSpawn' => Attach /\ ~ manager
           /\ todo'["main"] = Stopped => Detach
<1>1. todo["main"] = <<>>
  BY DEF Attach, Detach, Start, Idle
<1>2. CASE Detach
  <2>1. todo'["main"] = Stopped
    BY <1>2, Scripted DEF Detach, Start, Threads
  <2> QED  BY <1>2, <2>1, OtherScripts DEF MainInv, BeforeSpawn
<1>3. CASE Attach /\ ~ manager
  <2>1. todo'["main"] = Construct
    BY <1>3, Scripted DEF Attach, Start, Threads
  <2> QED  BY <1>3, <2>1, OtherScripts DEF MainInv, BeforeSpawn, Constructing
<1>4. CASE Attach /\ manager
  <2>1. todo'["main"] = <<>>
    BY <1>1, <1>4 DEF Attach
  <2>2. <<>> \in StoppedRests
    BY DEF StoppedRests
  <2> QED  BY <2>1, <2>2, OtherScripts DEF MainInv, BeforeSpawn
<1> QED  BY <1>2, <1>3, <1>4

(* The steps of Next, by what they do to the scripts.                      *)
LEMMA Kinds ==
    ASSUME [Next]_vars
    PROVE  \/ Attach \/ Detach
           \/ MainStep
           \/ ReStep \/ SignalHandler \/ LoopFails
           \/ Volatile /\ UNCHANGED <<given, file, started>> /\ torn' = (torn \/ At("main", "write"))
                /\ alive' = FALSE
           \/ NewProcess
           \/ UNCHANGED vars
BY DEF Next, Kill

(* The main thread's script stays one of those it can have.                *)
LEMMA MainKept ==
    ASSUME IInv, [Next]_vars
    PROVE  MainInv'
<1>1. DOMAIN todo = Threads /\ MainInv
  BY DEF IInv, ValuesInv
<1>2. CASE Attach \/ Detach
  BY <1>1, <1>2, EngineMoves
<1>3. CASE MainStep
  BY <1>1, <1>3, MainMoves, VolatileInv
<1>4. CASE ReStep \/ SignalHandler \/ LoopFails
  <2>1. Volatile \/ todo'["main"] = todo["main"]
    BY <1>1, <1>4, MainStays
  <2> QED  BY <1>1, <2>1, VolatileInv DEF MainInv, BeforeSpawn
<1>5. CASE Volatile
  BY <1>5, VolatileInv
<1>6. CASE NewProcess \/ UNCHANGED vars
  BY <1>1, <1>6 DEF NewProcess, vars, MainInv, BeforeSpawn
<1> QED  BY <1>2, <1>3, <1>4, <1>5, <1>6, Kinds

(* A script that begins to close everything, with what can be open.        *)
LEMMA CloseAll ==
    ASSUME NEW error \in Errors, todo'["re"] = Closing(error), opened' \subseteq PartNames
    PROVE  ReInv'
<1>1. PICK T : Closing(error) \in Seq(T)
  BY ClosingScript
<1>2. Closing(error) = Rest(Closing(error), 1)
  BY <1>1, RestProperties
<1>3. opened' \subseteq ToClose(1)
  BY PartsAround
<1>4. ClosingDown'
  BY <1>2, <1>3 DEF ClosingDown
<1> QED  BY <1>4 DEF ReInv

(* What is open stays among what the script of baresip's thread allows.    *)
LEMMA ReKept ==
    ASSUME IInv, [Next]_vars
    PROVE  ReInv'
<1>1. DOMAIN todo = Threads /\ MainInv /\ ReInv
  BY DEF IInv, ValuesInv
<1>2. ASSUME todo'["re"] = todo["re"], opened' = opened  PROVE ReInv'
  BY <1>1, <1>2 DEF ReInv, Opening, ClosingDown, Over
<1>3. CASE Attach \/ Detach \/ MainStep
  <2>1. CASE Spawn
    <3>1. At("main", "spawn") /\ todo'["re"] = BaresipStart /\ opened' = opened
      BY <1>1, <2>1 DEF Spawn, native, Threads
    <3>2. opened = {}
      BY <1>1, <3>1, MainAt DEF IInv, OnceInv
    <3>3. PICK T : BaresipStart \in Seq(T)
      BY StartScript
    <3>4. BaresipStart = Rest(BaresipStart, 1)
      BY <3>3, RestProperties
    <3> QED  BY <3>1, <3>2, <3>4 DEF ReInv, Opening
  <2> QED  BY <1>1, <1>2, <1>3, <2>1, ReStays, VolatileInv
<1>4. CASE OpenPart
  <2> DEFINE part == Head(todo["re"]).part
  <2>1. PICK i \in 1 .. 9 : /\ Head(todo["re"]) = OpenOp(Parts[i])
                            /\ <<>> \o Tail(todo["re"]) = Rest(BaresipStart, i + 1)
                            /\ opened \subseteq Before(i)
    BY <1>1, <1>4, ReAt DEF OpenPart, AtOpen
  <2>2. part = Parts[i]
    BY <2>1 DEF OpenOp
  <2>3. CASE opened' = opened \union {part} /\ Continue("re", <<>>)
    <3>1. todo'["re"] = Rest(BaresipStart, i + 1)
      BY <1>1, <2>1, <2>3, Scripted DEF Continue, Threads
    <3>2. opened' \subseteq Before(i + 1)
      BY <2>1, <2>2, <2>3, PartsAround
    <3>3. Opening'
      BY <3>1, <3>2 DEF Opening
    <3> QED  BY <3>3 DEF ReInv
  <2>4. CASE opened' = opened /\ Goto("re", Closing(IF part \in Nameless THEN "" ELSE part))
    <3> DEFINE error == IF part \in Nameless THEN "" ELSE part
    <3>1. error \in Errors
      BY <2>2, PartsAround DEF Errors
    <3>2. todo'["re"] = Closing(error)
      BY <1>1, <2>4, Scripted DEF Goto, Threads
    <3>3. opened' \subseteq PartNames
      BY <1>1, <2>4, ReAt
    <3> HIDE DEF error
    <3> QED  BY <3>1, <3>2, <3>3, CloseAll
  <2> QED  BY <1>4, <2>3, <2>4 DEF OpenPart
<1>5. CASE Started
  <2>1. <<>> \o Tail(todo["re"]) = Rest(BaresipStart, 11) /\ opened \subseteq Before(10)
    BY <1>1, <1>5, ReAt DEF Started
  <2>2. todo'["re"] = Rest(BaresipStart, 11) /\ opened' = opened
    BY <1>1, <1>5, <2>1, Scripted DEF Started, Continue, Threads, native
  <2>3. Opening'
    BY <2>1, <2>2, PartsAround DEF Opening
  <2> QED  BY <2>3 DEF ReInv
<1>6. CASE UasExit \/ LoopFails
  <2>1. todo'["re"] = Closing("") /\ opened' = opened
    BY <1>1, <1>6, Scripted DEF UasExit, LoopFails, Goto, Threads, native
  <2> QED  BY <1>1, <2>1, ReAt, CloseAll DEF Errors
<1>12. CASE MqueueHandler \/ SignalHandler
  <2>1. \/ Volatile
        \/ todo' = todo /\ opened' = opened
    BY <1>12 DEF MqueueHandler, SignalHandler, Die
  <2> QED  BY <1>2, <2>1, VolatileInv
<1>7. CASE ClosePart
  <2>1. PICK i \in 1 .. 8, error \in Errors :
            /\ Head(todo["re"]) = CloseOp(ClosedParts[i])
            /\ <<>> \o Tail(todo["re"]) = Rest(Closing(error), i + 1)
            /\ opened \subseteq ToClose(i)
    BY <1>1, <1>7, ReAt DEF ClosePart, AtClose
  <2>2. Head(todo["re"]).part = ClosedParts[i]
    BY <2>1 DEF CloseOp
  <2>3. opened' = opened \ Gone(i)
    BY <1>7, <2>2 DEF ClosePart, Gone
  <2>4. todo'["re"] = Rest(Closing(error), i + 1)
    BY <1>1, <1>7, <2>1, Scripted DEF ClosePart, Continue, Threads
  <2>5. opened' \subseteq ToClose(i + 1)
    BY <2>1, <2>3, PartsAround
  <2>6. ClosingDown'
    BY <2>4, <2>5 DEF ClosingDown
  <2> QED  BY <2>6 DEF ReInv
<1>8. CASE StoppedUpcall
  <2>1. Tail(todo["re"]) = <<>> /\ opened = {}
    BY <1>1, <1>8, ReAt DEF StoppedUpcall, AtStopped
  <2>2. Stopped \o Tail(todo["re"]) = Stopped
    <3>1. \A a, b, c : <<a, b, c>> \o <<>> = <<a, b, c>>
      BY SmallEmpty
    <3> QED  BY ONLY <2>1, <3>1 DEF Stopped
  <2>3. todo'["re"] = Stopped /\ opened' = {}
    BY <1>1, <1>8, <2>1, <2>2, Scripted DEF StoppedUpcall, Continue, Threads, native
  <2> QED  BY <2>3 DEF ReInv, Over
<1>9. CASE BaresipStop("re") \/ NotRunning("re") \/ Unregister("re")
  <2>1. ASSUME todo'["re"] \in StoppedRests, opened' = {}  PROVE ReInv'
    BY <2>1 DEF ReInv, Over
  <2>2. CASE BaresipStop("re")
    <3>1. todo["re"] = Stopped /\ opened = {}
      BY <1>1, <2>2, ReAt DEF BaresipStop
    <3>2. <<>> \o Tail(todo["re"]) = <<Op("not_running"), Op("unregister")>>
      BY <3>1, SmallTails, SmallEmpty DEF Stopped
    <3>3. todo'["re"] = <<Op("not_running"), Op("unregister")>> /\ opened' = opened
      BY <1>1, <2>2, <3>2, Scripted DEF BaresipStop, Continue, Threads
    <3> QED  BY <2>1, <3>1, <3>3 DEF StoppedRests
  <2>3. CASE NotRunning("re")
    <3>1. todo["re"] = <<Op("not_running"), Op("unregister")>> /\ opened = {}
      BY <1>1, <2>3, ReAt DEF NotRunning
    <3>2. <<>> \o Tail(todo["re"]) = <<Op("unregister")>>
      BY <3>1, SmallTails, SmallEmpty
    <3>3. todo'["re"] = <<Op("unregister")>> /\ opened' = opened
      BY <1>1, <2>3, <3>2, Scripted DEF NotRunning, Continue, Threads, native
    <3> QED  BY <2>1, <3>1, <3>3 DEF StoppedRests
  <2>4. CASE Unregister("re") /\ receiver
    <3>1. todo["re"] = <<Op("unregister")>> /\ opened = {}
      BY <1>1, <2>4, ReAt DEF Unregister
    <3>2. <<>> \o Tail(todo["re"]) = <<>>
      BY <3>1, SmallTails, SmallEmpty
    <3>3. todo'["re"] = <<>> /\ opened' = opened
      BY <1>1, <2>4, <3>2, Scripted DEF Unregister, Continue, Threads, native
    <3> QED  BY <2>1, <3>1, <3>3 DEF StoppedRests
  <2>5. CASE Unregister("re") /\ ~ receiver
    BY <2>5, VolatileInv DEF Unregister, Die
  <2> QED  BY <1>9, <2>2, <2>3, <2>4, <2>5
<1>10. CASE Volatile
  BY <1>10, VolatileInv
<1>11. CASE NewProcess \/ UNCHANGED vars
  BY <1>2, <1>11 DEF NewProcess, vars, native
<1> QED
  BY <1>3, <1>4, <1>5, <1>6, <1>7, <1>8, <1>9, <1>10, <1>11, <1>12, Kinds DEF ReStep

(* The thread of baresip is started once: before that there is nothing.    *)
LEMMA OnceKept ==
    ASSUME IInv, [Next]_vars
    PROVE  OnceInv'
<1>1. DOMAIN todo = Threads /\ MainInv /\ OnceInv
  BY DEF IInv, ValuesInv
<1>2. ASSUME BeforeSpawn' => BeforeSpawn, manager' = manager,
             todo'["re"] = todo["re"], UNCHANGED <<opened, told>>
      PROVE  OnceInv'
  BY <1>1, <1>2 DEF OnceInv, Idle
<1>3. CASE Attach \/ Detach
  <2>1. BeforeSpawn' => Attach /\ ~ manager
    BY <1>1, <1>3, EngineMoves
  <2>2. UNCHANGED <<opened, told>> /\ todo'["re"] = todo["re"]
    BY <1>1, <1>3, Scripted DEF Attach, Detach, Start, Threads, native
  <2>3. CASE Attach
    <3>1. manager'
      BY <2>3 DEF Attach
    <3> QED  BY <1>1, <2>1, <2>2, <3>1 DEF OnceInv, Idle
  <2>4. CASE Detach
    <3>1. ~ BeforeSpawn' /\ UNCHANGED manager
      BY <2>1, <2>4 DEF Attach, Detach
    <3> QED  BY <1>1, <2>2, <3>1 DEF OnceInv, Idle
  <2> QED  BY <1>3, <2>3, <2>4
<1>4. CASE MainStep
  <2>1. CASE Spawn
    <3>1. BeforeSpawn
      BY <1>1, <2>1, MainAt DEF Spawn
    <3>0. todo["main"] = <<Op("spawn"), Op("running")>>
      BY <1>1, <2>1, MainAt DEF Spawn
    <3>2. Tail(todo["main"]) = <<Op("running")>>
      BY <3>0, SmallTails
    <3>3. todo'["main"] = <<Op("running")>>
      BY <1>1, <2>1, <3>2 DEF Spawn, Threads
    <3>4. ~ BeforeSpawn' /\ manager' = manager
      BY <2>1, <3>3, OtherScripts DEF BeforeSpawn, Spawn, kotlin
    <3> QED  BY <1>1, <3>1, <3>4 DEF OnceInv
  <2>2. CASE ~ Spawn /\ ~ Volatile
    <3>1. (BeforeSpawn' => BeforeSpawn) /\ manager' = manager
      BY <1>1, <1>4, <2>2, MainMoves
    <3>2. todo'["re"] = todo["re"] /\ UNCHANGED <<opened, told>>
      BY <1>1, <1>4, <2>2, ReStays
    <3> QED  BY <1>2, <3>1, <3>2
  <2> QED  BY <2>1, <2>2, VolatileInv
<1>5. CASE ReStep \/ SignalHandler \/ LoopFails
  <2>1. ~ Idle("re")
    BY <1>5 DEF ReStep, SignalHandler, LoopFails, OpenPart, Started, MqueueHandler, UasExit,
                ClosePart,
                StoppedUpcall, BaresipStop, NotRunning, Unregister, At, Idle
  <2>2. ~ BeforeSpawn /\ manager
    BY <1>1, <2>1 DEF OnceInv
  <2>3. Volatile \/ (todo'["main"] = todo["main"] /\ UNCHANGED <<attached, engine, manager>>)
    BY <1>1, <1>5, MainStays
  <2> QED  BY <2>2, <2>3, VolatileInv DEF OnceInv, BeforeSpawn
<1>6. CASE Volatile
  BY <1>6, VolatileInv
<1>7. CASE NewProcess \/ UNCHANGED vars
  <2>1. UNCHANGED <<todo, manager, opened, told>>
    BY <1>7 DEF NewProcess, vars, native, kotlin
  <2> QED  BY <1>2, <2>1 DEF BeforeSpawn
<1> QED  BY <1>3, <1>4, <1>5, <1>6, <1>7, Kinds

(* The queue holds no more stops than engines detached.                    *)
LEMMA StopsKept ==
    ASSUME IInv, [Next]_vars
    PROVE  StopsInv'
<1>1. /\ DOMAIN todo = Threads /\ MainInv /\ ReInv /\ StopsInv
      /\ attached \in Nat
  <2>1. attached \in 0 .. Attachments
    BY DEF IInv, ValuesInv
  <2>2. attached \in Nat
    BY <2>1, BoundsAssumption
  <2> QED  BY <2>2 DEF IInv, ValuesInv
<1>2. ASSUME stops' \in 0 .. stops, UNCHANGED <<attached, engine>>,
             todo'["main"] = Stopped => todo["main"] = Stopped
      PROVE  StopsInv'
  BY <1>1, <1>2 DEF StopsInv
<1>3. CASE Attach
  <2>1. todo'["main"] # Stopped
    BY <1>1, <1>3, EngineMoves DEF Attach, Detach
  <2>2. engine' /\ attached' = attached + 1 /\ stops' = stops
    BY <1>3 DEF Attach, native
  <2> QED  BY <1>1, <2>1, <2>2 DEF StopsInv
<1>4. CASE Detach
  <2>1. engine /\ ~ engine' /\ attached' = attached /\ stops' = stops
    BY <1>4 DEF Detach, native
  <2> QED  BY <1>1, <2>1 DEF StopsInv
<1>5. CASE BaresipStop("main") /\ ~ Volatile
  <2>1. todo["main"] = Stopped
    BY <1>1, <1>5, MainAt DEF BaresipStop
  <2>2. todo'["main"] # Stopped /\ UNCHANGED <<attached, engine>>
    BY <1>1, <1>5, MainMoves DEF MainStep
  <2>3. stops' = stops \/ stops' = stops + 1
    BY <1>5 DEF BaresipStop
  <2> QED  BY <1>1, <2>1, <2>2, <2>3 DEF StopsInv
<1>6. CASE MainStep /\ ~ Volatile /\ ~ BaresipStop("main")
  <2>1. todo'["main"] # Stopped /\ UNCHANGED <<attached, engine>>
    BY <1>1, <1>6, MainMoves
  <2>2. stops' = stops
    BY <1>6 DEF MainStep, Register, Initialize, Write, Spawn, Running, NotRunning, Unregister,
                Die, native
  <2> QED  BY <1>1, <1>2, <2>1, <2>2 DEF StopsInv
<1>7. CASE (ReStep \/ SignalHandler \/ LoopFails) /\ ~ Volatile
  <2>1. todo'["main"] = todo["main"] /\ UNCHANGED <<attached, engine>>
    BY <1>1, <1>7, MainStays
  <2>2. CASE BaresipStop("re")
    <3>1. opened = {}
      BY <1>1, <2>2, ReAt DEF BaresipStop
    <3>2. stops' = stops
      BY <2>2, <3>1 DEF BaresipStop
    <3> QED  BY <1>1, <1>2, <2>1, <3>2 DEF StopsInv
  <2>3. CASE MqueueHandler
    <3>1. stops > 0 /\ stops' = stops - 1
      BY <2>3 DEF MqueueHandler
    <3>2. stops' \in 0 .. stops
      BY <1>1, <3>1 DEF StopsInv
    <3> QED  BY <1>2, <2>1, <3>2
  <2>4. CASE ClosePart
    <3>1. stops' = 0 \/ stops' = stops
      BY <2>4 DEF ClosePart
    <3>2. stops' \in 0 .. stops
      BY <1>1, <3>1 DEF StopsInv
    <3> QED  BY <1>2, <2>1, <3>2
  <2>5. CASE \/ OpenPart \/ Started \/ UasExit \/ StoppedUpcall \/ NotRunning("re") \/ Unregister("re")
             \/ SignalHandler \/ LoopFails
    <3>1. stops' = stops
      BY <1>7, <2>5 DEF OpenPart, Started, UasExit, StoppedUpcall, NotRunning, Unregister, SignalHandler,
                        LoopFails, Die, native
    <3> QED  BY <1>1, <1>2, <2>1, <3>1 DEF StopsInv
  <2> QED  BY <1>7, <2>2, <2>3, <2>4, <2>5 DEF ReStep
<1>8. CASE Volatile
  BY <1>8, VolatileInv
<1>9. CASE NewProcess \/ UNCHANGED vars
  <2>1. UNCHANGED <<todo, stops, attached, engine>>
    BY <1>9 DEF NewProcess, vars, native, kotlin
  <2> QED  BY <1>1, <2>1 DEF StopsInv
<1> QED  BY <1>3, <1>4, <1>5, <1>6, <1>7, <1>8, <1>9, Kinds

(* The variables keep their types.                                         *)
LEMMA ValuesKept ==
    ASSUME IInv, [Next]_vars
    PROVE  ValuesInv'
<1>1. ValuesInv /\ DOMAIN todo = Threads /\ ReInv
  BY DEF IInv, ValuesInv
<1>2. CASE Volatile /\ UNCHANGED <<given, started>> /\ torn' \in BOOLEAN /\ alive' \in BOOLEAN
  <2>1. DOMAIN todo' = Threads
    BY <1>2 DEF Volatile
  <2>2. 0 \in 0 .. Attachments
    BY BoundsAssumption
  <2> QED  BY <1>1, <1>2, <2>1, <2>2 DEF ValuesInv, Volatile
<1>3. ASSUME NEW t \in Threads, Unregister(t)
      PROVE  ValuesInv'
  <2>1. CASE receiver
    <3>1. DOMAIN todo' = Threads
      BY <1>1, <1>3, <2>1, Scripted DEF Unregister, Continue
    <3> QED  BY <1>1, <1>3, <2>1, <3>1 DEF Unregister, ValuesInv, disk, native
  <2>2. CASE ~ receiver
    <3>1. Volatile /\ UNCHANGED <<given, started, torn>> /\ alive' = FALSE
      BY <1>3, <2>2 DEF Unregister, Die, disk
    <3> QED  BY <1>1, <1>2, <3>1 DEF ValuesInv
  <2> QED  BY <2>1, <2>2
<1>4. ASSUME NEW t \in Threads, BaresipStop(t) \/ NotRunning(t)
      PROVE  ValuesInv'
  <2>1. DOMAIN todo' = Threads
    BY <1>1, <1>4, Scripted DEF BaresipStop, NotRunning, Continue
  <2> QED  BY <1>1, <1>4, <2>1 DEF BaresipStop, NotRunning, ValuesInv, disk, kotlin, native
<1>5. CASE Attach
  <2>1. DOMAIN todo' = Threads
    BY <1>1, <1>5, Scripted DEF Attach, Start, Threads
  <2>2. attached' \in 0 .. Attachments
    <3>1. attached \in 0 .. Attachments /\ attached < Attachments /\ attached' = attached + 1
      BY <1>1, <1>5 DEF Attach, ValuesInv
    <3> QED  BY <3>1, BoundsAssumption
  <2> QED  BY <1>1, <1>5, <2>1, <2>2 DEF Attach, ValuesInv, disk, native
<1>6. CASE Detach
  <2>1. DOMAIN todo' = Threads
    BY <1>1, <1>6, Scripted DEF Detach, Start, Threads
  <2> QED  BY <1>1, <1>6, <2>1 DEF Detach, ValuesInv, disk, native
<1>7. CASE Register \/ Running
  <2>1. DOMAIN todo' = Threads
    BY <1>1, <1>7, Scripted DEF Register, Running, Continue, Threads
  <2> QED  BY <1>1, <1>7, <2>1 DEF Register, Running, ValuesInv, disk, native
<1>8. CASE Initialize \/ Write \/ Spawn
  <2>1. DOMAIN todo' = Threads
    BY <1>1, <1>8 DEF Initialize, Write, Spawn, Continue, Threads
  <2>2. torn' \in BOOLEAN
    BY <1>1, <1>8 DEF Initialize, Write, Spawn, ValuesInv, disk
  <2> QED  BY <1>1, <1>8, <2>1, <2>2 DEF Initialize, Write, Spawn, ValuesInv, disk, kotlin, native
<1>9. CASE OpenPart
  <2>1. DOMAIN todo' = Threads
    BY <1>1, <1>9, Scripted DEF OpenPart, Continue, Goto, Threads
  <2>2. failed' \in PartNames \union {"loop", ""}
    <3>1. PICK i \in 1 .. 9 : Head(todo["re"]) = OpenOp(Parts[i])
      BY <1>1, <1>9, ReAt DEF OpenPart, AtOpen
    <3>2. Head(todo["re"]).part \in PartNames
      BY <3>1, PartsAround DEF OpenOp
    <3> QED  BY <1>1, <1>9, <3>2 DEF OpenPart, ValuesInv
  <2> QED  BY <1>1, <1>9, <2>1, <2>2 DEF OpenPart, ValuesInv, disk, kotlin
<1>10. CASE Started \/ MqueueHandler \/ UasExit \/ ClosePart
  <2>1. DOMAIN todo' = Threads
    BY <1>1, <1>10 DEF Started, MqueueHandler, UasExit, ClosePart, Continue, Goto
  <2> QED  BY <1>1, <1>10, <2>1 DEF Started, MqueueHandler, UasExit, ClosePart, ValuesInv, disk, kotlin, native
<1>11. CASE StoppedUpcall
  <2>1. DOMAIN todo' = Threads
    BY <1>1, <1>11 DEF StoppedUpcall, Continue
  <2>2. told' \in Errors
    <3>1. PICK error \in Errors : Head(todo["re"]) = StoppedOp(error)
      BY <1>1, <1>11, ReAt DEF StoppedUpcall, AtStopped
    <3> QED  BY <1>11, <3>1 DEF StoppedUpcall, StoppedOp
  <2> QED  BY <1>1, <1>11, <2>1, <2>2 DEF StoppedUpcall, ValuesInv, disk, native
<1>12. CASE SignalHandler \/ LoopFails
  <2>1. CASE LoopFails
    <3>1. DOMAIN todo' = Threads
      BY <1>1, <2>1 DEF LoopFails, Goto
    <3> QED  BY <1>1, <2>1, <3>1 DEF LoopFails, ValuesInv, disk, kotlin
  <2>2. CASE SignalHandler /\ ~ term
    BY <1>1, <2>2 DEF SignalHandler, ValuesInv, disk, kotlin
  <2>3. CASE SignalHandler /\ term
    <3>1. Volatile /\ UNCHANGED <<given, started, torn>> /\ alive' = FALSE
      BY <2>3 DEF SignalHandler, Die, disk
    <3> QED  BY <1>1, <1>2, <3>1 DEF ValuesInv
  <2> QED  BY <1>12, <2>1, <2>2, <2>3
<1>13. CASE NewProcess
  <2>1. started' \in 1 .. Processes
    <3>1. started \in 1 .. Processes /\ started < Processes /\ started' = started + 1
      BY <1>1, <1>13 DEF NewProcess, ValuesInv
    <3> QED  BY <3>1, BoundsAssumption
  <2> QED  BY <1>1, <1>13, <2>1 DEF NewProcess, ValuesInv, kotlin, native
<1>14. CASE UNCHANGED vars
  BY <1>1, <1>14 DEF vars, ValuesInv, disk, kotlin, native
<1>15. CASE /\ Volatile /\ UNCHANGED <<given, file, started>>
            /\ torn' = (torn \/ At("main", "write")) /\ alive' = FALSE
  BY <1>1, <1>2, <1>15 DEF ValuesInv
<1> QED
  BY <1>3, <1>4, <1>5, <1>6, <1>7, <1>8, <1>9, <1>10, <1>11, <1>12, <1>13, <1>14, <1>15, Kinds
  DEF MainStep, ReStep, Threads
-----------------------------------------------------------------------------
(* The theorems.                                                           *)

LEMMA Invariance == Spec => []IInv
<1>1. Init => IInv
  <2> SUFFICES ASSUME Init PROVE IInv
    OBVIOUS
  <2>1. /\ todo["main"] = <<>> /\ todo["re"] = <<>> /\ opened = {} /\ stops = 0
        /\ attached = 0 /\ engine = FALSE /\ told = NotBegun
    BY DEF Init, Threads
  <2>2. todo["main"] # Stopped /\ ~ BeforeSpawn
    BY <2>1, SmallTails DEF Stopped, BeforeSpawn, Constructing, Construct
  <2>3. MainInv
    BY <2>1 DEF MainInv, StoppedRests
  <2>4. ReInv
    BY <2>1 DEF ReInv, Over, StoppedRests
  <2>5. OnceInv
    BY <2>1, <2>2 DEF OnceInv, Idle
  <2>6. StopsInv
    BY <2>1, <2>2 DEF StopsInv
  <2>7. 0 \in 0 .. Attachments /\ 1 \in 1 .. Processes
    BY BoundsAssumption
  <2>8. ValuesInv
    BY <2>7 DEF Init, ValuesInv
  <2> QED  BY <2>3, <2>4, <2>5, <2>6, <2>8 DEF IInv
<1>2. IInv /\ [Next]_vars => IInv'
  BY MainKept, ReKept, OnceKept, StopsKept, ValuesKept DEF IInv
<1> QED  BY <1>1, <1>2, PTL DEF Spec

(* The variables keep their types; the queue of the loop holds no more     *)
(* stops than engines detached (baresipStop), whatever the faults.         *)
THEOREM TypeCorrect == Spec => []TypeOK
<1>1. IInv => TypeOK
  <2> SUFFICES ASSUME IInv PROVE TypeOK
    OBVIOUS
  <2>1. ValuesInv /\ ReInv /\ StopsInv
    BY DEF IInv
  <2>2. stops \in 0 .. Attachments
    <3>1. stops \in 0 .. attached /\ attached \in 0 .. Attachments
      BY <2>1 DEF StopsInv, ValuesInv
    <3> QED  BY <3>1, BoundsAssumption
  <2>3. opened \subseteq PartNames
    BY <2>1, ReAt
  <2>4. told \in PartNames \union {"", NotBegun}
    BY <2>1 DEF ValuesInv, Errors
  <2> QED  BY <2>1, <2>2, <2>3, <2>4 DEF ValuesInv, TypeOK
<1> QED  BY <1>1, Invariance, PTL

(* Whatever part fails to open, and however the loop ends, what follows    *)
(* the label out of baresipStart closes all that was opened: by the upcall *)
(* stopped() nothing of baresip is open.                                   *)
THEOREM AllIsClosed == Spec => []NothingLeftOpen
<1>1. IInv => NothingLeftOpen
  BY ReAt DEF IInv, NothingLeftOpen, AtStopped
<1> QED  BY <1>1, Invariance, PTL

(* However engines come and go, getInstance has SipManager constructed     *)
(* once in a process, so that baresipStart is never entered again.         *)
THEOREM BaresipStartsOnce == Spec => []StartsOnce
<1>1. IInv => StartsOnce
  BY MainAt DEF IInv, OnceInv, StartsOnce
<1> QED  BY <1>1, Invariance, PTL
-----------------------------------------------------------------------------
(* Induction, and functions made by it.                                    *)

(* A set of natural numbers has a least one.                               *)
LEMMA LeastNat ==
    ASSUME NEW T, T \subseteq Nat, T # {}
    PROVE  \E x \in T : \A y \in T : x <= y
<1> DEFINE R == {ss \in Nat \X Nat : ss[1] < ss[2]}
<1>1. OpToRel(<, Nat) = R
  BY DEF OpToRel
<1>2. \A x, y \in Nat : <<y, x>> \notin R => x <= y
  OBVIOUS
<1> HIDE DEF R
<1>3. IsWellFoundedOn(R, Nat)
  BY <1>1, NatLessThanWellFounded
<1>4. \E x \in T : \A y \in T : <<y, x>> \notin R
  BY <1>3, WFMin
<1> QED  BY <1>2, <1>4

(* Induction, over a set.                                                  *)
LEMMA Induct ==
    ASSUME NEW S, S \subseteq Nat, 0 \in S, \A n \in S : n + 1 \in S
    PROVE  S = Nat
<1> SUFFICES ASSUME S # Nat  PROVE FALSE
  OBVIOUS
<1>1. PICK x \in Nat \ S : \A y \in Nat \ S : x <= y
  BY LeastNat
<1>2. x # 0 /\ x - 1 \in Nat
  BY <1>1
<1>3. x - 1 \in S
  BY <1>1, <1>2
<1>4. (x - 1) + 1 \in S
  BY <1>3
<1> QED  BY <1>1, <1>2, <1>4

(* A function that is defined from one number to the next is there.        *)
Recursive(n, S, s, F) ==
    \E f \in [0 .. n -> S] : f[0] = s /\ \A i \in 1 .. n : f[i] = F[i][f[i - 1]]

LEMMA Recursion ==
    ASSUME NEW n \in Nat, NEW S, NEW s \in S, NEW F \in [1 .. n -> [S -> S]]
    PROVE  Recursive(n, S, s, F)
<1> DEFINE Upto(k, f) == f[0] = s /\ \A i \in 1 .. k : f[i] = F[i][f[i - 1]]
           T == {k \in Nat : k <= n => \E f \in [0 .. k -> S] : Upto(k, f)}
<1>1. 0 \in T
  <2>1. [i \in 0 .. 0 |-> s] \in [0 .. 0 -> S] /\ Upto(0, [i \in 0 .. 0 |-> s])
    OBVIOUS
  <2> QED  BY <2>1
<1>2. ASSUME NEW k \in T  PROVE k + 1 \in T
  <2> SUFFICES ASSUME k + 1 <= n  PROVE \E f \in [0 .. k + 1 -> S] : Upto(k + 1, f)
    OBVIOUS
  <2>1. PICK f \in [0 .. k -> S] : Upto(k, f)
    OBVIOUS
  <2> DEFINE g == [i \in 0 .. k + 1 |-> IF i = k + 1 THEN F[k + 1][f[k]] ELSE f[i]]
  <2>2. k \in Nat /\ k + 1 \in 1 .. n /\ f[k] \in S /\ F[k + 1][f[k]] \in S
    OBVIOUS
  <2>3. g \in [0 .. k + 1 -> S] /\ g[0] = s
    BY <2>1, <2>2
  <2>4. ASSUME NEW i \in 1 .. k + 1  PROVE g[i] = F[i][g[i - 1]]
    <3>1. CASE i = k + 1
      BY <2>2, <3>1
    <3>2. CASE i # k + 1
      <4>1. i \in 1 .. k /\ i - 1 \in 0 .. k /\ i \in 0 .. k /\ i - 1 # k + 1
        BY <2>2, <3>2
      <4> QED  BY <2>1, <2>2, <3>2, <4>1
    <3> QED  BY <3>1, <3>2
  <2>5. Upto(k + 1, g)
    BY <2>3, <2>4
  <2> QED  BY <2>3, <2>5
<1>3. n \in T
  <2>1. T \subseteq Nat
    OBVIOUS
  <2> HIDE DEF T
  <2> QED  BY <1>1, <1>2, <2>1, Induct
<1> QED  BY <1>3 DEF Recursive

(* What Among takes out of a text, line by line.                           *)
TakenBy(f, list, S) ==
    /\ f[0] = <<>> /\ f[Len(list)] = Among(list, S)
    /\ \A i \in 1 .. Len(list) :
          f[i] = IF list[i] \in S THEN Append(f[i - 1], list[i]) ELSE f[i - 1]

LEMMA AmongSteps ==
    ASSUME NEW D, NEW list \in Seq(D), NEW S
    PROVE  \E f \in [0 .. Len(list) -> Seq(D)] : TakenBy(f, list, S)
<1> DEFINE n == Len(list)
           Taking(x, l) == IF l \in S THEN Append(x, l) ELSE x
           F == [i \in 1 .. n |-> [x \in Seq(D) |-> Taking(x, list[i])]]
           A == CHOOSE f : f = [i \in 0 .. n |->
                    IF i = 0 THEN <<>>
                    ELSE IF list[i] \in S THEN Append(f[i - 1], list[i]) ELSE f[i - 1]]
<1>1. n \in Nat /\ \A i \in 1 .. n : list[i] \in D
  BY LenProperties, ElementOfSeq
<1>2. F \in [1 .. n -> [Seq(D) -> Seq(D)]]
  <2>1. ASSUME NEW x \in Seq(D), NEW l \in D  PROVE Taking(x, l) \in Seq(D)
    BY AppendProperties
  <2> HIDE DEF Taking
  <2> QED  BY <1>1, <2>1
<1>3. PICK f \in [0 .. n -> Seq(D)] : f[0] = <<>> /\ \A i \in 1 .. n : f[i] = F[i][f[i - 1]]
  <2>1. <<>> \in Seq(D)
    OBVIOUS
  <2>2. Recursive(n, Seq(D), <<>>, F)
    <3> HIDE DEF F, n
    <3> QED  BY <1>1, <1>2, <2>1, Recursion
  <2> HIDE DEF F, n
  <2> QED  BY <2>2 DEF Recursive
<1>4. \A i \in 1 .. n : f[i] = IF list[i] \in S THEN Append(f[i - 1], list[i]) ELSE f[i - 1]
  <2>1. \A i \in 1 .. n : i - 1 \in 0 .. n
    BY <1>1
  <2>2. \A i \in 1 .. n : f[i - 1] \in Seq(D)
    <3> HIDE DEF F, n
    <3> QED  BY <1>3, <2>1
  <2>3. \A i \in 1 .. n : F[i][f[i - 1]] = Taking(f[i - 1], list[i])
    BY <2>2
  <2> HIDE DEF F
  <2> QED  BY <1>3, <2>3
<1>5. f = [i \in 0 .. n |-> IF i = 0 THEN <<>>
                            ELSE IF list[i] \in S THEN Append(f[i - 1], list[i]) ELSE f[i - 1]]
  <2>1. \A i \in 0 .. n : i # 0 => i \in 1 .. n
    BY <1>1
  <2> HIDE DEF F
  <2>2. \A i \in 0 .. n : f[i] = IF i = 0 THEN <<>>
                                 ELSE IF list[i] \in S THEN Append(f[i - 1], list[i])
                                 ELSE f[i - 1]
    BY <1>3, <1>4, <2>1
  <2> HIDE DEF n
  <2> QED  BY <1>3, <2>2
<1>6. A = [i \in 0 .. n |-> IF i = 0 THEN <<>>
                            ELSE IF list[i] \in S THEN Append(A[i - 1], list[i]) ELSE A[i - 1]]
  <2> HIDE DEF F, n
  <2> QED  BY <1>5
<1>7. Among(list, S) = A[n]
  BY DEF Among
<1> HIDE DEF A, F
<1> DEFINE T == {i \in Nat : i <= n => A[i] = f[i]}
<1>8. 0 \in T
  BY <1>1, <1>3, <1>6
<1>9. ASSUME NEW i \in T  PROVE i + 1 \in T
  <2> SUFFICES ASSUME i + 1 <= n  PROVE A[i + 1] = f[i + 1]
    OBVIOUS
  <2>1. i + 1 \in 1 .. n /\ i + 1 \in 0 .. n /\ i + 1 # 0 /\ (i + 1) - 1 = i /\ i <= n
    BY <1>1
  <2>2. A[i] = f[i]
    BY <2>1
  <2>3. A[i + 1] = IF list[i + 1] \in S THEN Append(A[i], list[i + 1]) ELSE A[i]
    BY <1>6, <2>1
  <2>4. f[i + 1] = IF list[i + 1] \in S THEN Append(f[i], list[i + 1]) ELSE f[i]
    BY <1>4, <2>1
  <2> QED  BY <2>2, <2>3, <2>4
<1>10. n \in T
  <2>1. T \subseteq Nat
    OBVIOUS
  <2> HIDE DEF T
  <2> QED  BY <1>1, <1>8, <1>9, <2>1, Induct
<1> QED  BY <1>1, <1>3, <1>4, <1>7, <1>10 DEF TakenBy

(* Nothing is taken from an empty text.                                    *)
LEMMA AmongNone ==
    ASSUME NEW S
    PROVE  Among(<<>>, S) = <<>>
<1>1. <<>> \in Seq({}) /\ Len(<<>>) = 0
  OBVIOUS
<1>2. PICK f \in [0 .. Len(<<>>) -> Seq({})] : TakenBy(f, <<>>, S)
  BY <1>1, AmongSteps
<1> QED  BY <1>1, <1>2 DEF TakenBy

(* What is taken from a text is a text.                                    *)
LEMMA AmongTyped ==
    ASSUME NEW D, NEW list \in Seq(D), NEW S
    PROVE  Among(list, S) \in Seq(D)
<1>1. PICK f \in [0 .. Len(list) -> Seq(D)] : TakenBy(f, list, S)
  BY AmongSteps
<1>2. Len(list) \in 0 .. Len(list)
  BY LenProperties
<1> QED  BY <1>1, <1>2 DEF TakenBy

(* Taking from a text and the next line.                                   *)
LEMMA AmongAppend ==
    ASSUME NEW D, NEW list \in Seq(D), NEW l \in D, NEW S, NEW more, more = Append(list, l)
    PROVE  Among(more, S) = IF l \in S THEN Append(Among(list, S), l) ELSE Among(list, S)
<1> DEFINE n == Len(list)
<1>1. n \in Nat /\ more \in Seq(D) /\ Len(more) = n + 1 /\ more[n + 1] = l
      /\ \A i \in 1 .. n : more[i] = list[i]
  BY AppendProperties, LenProperties
<1>2. PICK f \in [0 .. Len(list) -> Seq(D)] : TakenBy(f, list, S)
  BY AmongSteps
<1>3. PICK g \in [0 .. Len(more) -> Seq(D)] : TakenBy(g, more, S)
  BY <1>1, AmongSteps
<1> HIDE DEF n
<1> DEFINE T == {i \in Nat : i <= n => g[i] = f[i]}
<1>4. 0 \in T
  BY <1>2, <1>3 DEF TakenBy
<1>5. ASSUME NEW i \in T  PROVE i + 1 \in T
  <2> SUFFICES ASSUME i + 1 <= n  PROVE g[i + 1] = f[i + 1]
    OBVIOUS
  <2>1. i + 1 \in 1 .. n /\ i + 1 \in 1 .. n + 1 /\ (i + 1) - 1 = i /\ i <= n
    BY <1>1
  <2>2. g[i] = f[i] /\ more[i + 1] = list[i + 1]
    BY <1>1, <2>1
  <2>3. g[i + 1] = IF more[i + 1] \in S THEN Append(g[i], more[i + 1]) ELSE g[i]
    BY <1>1, <1>3, <2>1 DEF TakenBy
  <2>4. f[i + 1] = IF list[i + 1] \in S THEN Append(f[i], list[i + 1]) ELSE f[i]
    BY <1>2, <2>1 DEF TakenBy, n
  <2> QED  BY <2>2, <2>3, <2>4
<1>6. n \in T
  <2>1. T \subseteq Nat
    OBVIOUS
  <2> HIDE DEF T
  <2> QED  BY <1>1, <1>4, <1>5, <2>1, Induct
<1>7. n + 1 \in 1 .. n + 1 /\ (n + 1) - 1 = n /\ n \in 0 .. n
  BY <1>1
<1>8. g[n + 1] = IF l \in S THEN Append(g[n], l) ELSE g[n]
  BY <1>1, <1>3, <1>7 DEF TakenBy
<1>9. f[n] = Among(list, S) /\ g[n + 1] = Among(more, S)
  BY <1>1, <1>2, <1>3, <1>7 DEF TakenBy, n
<1>10. g[n] = f[n]
  BY <1>1, <1>6
<1> QED  BY <1>8, <1>9, <1>10

(* A list that is not empty is another one and its last element.           *)
LEMMA LastOne ==
    ASSUME NEW D, NEW list \in Seq(D), NEW n \in Nat, Len(list) = n + 1
    PROVE  \E front \in Seq(D) : \E l \in D : Len(front) = n /\ list = Append(front, l)
<1> DEFINE front == [i \in 1 .. n |-> list[i]]
<1>1. \A i \in 1 .. n : i \in 1 .. Len(list)
  OBVIOUS
<1>2. list[n + 1] \in D /\ \A i \in 1 .. n : list[i] \in D
  BY <1>1, ElementOfSeq
<1>3. front \in Seq(D) /\ Len(front) = n
  BY <1>2
<1>4. /\ Append(front, list[n + 1]) \in Seq(D) /\ Len(Append(front, list[n + 1])) = n + 1
      /\ Append(front, list[n + 1])[n + 1] = list[n + 1]
      /\ \A i \in 1 .. n : Append(front, list[n + 1])[i] = list[i]
  BY <1>2, <1>3, AppendProperties
<1> HIDE DEF front
<1>5. \A i \in 1 .. n + 1 : Append(front, list[n + 1])[i] = list[i]
  BY <1>4
<1>6. list = Append(front, list[n + 1])
  BY <1>4, <1>5, SeqEqual
<1> QED  BY <1>2, <1>3, <1>6

(* What is taken from two texts in a row.                                  *)
LEMMA AmongConcat ==
    ASSUME NEW D, NEW list \in Seq(D), NEW more \in Seq(D), NEW S
    PROVE  Among(list \o more, S) = Among(list, S) \o Among(more, S)
<1> DEFINE T == {n \in Nat : \A m \in Seq(D) : Len(m) = n =>
                    Among(list \o m, S) = Among(list, S) \o Among(m, S)}
<1>1. Among(list, S) \in Seq(D)
  BY AmongTyped
<1>2. 0 \in T
  <2> SUFFICES ASSUME NEW m \in Seq(D), Len(m) = 0
               PROVE  Among(list \o m, S) = Among(list, S) \o Among(m, S)
    OBVIOUS
  <2>1. m = <<>> /\ list \o <<>> = list /\ Among(list, S) \o <<>> = Among(list, S)
    BY <1>1, EmptySeq, ConcatEmptySeq
  <2> QED  BY <2>1, AmongNone
<1>3. ASSUME NEW n \in T  PROVE n + 1 \in T
  <2> SUFFICES ASSUME NEW m \in Seq(D), Len(m) = n + 1
               PROVE  Among(list \o m, S) = Among(list, S) \o Among(m, S)
    OBVIOUS
  <2>1. PICK front \in Seq(D) : \E l \in D : Len(front) = n /\ m = Append(front, l)
    <3>1. n \in Nat
      OBVIOUS
    <3> HIDE DEF T
    <3> QED  BY <3>1, LastOne
  <2>2. PICK l \in D : Len(front) = n /\ m = Append(front, l)
    BY <2>1
  <2>3. Among(list \o front, S) = Among(list, S) \o Among(front, S)
    BY <2>2
  <2> HIDE DEF T
  <2>4. list \o front \in Seq(D) /\ list \o m = Append(list \o front, l)
    BY <2>2, ConcatProperties
  <2>5. Among(front, S) \in Seq(D)
    BY AmongTyped
  <2>6. Among(list, S) \o Append(Among(front, S), l) = Append(Among(list, S) \o Among(front, S), l)
    BY <1>1, <2>5
  <2>7. Among(list \o m, S) = IF l \in S THEN Append(Among(list \o front, S), l)
                              ELSE Among(list \o front, S)
    <3>1. PICK text \in Seq(D) : text = list \o front
      BY <2>4
    <3>2. list \o m = Append(text, l)
      BY <2>4, <3>1
    <3>3. Among(list \o m, S) = IF l \in S THEN Append(Among(text, S), l) ELSE Among(text, S)
      BY <3>2, AmongAppend, Zenon
    <3> QED  BY <3>1, <3>3
  <2>8. Among(m, S) = IF l \in S THEN Append(Among(front, S), l) ELSE Among(front, S)
    BY <2>2, AmongAppend, Zenon
  <2> QED  BY <2>3, <2>6, <2>7, <2>8
<1>4. Len(more) \in T
  <2>1. T \subseteq Nat /\ Len(more) \in Nat
    BY LenProperties
  <2> HIDE DEF T
  <2> QED  BY <1>2, <1>3, <2>1, Induct
<1> QED  BY <1>4

(* What is taken from texts whose lines are all taken, or none of them.    *)
LEMMA AmongAll ==
    ASSUME NEW D, NEW list \in Seq(D), NEW S, \A i \in 1 .. Len(list) : list[i] \in S
    PROVE  Among(list, S) = list
<1>1. PICK f \in [0 .. Len(list) -> Seq(D)] : TakenBy(f, list, S)
  BY AmongSteps
<1> DEFINE n == Len(list)
           T == {i \in Nat : i <= n => Len(f[i]) = i /\ \A j \in 1 .. i : f[i][j] = list[j]}
<1>2. n \in Nat /\ \A i \in 1 .. n : list[i] \in D
  BY LenProperties, ElementOfSeq
<1>3. 0 \in T
  BY <1>1, EmptySeq DEF TakenBy
<1>4. ASSUME NEW i \in T  PROVE i + 1 \in T
  <2> SUFFICES ASSUME i + 1 <= n
               PROVE  Len(f[i + 1]) = i + 1 /\ \A j \in 1 .. i + 1 : f[i + 1][j] = list[j]
    OBVIOUS
  <2>1. i \in 0 .. n /\ i + 1 \in 1 .. n /\ (i + 1) - 1 = i
    BY <1>2
  <2>2. f[i] \in Seq(D) /\ list[i + 1] \in D /\ list[i + 1] \in S
    BY <1>2, <2>1
  <2>3. f[i + 1] = Append(f[i], list[i + 1])
    BY <1>1, <2>1, <2>2 DEF TakenBy
  <2>4. Len(f[i]) = i /\ \A j \in 1 .. i : f[i][j] = list[j]
    BY <2>1
  <2> HIDE DEF n, T
  <2>5. /\ Len(Append(f[i], list[i + 1])) = i + 1
        /\ Append(f[i], list[i + 1])[i + 1] = list[i + 1]
        /\ \A j \in 1 .. i : Append(f[i], list[i + 1])[j] = f[i][j]
    BY <2>2, <2>4, AppendProperties
  <2> QED  BY <2>1, <2>3, <2>4, <2>5
<1>5. n \in T
  <2>1. T \subseteq Nat
    OBVIOUS
  <2> HIDE DEF T
  <2> QED  BY <1>2, <1>3, <1>4, <2>1, Induct
<1>6. f[n] \in Seq(D) /\ f[n] = Among(list, S)
  BY <1>1, <1>2 DEF TakenBy
<1>7. Len(f[n]) = n /\ \A j \in 1 .. n : f[n][j] = list[j]
  BY <1>2, <1>5
<1> QED  BY <1>6, <1>7, SeqEqual

LEMMA AmongOthers ==
    ASSUME NEW D, NEW list \in Seq(D), NEW S, \A i \in 1 .. Len(list) : list[i] \notin S
    PROVE  Among(list, S) = <<>>
<1>1. PICK f \in [0 .. Len(list) -> Seq(D)] : TakenBy(f, list, S)
  BY AmongSteps
<1> DEFINE n == Len(list)
           T == {i \in Nat : i <= n => f[i] = <<>>}
<1>2. n \in Nat
  BY LenProperties
<1>3. 0 \in T
  BY <1>1 DEF TakenBy
<1>4. ASSUME NEW i \in T  PROVE i + 1 \in T
  <2> SUFFICES ASSUME i + 1 <= n  PROVE f[i + 1] = <<>>
    OBVIOUS
  <2>1. i + 1 \in 1 .. n /\ (i + 1) - 1 = i /\ f[i] = <<>>
    BY <1>2
  <2> QED  BY <1>1, <2>1 DEF TakenBy
<1>5. n \in T
  <2>1. T \subseteq Nat
    OBVIOUS
  <2> HIDE DEF T
  <2> QED  BY <1>2, <1>3, <1>4, <2>1, Induct
<1> QED  BY <1>1, <1>2, <1>5 DEF TakenBy

(* The lines that are taken: those of the text that are in S.              *)
LEMMA AmongElements ==
    ASSUME NEW D, NEW list \in Seq(D), NEW S, NEW x
    PROVE  (\E j \in DOMAIN Among(list, S) : Among(list, S)[j] = x) <=>
           x \in S /\ \E i \in DOMAIN list : list[i] = x
<1>1. PICK f \in [0 .. Len(list) -> Seq(D)] : TakenBy(f, list, S)
  BY AmongSteps
<1> DEFINE n == Len(list)
           Has(s) == \E j \in 1 .. Len(s) : s[j] = x
           Upto(i) == x \in S /\ \E j \in 1 .. i : list[j] = x
           Right(i) == Has(f[i]) <=> Upto(i)
           T == {i \in Nat : i <= n => Right(i)}
<1>2. n \in Nat /\ \A i \in 1 .. n : list[i] \in D
  BY LenProperties, ElementOfSeq
<1>3. 0 \in T
  <2>1. Right(0)
    BY <1>1, EmptySeq DEF TakenBy
  <2> QED  BY <2>1
<1>4. ASSUME NEW i \in T  PROVE i + 1 \in T
  <2> HIDE DEF Right
  <2> SUFFICES ASSUME i + 1 <= n  PROVE Right(i + 1)
    OBVIOUS
  <2>1. i \in 0 .. n /\ i + 1 \in 1 .. n /\ (i + 1) - 1 = i
    BY <1>2
  <2>2. f[i] \in Seq(D) /\ list[i + 1] \in D
    BY <1>2, <2>1
  <2>3. f[i + 1] = IF list[i + 1] \in S THEN Append(f[i], list[i + 1]) ELSE f[i]
    BY <1>1, <2>1 DEF TakenBy
  <2>4. Right(i)
    BY <2>1
  <2> HIDE DEF n, T
  <2> SUFFICES Has(f[i + 1]) <=> Upto(i + 1)
    BY DEF Right
  <2>5. Has(Append(f[i], list[i + 1])) <=> Has(f[i]) \/ list[i + 1] = x
    <3>1. /\ Len(f[i]) \in Nat
          /\ Len(Append(f[i], list[i + 1])) = Len(f[i]) + 1
          /\ Append(f[i], list[i + 1])[Len(f[i]) + 1] = list[i + 1]
          /\ \A j \in 1 .. Len(f[i]) : Append(f[i], list[i + 1])[j] = f[i][j]
      BY <2>2, AppendProperties, LenProperties
    <3>2. \A j \in 1 .. Len(f[i]) + 1 : j \in 1 .. Len(f[i]) \/ j = Len(f[i]) + 1
      BY <3>1
    <3>3. ASSUME NEW j \in 1 .. Len(f[i])  PROVE j \in 1 .. Len(f[i]) + 1
      BY <3>1
    <3>4. Len(f[i]) + 1 \in 1 .. Len(f[i]) + 1
      BY <3>1
    <3> QED  BY <3>1, <3>2, <3>3, <3>4
  <2>6. (\E j \in 1 .. i + 1 : list[j] = x) <=> (\E j \in 1 .. i : list[j] = x) \/ list[i + 1] = x
    BY <2>1
  <2>7. Has(f[i]) <=> Upto(i)
    BY <2>4 DEF Right
  <2> HIDE DEF Has
  <2> QED  BY <2>3, <2>5, <2>6, <2>7
<1>5. n \in T
  <2>1. T \subseteq Nat
    OBVIOUS
  <2> HIDE DEF T
  <2> QED  BY <1>2, <1>3, <1>4, <2>1, Induct
<1>6. f[n] \in Seq(D) /\ f[n] = Among(list, S)
  BY <1>1, <1>2 DEF TakenBy
<1>7. DOMAIN f[n] = 1 .. Len(f[n]) /\ DOMAIN list = 1 .. n
  BY <1>6, LenProperties
<1>8. Has(f[n]) <=> Upto(n)
  BY <1>2, <1>5
<1> QED  BY <1>6, <1>7, <1>8

-----------------------------------------------------------------------------
(* The configuration file.                                                 *)

DefaultKeys ==
    {"log_level", "auto_start", "call_volume", "opus_bitrate", "opus_packet_loss",
     "audio_delay", "tone_country"}

LEMMA WordsAre ==
    /\ "" \in Words /\ "no" \in Words /\ "yes" \in Words /\ "file" \in Words
    /\ "module" \in Words /\ "webrtc_aecm" \in Words
    /\ "dyn_dns" \in Words /\ "dns_server" \in Words
    /\ "sip_cafile" \in Words /\ "ca_bundle" \in Words
BY WordsAssumption

\* The lines that set a variable.
Setting(key) == [key : {key}, value : Words]

LEMMA KeysOfDefaults ==
    /\ DOMAIN Defaults = DefaultKeys /\ DefaultKeys \subseteq Words /\ Optional \subseteq Words
    /\ \A key \in DefaultKeys : Defaults[key] \in Words /\ Defaults[key] # ""
<1>1. DOMAIN Defaults = DefaultKeys
  BY DEF Defaults, DefaultKeys
<1>2. /\ Defaults["log_level"] = "2" /\ Defaults["auto_start"] = "no"
      /\ Defaults["call_volume"] = "0" /\ Defaults["opus_bitrate"] = "28000"
      /\ Defaults["opus_packet_loss"] = "1" /\ Defaults["audio_delay"] = "500"
      /\ Defaults["tone_country"] = "us"
  BY DEF Defaults
<1>3. \A key \in DefaultKeys : Defaults[key] # ""
  BY <1>2 DEF DefaultKeys
<1> QED  BY <1>1, <1>3, WordsAssumption

LEMMA LineIs ==
    ASSUME NEW k \in Words, NEW v \in Words
    PROVE  /\ Line(k, v) \in Lines /\ Line(k, v).key = k /\ Line(k, v).value = v
           /\ <<Line(k, v)>> \in Texts
BY DEF Line, Lines, Texts

LEMMA SettingIs ==
    ASSUME NEW l \in Lines, NEW key
    PROVE  l \in Setting(key) <=> l.key = key
BY DEF Lines, Setting

(* What one line sets.                                                     *)
LEMMA OneLine ==
    ASSUME NEW k \in Words, NEW v \in Words, NEW key
    PROVE  Variables(<<Line(k, v)>>, key) = IF k = key THEN <<Line(k, v)>> ELSE <<>>
<1>1. Line(k, v) \in Lines /\ Line(k, v).key = k
  BY LineIs
<1> DEFINE l == Line(k, v)
<1> HIDE DEF l
<1>2. <<l>> \in Seq(Lines) /\ Len(<<l>>) = 1 /\ <<l>>[1] = l
  BY <1>1 DEF l
<1>3. \A i \in 1 .. Len(<<l>>) : <<l>>[i] = l
  BY <1>2
<1>4. l \in Setting(key) <=> k = key
  BY <1>1, SettingIs DEF l
<1>5. CASE k = key
  <2>1. Among(<<l>>, Setting(key)) = <<l>>
    BY <1>2, <1>3, <1>4, <1>5, AmongAll
  <2> QED  BY <1>5, <2>1 DEF l, Variables, Setting
<1>6. CASE k # key
  <2>1. Among(<<l>>, Setting(key)) = <<>>
    BY <1>2, <1>3, <1>4, <1>6, AmongOthers
  <2> QED  BY <1>6, <2>1 DEF l, Variables, Setting
<1> QED  BY <1>5, <1>6

(* The value of a variable, and the lines that set it.                     *)
LEMMA ValueTyped ==
    ASSUME NEW text \in Texts, NEW key \in Words
    PROVE  /\ Variables(text, key) \in Texts /\ Value(text, key) \in Words
           /\ \A i \in 1 .. Len(Variables(text, key)) :
                 Variables(text, key)[i] \in Lines /\ Variables(text, key)[i].key = key
<1>1. Variables(text, key) \in Seq(Lines)
  BY AmongTyped DEF Texts, Variables
<1>2. ASSUME NEW i \in 1 .. Len(Variables(text, key))
      PROVE  Variables(text, key)[i] \in Lines /\ Variables(text, key)[i].key = key
  <2>1. Variables(text, key)[i] \in Lines /\ i \in DOMAIN Variables(text, key)
    BY <1>1, ElementOfSeq, LenProperties
  <2>2. Variables(text, key)[i] \in Setting(key)
    BY <2>1, AmongElements DEF Texts, Variables, Setting
  <2> QED  BY <2>1, <2>2, SettingIs
<1>3. Variables(text, key) # <<>> => Head(Variables(text, key)) \in Lines
  BY <1>1, HeadTailProperties
<1>4. \A l \in Lines : l.value \in Words
  BY DEF Lines
<1>5. "" \in Words
  BY WordsAssumption
<1>6. Value(text, key) \in Words
  BY <1>3, <1>4, <1>5 DEF Value
<1> QED  BY <1>1, <1>2, <1>6 DEF Texts

LEMMA MandatoryIs ==
    ASSUME NEW text \in Texts, NEW key \in DefaultKeys
    PROVE  \E v \in Words : v # "" /\ Mandatory(text, key) = <<Line(key, v)>>
<1>1. key \in Words /\ Value(text, key) \in Words
  BY KeysOfDefaults, ValueTyped
<1> QED  BY <1>1, KeysOfDefaults DEF Mandatory

LEMMA KeptIs ==
    ASSUME NEW text \in Texts, NEW key \in Optional
    PROVE  Kept(text, key) = <<>> \/ \E v \in Words : Kept(text, key) = <<Line(key, v)>>
<1>1. key \in Words /\ Value(text, key) \in Words
  BY KeysOfDefaults, ValueTyped
<1> QED  BY <1>1 DEF Kept

(* The parts of a text that set other variables, or that is no module.     *)
LEMMA NotSet ==
    ASSUME NEW text \in Texts, NEW key, \A i \in DOMAIN text : text[i].key # key
    PROVE  Variables(text, key) = <<>>
<1>1. DOMAIN text = 1 .. Len(text) /\ \A i \in 1 .. Len(text) : text[i] \in Lines
  BY LenProperties, ElementOfSeq DEF Texts
<1>2. \A i \in 1 .. Len(text) : text[i] \notin Setting(key)
  BY <1>1, SettingIs
<1>3. Among(text, Setting(key)) = <<>>
  BY <1>2, AmongOthers DEF Texts
<1> QED  BY <1>3 DEF Variables, Setting

LEMMA ModuleLinesAre ==
    /\ Listed \in Seq(Words) /\ ModuleLines(Listed) \in Texts
    /\ DOMAIN ModuleLines(Listed) = DOMAIN Listed
    /\ \A i \in DOMAIN Listed : ModuleLines(Listed)[i] = Line("module", Listed[i])
<1>1. EchoCanceller \in Seq(Words)
  <2>1. PICK w \in Words : w = "webrtc_aecm"
    BY WordsAre
  <2>2. <<w>> \in Seq(Words)
    OBVIOUS
  <2> QED  BY <2>1, <2>2 DEF EchoCanceller
<1>2. Listed \in Seq(Words)
  BY <1>1, WordsAssumption, ConcatProperties DEF Listed
<1>3. Len(Listed) \in Nat /\ DOMAIN Listed = 1 .. Len(Listed)
  BY <1>2, LenProperties
<1>4. \A i \in 1 .. Len(Listed) : Listed[i] \in Words
  BY <1>2, ElementOfSeq
<1>5. \A i \in 1 .. Len(Listed) : Line("module", Listed[i]) \in Lines
  BY <1>4, LineIs, WordsAre
<1>6. ModuleLines(Listed) = [i \in 1 .. Len(Listed) |-> Line("module", Listed[i])]
  BY <1>3 DEF ModuleLines
<1>7. ModuleLines(Listed) \in Seq(Lines)
  BY <1>3, <1>5, <1>6, IsASeq
<1> QED  BY <1>2, <1>3, <1>6, <1>7 DEF Texts

\* A text before the variables: it sets none of them.
Plain(text) ==
    \A i \in DOMAIN text :
        text[i].key \notin DOMAIN Defaults \union Optional \union {"dyn_dns", "dns_server"}

LEMMA HeadsArePlain ==
    /\ StaticLines \in Texts /\ Plain(StaticLines)
    /\ FirstLines \in Texts /\ Plain(FirstLines)
<1>1. StaticLines \in Texts /\ Plain(StaticLines)
  BY StaticAssumption DEF Plain
<1>2. "module" \notin DOMAIN Defaults \union Optional \union {"dyn_dns", "dns_server"}
  BY KeysOfDefaults DEF DefaultKeys, Optional
<1>3. ASSUME NEW i \in DOMAIN Listed
      PROVE  ModuleLines(Listed)[i].key = "module"
  <2>1. Listed[i] \in Words
    BY ModuleLinesAre, LenProperties, ElementOfSeq
  <2>2. Line("module", Listed[i]).key = "module"
    BY <2>1, LineIs, WordsAre
  <2> QED  BY <2>2, ModuleLinesAre
<1>4. FirstLines \in Texts
  BY <1>1, ModuleLinesAre, ConcatProperties DEF FirstLines, Texts
<1>5. ASSUME NEW i \in DOMAIN FirstLines
      PROVE  \/ \E j \in DOMAIN StaticLines : FirstLines[i] = StaticLines[j]
             \/ \E j \in DOMAIN Listed : FirstLines[i] = ModuleLines(Listed)[j]
  <2> DEFINE s == StaticLines
             m == ModuleLines(Listed)
  <2>1. s \in Seq(Lines) /\ m \in Seq(Lines)
    BY <1>1, ModuleLinesAre DEF Texts
  <2> HIDE DEF s, m
  <2>2. /\ Len(s) \in Nat /\ Len(m) \in Nat /\ DOMAIN s = 1 .. Len(s) /\ DOMAIN m = 1 .. Len(m)
        /\ s \o m \in Seq(Lines) /\ DOMAIN (s \o m) = 1 .. Len(s) + Len(m)
        /\ \A k \in 1 .. Len(s) + Len(m) :
              (s \o m)[k] = IF k <= Len(s) THEN s[k] ELSE m[k - Len(s)]
    BY <2>1, ConcatProperties, LenProperties
  <2>3. FirstLines = s \o m /\ DOMAIN m = DOMAIN Listed
    BY ModuleLinesAre DEF FirstLines, s, m
  <2>4. i \in 1 .. Len(s) + Len(m)
    BY <2>2, <2>3
  <2>5. CASE i <= Len(s)
    BY <2>2, <2>3, <2>4, <2>5 DEF s
  <2>6. CASE ~ (i <= Len(s))
    <3>1. i - Len(s) \in 1 .. Len(m)
      BY <2>2, <2>4, <2>6
    <3> QED  BY <2>2, <2>3, <2>4, <2>6, <3>1 DEF m
  <2> QED  BY <2>5, <2>6
<1>6. Plain(FirstLines)
  BY <1>1, <1>2, <1>3, <1>5 DEF Plain
<1> QED  BY <1>1, <1>4, <1>6

LEMMA ModulesAre ==
    ASSUME NEW text \in Texts
    PROVE  /\ KeptModules(text) \in Texts
           /\ \A i \in DOMAIN KeptModules(text) : KeptModules(text)[i].key = "module"
           /\ \A j \in DOMAIN Listed :
                 (\E i \in DOMAIN KeptModules(text) :
                     KeptModules(text)[i] = Line("module", Listed[j])) <=>
                 \E i \in DOMAIN text : text[i] = Line("module", Listed[j])
<1> DEFINE S == {text[i] : i \in DOMAIN text}
           ms == ModuleLines(Listed)
<1>1. ms \in Seq(Lines)
  BY ModuleLinesAre DEF Texts
<1>2. KeptModules(text) = Among(ms, S)
  BY DEF KeptModules
<1> HIDE DEF S, ms
<1>3. /\ Among(ms, S) \in Seq(Lines)
      /\ \A x : (\E i \in DOMAIN Among(ms, S) : Among(ms, S)[i] = x) <=>
                x \in S /\ \E i \in DOMAIN ms : ms[i] = x
  <2>1. Among(ms, S) \in Seq(Lines)
    BY <1>1, AmongTyped
  <2>2. ASSUME NEW x
        PROVE  (\E i \in DOMAIN Among(ms, S) : Among(ms, S)[i] = x) <=>
               x \in S /\ \E i \in DOMAIN ms : ms[i] = x
    BY <1>1, AmongElements
  <2> QED  BY <2>1, <2>2
<1>4. ASSUME NEW i \in DOMAIN Among(ms, S)  PROVE Among(ms, S)[i].key = "module"
  <2>1. PICK j \in DOMAIN ms : ms[j] = Among(ms, S)[i]
    BY <1>3
  <2>2. j \in DOMAIN Listed /\ ms[j] = Line("module", Listed[j])
    BY ModuleLinesAre DEF ms
  <2>3. Listed[j] \in Words
    BY <2>2, ModuleLinesAre, LenProperties, ElementOfSeq
  <2>4. Line("module", Listed[j]).key = "module"
    BY <2>3, LineIs, WordsAre
  <2> QED  BY <2>1, <2>2, <2>4
<1>5. ASSUME NEW j \in DOMAIN Listed
      PROVE  (\E i \in DOMAIN Among(ms, S) : Among(ms, S)[i] = Line("module", Listed[j])) <=>
             \E i \in DOMAIN text : text[i] = Line("module", Listed[j])
  <2>1. \E i \in DOMAIN ms : ms[i] = Line("module", Listed[j])
    BY ModuleLinesAre DEF ms
  <2> QED  BY <1>3, <2>1 DEF S
<1> QED  BY <1>2, <1>3, <1>4, <1>5 DEF Texts

(* Variables of two texts in a row.                                        *)
LEMMA Joined ==
    ASSUME NEW text \in Texts, NEW more \in Texts
    PROVE  /\ text \o more \in Texts
           /\ \A S : Among(text \o more, S) = Among(text, S) \o Among(more, S)
           /\ \A key : Variables(text \o more, key) = Variables(text, key) \o Variables(more, key)
<1>1. text \in Seq(Lines) /\ more \in Seq(Lines)
  BY DEF Texts
<1>2. text \o more \in Texts
  BY <1>1, ConcatProperties DEF Texts
<1>3. \A S : Among(text \o more, S) = Among(text, S) \o Among(more, S)
  BY <1>1, AmongConcat
<1>4. \A key : Variables(text \o more, key) = Variables(text, key) \o Variables(more, key)
  BY <1>3 DEF Variables
<1> QED  BY <1>2, <1>3, <1>4

\* What DnsLines writes after its first line.
Servers(text) ==
    IF Value(text, "dyn_dns") = "no" THEN Variables(text, "dns_server")
    ELSE [i \in DOMAIN Dns |-> Line("dns_server", Dns[i])]

Dynamic(text) == IF Value(text, "dyn_dns") = "no" THEN "no" ELSE "yes"

LEMMA ServersAre ==
    ASSUME NEW text \in Texts
    PROVE  /\ Servers(text) \in Texts
           /\ \A i \in DOMAIN Servers(text) : Servers(text)[i].key = "dns_server"
           /\ Dynamic(text) \in Words
           /\ DnsLines(text) = <<Line("dyn_dns", Dynamic(text))>> \o Servers(text)
<1>1. /\ Dynamic(text) \in Words
      /\ DnsLines(text) = <<Line("dyn_dns", Dynamic(text))>> \o Servers(text)
  BY WordsAssumption DEF Dynamic, DnsLines, Servers
<1> DEFINE d == [i \in DOMAIN Dns |-> Line("dns_server", Dns[i])]
<1>2. d \in Texts /\ \A i \in DOMAIN d : d[i].key = "dns_server"
  <2>1. Len(Dns) \in Nat /\ DOMAIN Dns = 1 .. Len(Dns) /\ \A i \in 1 .. Len(Dns) : Dns[i] \in Words
    BY WordsAssumption, LenProperties, ElementOfSeq
  <2>2. \A i \in 1 .. Len(Dns) : /\ Line("dns_server", Dns[i]) \in Lines
                                  /\ Line("dns_server", Dns[i]).key = "dns_server"
    BY <2>1, LineIs, WordsAre
  <2>3. d = [i \in 1 .. Len(Dns) |-> Line("dns_server", Dns[i])]
    BY <2>1
  <2>4. d \in Seq(Lines)
    BY <2>1, <2>2, <2>3, IsASeq
  <2> QED  BY <2>1, <2>2, <2>4 DEF Texts
<1>3. /\ Variables(text, "dns_server") \in Texts
      /\ \A i \in DOMAIN Variables(text, "dns_server") :
            Variables(text, "dns_server")[i].key = "dns_server"
  <2> DEFINE v == Variables(text, "dns_server")
  <2>1. v \in Texts /\ \A i \in 1 .. Len(v) : v[i].key = "dns_server"
    BY ValueTyped, WordsAre
  <2>2. DOMAIN v = 1 .. Len(v)
    BY <2>1, LenProperties DEF Texts
  <2> QED  BY <2>1, <2>2
<1> HIDE DEF d
<1>4. Servers(text) = IF Value(text, "dyn_dns") = "no" THEN Variables(text, "dns_server") ELSE d
  BY DEF Servers, d
<1>5. CASE Value(text, "dyn_dns") = "no"
  BY <1>1, <1>3, <1>4, <1>5
<1>6. CASE Value(text, "dyn_dns") # "no"
  BY <1>1, <1>2, <1>4, <1>6
<1> QED  BY <1>5, <1>6

(* All the lines of a text set one variable.                               *)
LEMMA AllSet ==
    ASSUME NEW text \in Texts, NEW key, \A i \in DOMAIN text : text[i].key = key
    PROVE  Variables(text, key) = text
<1>1. DOMAIN text = 1 .. Len(text) /\ \A i \in 1 .. Len(text) : text[i] \in Lines
  BY LenProperties, ElementOfSeq DEF Texts
<1>2. \A i \in 1 .. Len(text) : text[i] \in Setting(key)
  BY <1>1, SettingIs
<1>3. Among(text, Setting(key)) = text
  BY <1>2, AmongAll DEF Texts
<1> QED  BY <1>3 DEF Variables, Setting

LEMMA DnsLinesAre ==
    ASSUME NEW text \in Texts
    PROVE  /\ DnsLines(text) \in Texts
           /\ \A key : key \notin {"dyn_dns", "dns_server"} => Variables(DnsLines(text), key) = <<>>
           /\ Variables(DnsLines(text), "dyn_dns") = <<Line("dyn_dns", Dynamic(text))>>
           /\ Variables(DnsLines(text), "dns_server") = Servers(text)
<1> DEFINE l == <<Line("dyn_dns", Dynamic(text))>>
           s == Servers(text)
<1>1. l \in Texts /\ s \in Texts /\ DnsLines(text) = l \o s
  BY ServersAre, LineIs, WordsAre
<1>2. \A key : Variables(l, key) = IF key = "dyn_dns" THEN l ELSE <<>>
  <2> SUFFICES ASSUME NEW key  PROVE Variables(l, key) = IF key = "dyn_dns" THEN l ELSE <<>>
    OBVIOUS
  <2>1. "dyn_dns" \in Words /\ Dynamic(text) \in Words
    BY ServersAre, WordsAre
  <2> QED  BY <2>1, OneLine
<1>3. \A key : Variables(s, key) = IF key = "dns_server" THEN s ELSE <<>>
  BY ServersAre, NotSet, AllSet
<1>4. \A x \in Texts : x \o <<>> = x /\ <<>> \o x = x
  BY ConcatEmptySeq DEF Texts
<1>5. <<>> \in Texts
  BY DEF Texts
<1> HIDE DEF l, s
<1>6. \A key : Variables(DnsLines(text), key) = Variables(l, key) \o Variables(s, key)
  BY <1>1, Joined
<1>7. \A key : key \notin {"dyn_dns", "dns_server"} => Variables(DnsLines(text), key) = <<>>
  BY <1>2, <1>3, <1>4, <1>5, <1>6
<1>8. Variables(DnsLines(text), "dyn_dns") = l /\ Variables(DnsLines(text), "dns_server") = s
  <2>1. /\ Variables(l, "dyn_dns") = l /\ Variables(s, "dyn_dns") = <<>>
        /\ Variables(l, "dns_server") = <<>> /\ Variables(s, "dns_server") = s
    BY <1>2, <1>3
  <2> QED  BY <1>1, <1>4, <1>6, <2>1
<1>9. DnsLines(text) \in Texts
  BY <1>1, Joined
<1> QED  BY <1>7, <1>8, <1>9 DEF l, s

(* The parts of what Config.initialize writes.                             *)
Header(old) == IF old = NoFile THEN FirstLines ELSE StaticLines

Previous(old) == IF old = NoFile THEN FirstLines ELSE old

CaFile == <<Line("sip_cafile", "ca_bundle")>>

\* c is the list a with the list b at its end, as far as one of them is empty.
Joins(a, b, c) ==
    (a = <<>> => c = b) /\ (b = <<>> => c = a) /\ (c = <<>> <=> a = <<>> /\ b = <<>>)

LEMMA TakesJoin ==
    ASSUME NEW text \in Texts, NEW more \in Texts
    PROVE  /\ text \o more \in Texts
           /\ \A S : Joins(Among(text, S), Among(more, S), Among(text \o more, S))
<1> SUFFICES ASSUME NEW S
             PROVE  Joins(Among(text, S), Among(more, S), Among(text \o more, S))
  BY Joined
<1>1. PICK a \in Seq(Lines) : a = Among(text, S)
  BY AmongTyped DEF Texts
<1>2. PICK b \in Seq(Lines) : b = Among(more, S)
  BY AmongTyped DEF Texts
<1>3. Among(text \o more, S) = a \o b
  BY <1>1, <1>2, Joined
<1>4. a \o <<>> = a /\ <<>> \o b = b /\ (a \o b = <<>> <=> a = <<>> /\ b = <<>>)
  BY ConcatEmptySeq, ConcatEqualIffEmpty
<1> QED  BY <1>1, <1>2, <1>3, <1>4 DEF Joins

LEMMA PartsAre ==
    ASSUME NEW old \in Texts, NEW p, p = Previous(old)
    PROVE  /\ p \in Texts /\ Header(old) \in Texts /\ Plain(Header(old)) /\ CaFile \in Texts
           /\ DnsLines(p) \in Texts /\ KeptModules(p) \in Texts
           /\ \A key \in DefaultKeys : Mandatory(p, key) \in Texts
           /\ \A key \in Optional : Kept(p, key) \in Texts
<1>1. p \in Texts /\ Header(old) \in Texts /\ Plain(Header(old))
  BY HeadsArePlain DEF Previous, Header
<1>2. CaFile \in Texts
  BY LineIs, WordsAre DEF CaFile
<1>3. DnsLines(p) \in Texts /\ KeptModules(p) \in Texts
  BY <1>1, DnsLinesAre, ModulesAre
<1>4. ASSUME NEW key \in DefaultKeys  PROVE Mandatory(p, key) \in Texts
  <2>1. PICK v \in Words : Mandatory(p, key) = <<Line(key, v)>>
    BY <1>1, MandatoryIs
  <2>2. key \in Words
    BY KeysOfDefaults
  <2>3. <<Line(key, v)>> \in Texts
    BY <2>2, LineIs
  <2> QED  BY <2>1, <2>3
<1>5. ASSUME NEW key \in Optional  PROVE Kept(p, key) \in Texts
  <2>1. <<>> \in Texts
    BY DEF Texts
  <2>2. CASE Kept(p, key) = <<>>
    BY <2>1, <2>2
  <2>3. CASE \E v \in Words : Kept(p, key) = <<Line(key, v)>>
    <3>1. PICK v \in Words : Kept(p, key) = <<Line(key, v)>>
      BY <2>3
    <3>2. key \in Words
      BY KeysOfDefaults
    <3>3. <<Line(key, v)>> \in Texts
      BY <3>2, LineIs
    <3> QED  BY <3>1, <3>3
  <2> QED  BY <1>1, <2>2, <2>3, KeptIs
<1> QED  BY <1>1, <1>2, <1>3, <1>4, <1>5

(* What is taken from the new text is taken from its parts.                *)
LEMMA PartsJoined ==
    ASSUME NEW old \in Texts, NEW p, p = Previous(old)
    PROVE  /\ Rewrite(old) \in Texts
           /\ \A S : \E v1, v2, v3, v4, v5, v6, v7, v8, v9, v10, v11, v12, v13 :
                 /\ Joins(Among(Header(old), S), Among(Mandatory(p, "log_level"), S), v1)
                 /\ Joins(v1, Among(Mandatory(p, "auto_start"), S), v2)
                 /\ Joins(v2, Among(Kept(p, "sip_listen"), S), v3)
                 /\ Joins(v3, Among(Kept(p, "net_af"), S), v4)
                 /\ Joins(v4, Among(Kept(p, "sip_certificate"), S), v5)
                 /\ Joins(v5, Among(Kept(p, "sip_verify_server"), S), v6)
                 /\ Joins(v6, Among(CaFile, S), v7)
                 /\ Joins(v7, Among(DnsLines(p), S), v8)
                 /\ Joins(v8, Among(Mandatory(p, "call_volume"), S), v9)
                 /\ Joins(v9, Among(KeptModules(p), S), v10)
                 /\ Joins(v10, Among(Mandatory(p, "opus_bitrate"), S), v11)
                 /\ Joins(v11, Among(Mandatory(p, "opus_packet_loss"), S), v12)
                 /\ Joins(v12, Among(Mandatory(p, "audio_delay"), S), v13)
                 /\ Joins(v13, Among(Mandatory(p, "tone_country"), S), Among(Rewrite(old), S))
<1> DEFINE m(key) == Mandatory(p, key)
           k(key) == Kept(p, key)
           h == Header(old)
           d == DnsLines(p)
           ms == KeptModules(p)
           t1 == h \o m("log_level")
           t2 == t1 \o m("auto_start")
           t3 == t2 \o k("sip_listen")
           t4 == t3 \o k("net_af")
           t5 == t4 \o k("sip_certificate")
           t6 == t5 \o k("sip_verify_server")
           t7 == t6 \o CaFile
           t8 == t7 \o d
           t9 == t8 \o m("call_volume")
           t10 == t9 \o ms
           t11 == t10 \o m("opus_bitrate")
           t12 == t11 \o m("opus_packet_loss")
           t13 == t12 \o m("audio_delay")
           t14 == t13 \o m("tone_country")
<1>1. /\ h \in Texts /\ CaFile \in Texts /\ d \in Texts /\ ms \in Texts
      /\ m("log_level") \in Texts /\ m("auto_start") \in Texts /\ m("call_volume") \in Texts
      /\ m("opus_bitrate") \in Texts /\ m("opus_packet_loss") \in Texts
      /\ m("audio_delay") \in Texts /\ m("tone_country") \in Texts
      /\ k("sip_listen") \in Texts /\ k("net_af") \in Texts
      /\ k("sip_certificate") \in Texts /\ k("sip_verify_server") \in Texts
  BY PartsAre DEF DefaultKeys, Optional
<1>2. Rewrite(old) = t14
  BY DEF Rewrite, Header, Previous, CaFile
<1> HIDE DEF m, k, h, d, ms, t1, t2, t3, t4, t5, t6, t7, t8, t9, t10, t11, t12, t13, t14
<1>3. t1 \in Texts /\ \A S : Joins(Among(h, S), Among(m("log_level"), S), Among(t1, S))
  BY <1>1, TakesJoin DEF t1
<1>4. t2 \in Texts /\ \A S : Joins(Among(t1, S), Among(m("auto_start"), S), Among(t2, S))
  BY <1>1, <1>3, TakesJoin DEF t2
<1>5. t3 \in Texts /\ \A S : Joins(Among(t2, S), Among(k("sip_listen"), S), Among(t3, S))
  BY <1>1, <1>4, TakesJoin DEF t3
<1>6. t4 \in Texts /\ \A S : Joins(Among(t3, S), Among(k("net_af"), S), Among(t4, S))
  BY <1>1, <1>5, TakesJoin DEF t4
<1>7. t5 \in Texts /\ \A S : Joins(Among(t4, S), Among(k("sip_certificate"), S), Among(t5, S))
  BY <1>1, <1>6, TakesJoin DEF t5
<1>8. t6 \in Texts /\ \A S : Joins(Among(t5, S), Among(k("sip_verify_server"), S), Among(t6, S))
  BY <1>1, <1>7, TakesJoin DEF t6
<1>9. t7 \in Texts /\ \A S : Joins(Among(t6, S), Among(CaFile, S), Among(t7, S))
  BY <1>1, <1>8, TakesJoin DEF t7
<1>10. t8 \in Texts /\ \A S : Joins(Among(t7, S), Among(d, S), Among(t8, S))
  BY <1>1, <1>9, TakesJoin DEF t8
<1>11. t9 \in Texts /\ \A S : Joins(Among(t8, S), Among(m("call_volume"), S), Among(t9, S))
  BY <1>1, <1>10, TakesJoin DEF t9
<1>12. t10 \in Texts /\ \A S : Joins(Among(t9, S), Among(ms, S), Among(t10, S))
  BY <1>1, <1>11, TakesJoin DEF t10
<1>13. t11 \in Texts /\ \A S : Joins(Among(t10, S), Among(m("opus_bitrate"), S), Among(t11, S))
  BY <1>1, <1>12, TakesJoin DEF t11
<1>14. t12 \in Texts /\ \A S : Joins(Among(t11, S), Among(m("opus_packet_loss"), S), Among(t12, S))
  BY <1>1, <1>13, TakesJoin DEF t12
<1>15. t13 \in Texts /\ \A S : Joins(Among(t12, S), Among(m("audio_delay"), S), Among(t13, S))
  BY <1>1, <1>14, TakesJoin DEF t13
<1>16. t14 \in Texts /\ \A S : Joins(Among(t13, S), Among(m("tone_country"), S), Among(t14, S))
  BY <1>1, <1>15, TakesJoin DEF t14
<1>17. ASSUME NEW S
       PROVE  \E v1, v2, v3, v4, v5, v6, v7, v8, v9, v10, v11, v12, v13 :
                 /\ Joins(Among(h, S), Among(m("log_level"), S), v1)
                 /\ Joins(v1, Among(m("auto_start"), S), v2)
                 /\ Joins(v2, Among(k("sip_listen"), S), v3)
                 /\ Joins(v3, Among(k("net_af"), S), v4)
                 /\ Joins(v4, Among(k("sip_certificate"), S), v5)
                 /\ Joins(v5, Among(k("sip_verify_server"), S), v6)
                 /\ Joins(v6, Among(CaFile, S), v7)
                 /\ Joins(v7, Among(d, S), v8)
                 /\ Joins(v8, Among(m("call_volume"), S), v9)
                 /\ Joins(v9, Among(ms, S), v10)
                 /\ Joins(v10, Among(m("opus_bitrate"), S), v11)
                 /\ Joins(v11, Among(m("opus_packet_loss"), S), v12)
                 /\ Joins(v12, Among(m("audio_delay"), S), v13)
                 /\ Joins(v13, Among(m("tone_country"), S), Among(Rewrite(old), S))
  BY <1>2, <1>3, <1>4, <1>5, <1>6, <1>7, <1>8, <1>9, <1>10, <1>11, <1>12, <1>13, <1>14, <1>15,
     <1>16, Zenon
<1> QED  BY <1>2, <1>16, <1>17 DEF m, k, h, d, ms

(* What each part sets of the variables.                                   *)
LEMMA PartsSet ==
    ASSUME NEW old \in Texts, NEW p, p = Previous(old),
           NEW key \in DefaultKeys \union Optional \union {"dyn_dns", "dns_server"}
    PROVE  /\ Variables(Header(old), key) = <<>> /\ Variables(CaFile, key) = <<>>
           /\ Variables(KeptModules(p), key) = <<>>
           /\ \A k \in DefaultKeys :
                 Variables(Mandatory(p, k), key) = IF k = key THEN Mandatory(p, k) ELSE <<>>
           /\ \A k \in Optional :
                 Variables(Kept(p, k), key) = IF k = key THEN Kept(p, k) ELSE <<>>
<1>1. p \in Texts /\ Header(old) \in Texts /\ Plain(Header(old)) /\ KeptModules(p) \in Texts
  BY PartsAre
<1>2. key # "module" /\ key # "sip_cafile" /\ key \in Words
  BY KeysOfDefaults, WordsAre DEF DefaultKeys, Optional
<1>3. Variables(Header(old), key) = <<>>
  BY <1>1, NotSet, KeysOfDefaults DEF Plain
<1>4. Variables(CaFile, key) = <<>>
  <2>1. PICK k \in Words : k = "sip_cafile"
    BY WordsAre
  <2>2. PICK v \in Words : v = "ca_bundle"
    BY WordsAre
  <2>3. Variables(<<Line(k, v)>>, key) = <<>>
    BY <1>2, <2>1, OneLine
  <2> QED  BY <2>1, <2>2, <2>3 DEF CaFile
<1>5. Variables(KeptModules(p), key) = <<>>
  BY <1>1, <1>2, ModulesAre, NotSet
<1>6. ASSUME NEW k \in DefaultKeys
      PROVE  Variables(Mandatory(p, k), key) = IF k = key THEN Mandatory(p, k) ELSE <<>>
  <2>1. PICK v \in Words : Mandatory(p, k) = <<Line(k, v)>>
    BY <1>1, MandatoryIs
  <2>2. k \in Words
    BY KeysOfDefaults
  <2> QED  BY <2>1, <2>2, OneLine
<1>7. ASSUME NEW k \in Optional
      PROVE  Variables(Kept(p, k), key) = IF k = key THEN Kept(p, k) ELSE <<>>
  <2>1. CASE Kept(p, k) = <<>>
    BY <2>1, AmongNone DEF Variables
  <2>2. CASE \E v \in Words : Kept(p, k) = <<Line(k, v)>>
    <3>1. PICK v \in Words : Kept(p, k) = <<Line(k, v)>>
      BY <2>2
    <3>2. k \in Words
      BY KeysOfDefaults
    <3> QED  BY <3>1, <3>2, OneLine
  <2> QED  BY <1>1, <2>1, <2>2, KeptIs
<1> QED  BY <1>3, <1>4, <1>5, <1>6, <1>7

(* What the new text sets each variable to.                                *)
LEMMA RewriteSets ==
    ASSUME NEW old \in Texts, NEW p, p = Previous(old)
    PROVE  /\ \A key \in DefaultKeys : Variables(Rewrite(old), key) = Mandatory(p, key)
           /\ \A key \in Optional : Variables(Rewrite(old), key) = Kept(p, key)
           /\ Variables(Rewrite(old), "dyn_dns") = <<Line("dyn_dns", Dynamic(p))>>
           /\ Variables(Rewrite(old), "dns_server") = Servers(p)
<1> DEFINE Keys == DefaultKeys \union Optional \union {"dyn_dns", "dns_server"}
           Set(key) == IF key \in DefaultKeys THEN Mandatory(p, key)
                       ELSE IF key \in Optional THEN Kept(p, key)
                       ELSE IF key = "dyn_dns" THEN <<Line("dyn_dns", Dynamic(p))>>
                       ELSE Servers(p)
<1>1. ASSUME NEW key \in Keys  PROVE Variables(Rewrite(old), key) = Set(key)
  <2> DEFINE V(text) == Variables(text, key)
  <2>1. PICK v1, v2, v3, v4, v5, v6, v7, v8, v9, v10, v11, v12, v13 :
             /\ Joins(V(Header(old)), V(Mandatory(p, "log_level")), v1)
             /\ Joins(v1, V(Mandatory(p, "auto_start")), v2)
             /\ Joins(v2, V(Kept(p, "sip_listen")), v3)
             /\ Joins(v3, V(Kept(p, "net_af")), v4)
             /\ Joins(v4, V(Kept(p, "sip_certificate")), v5)
             /\ Joins(v5, V(Kept(p, "sip_verify_server")), v6)
             /\ Joins(v6, V(CaFile), v7)
             /\ Joins(v7, V(DnsLines(p)), v8)
             /\ Joins(v8, V(Mandatory(p, "call_volume")), v9)
             /\ Joins(v9, V(KeptModules(p)), v10)
             /\ Joins(v10, V(Mandatory(p, "opus_bitrate")), v11)
             /\ Joins(v11, V(Mandatory(p, "opus_packet_loss")), v12)
             /\ Joins(v12, V(Mandatory(p, "audio_delay")), v13)
             /\ Joins(v13, V(Mandatory(p, "tone_country")), V(Rewrite(old)))
    BY PartsJoined DEF Variables
  <2>2. /\ V(DnsLines(p)) = IF key = "dyn_dns" THEN <<Line("dyn_dns", Dynamic(p))>>
                            ELSE IF key = "dns_server" THEN Servers(p) ELSE <<>>
        /\ V(Header(old)) = <<>> /\ V(CaFile) = <<>> /\ V(KeptModules(p)) = <<>>
    BY PartsAre, DnsLinesAre, PartsSet
  <2>3. \A k \in DefaultKeys : V(Mandatory(p, k)) = IF k = key THEN Mandatory(p, k) ELSE <<>>
    BY PartsSet
  <2>4. \A k \in Optional : V(Kept(p, k)) = IF k = key THEN Kept(p, k) ELSE <<>>
    BY PartsSet
  <2> HIDE DEF V
  <2>5. /\ V(Mandatory(p, "log_level")) = IF key = "log_level" THEN Set(key) ELSE <<>>
        /\ V(Mandatory(p, "auto_start")) = IF key = "auto_start" THEN Set(key) ELSE <<>>
        /\ V(Mandatory(p, "call_volume")) = IF key = "call_volume" THEN Set(key) ELSE <<>>
        /\ V(Mandatory(p, "opus_bitrate")) = IF key = "opus_bitrate" THEN Set(key) ELSE <<>>
        /\ V(Mandatory(p, "opus_packet_loss")) =
               IF key = "opus_packet_loss" THEN Set(key) ELSE <<>>
        /\ V(Mandatory(p, "audio_delay")) = IF key = "audio_delay" THEN Set(key) ELSE <<>>
        /\ V(Mandatory(p, "tone_country")) = IF key = "tone_country" THEN Set(key) ELSE <<>>
    BY <2>3 DEF DefaultKeys
  <2>6. /\ V(Kept(p, "sip_listen")) = IF key = "sip_listen" THEN Set(key) ELSE <<>>
        /\ V(Kept(p, "net_af")) = IF key = "net_af" THEN Set(key) ELSE <<>>
        /\ V(Kept(p, "sip_certificate")) = IF key = "sip_certificate" THEN Set(key) ELSE <<>>
        /\ V(Kept(p, "sip_verify_server")) =
               IF key = "sip_verify_server" THEN Set(key) ELSE <<>>
    BY <2>4 DEF DefaultKeys, Optional
  <2>7. V(DnsLines(p)) = IF key \in {"dyn_dns", "dns_server"} THEN Set(key) ELSE <<>>
    BY <2>2 DEF DefaultKeys, Optional
  <2> HIDE DEF Set
  <2> QED  BY <2>1, <2>2, <2>5, <2>6, <2>7 DEF Joins, Keys, DefaultKeys, Optional, V
<1> QED  BY <1>1 DEF Keys, DefaultKeys, Optional

(* Which modules the new text loads.                                       *)
LEMMA RewriteLoads ==
    ASSUME NEW old \in Texts, NEW p, p = Previous(old), NEW j \in DOMAIN Listed
    PROVE  (\E i \in DOMAIN Rewrite(old) : Rewrite(old)[i] = Line("module", Listed[j])) <=>
           \E i \in DOMAIN p : p[i] = Line("module", Listed[j])
<1> DEFINE l == Line("module", Listed[j])
           In(text) == \E i \in DOMAIN text : text[i] = l
           V(text) == Among(text, {l})
<1>1. l \in Lines /\ l.key = "module"
  <2>1. Listed[j] \in Words
    BY ModuleLinesAre, LenProperties, ElementOfSeq
  <2> QED  BY <2>1, LineIs, WordsAre
<1>2. ASSUME NEW text \in Texts  PROVE V(text) # <<>> <=> In(text)
  <2> DEFINE v == Among(text, {l})
  <2>1. (\E i \in DOMAIN v : v[i] = l) <=> In(text)
    <3>1. PICK S : S = {l}
      OBVIOUS
    <3>2. (\E i \in DOMAIN Among(text, S) : Among(text, S)[i] = l) <=>
          l \in S /\ \E i \in DOMAIN text : text[i] = l
      BY AmongElements DEF Texts
    <3> QED  BY <3>1, <3>2
  <2>2. v \in Seq(Lines)
    BY AmongTyped DEF Texts
  <2>3. v # <<>> => 1 \in DOMAIN v
    BY <2>2, EmptySeq, LenProperties
  <2>4. \A i \in DOMAIN v : v[i] = l
    <3> SUFFICES ASSUME NEW i \in DOMAIN v  PROVE v[i] = l
      OBVIOUS
    <3> DEFINE x == v[i]
    <3>1. \E n \in DOMAIN v : v[n] = x
      OBVIOUS
    <3> HIDE DEF x
    <3>2. x \in {l}
      BY <3>1, AmongElements DEF Texts
    <3> QED  BY <3>2 DEF x
  <2>5. (\E i \in DOMAIN v : v[i] = l) => v # <<>>
    OBVIOUS
  <2> QED  BY <2>1, <2>3, <2>4, <2>5
<1>3. ASSUME NEW text \in Texts, \A i \in DOMAIN text : text[i].key # "module"
      PROVE  V(text) = <<>>
  BY <1>1, <1>2, <1>3
<1>4. /\ p \in Texts /\ Header(old) \in Texts /\ CaFile \in Texts
      /\ DnsLines(p) \in Texts /\ KeptModules(p) \in Texts /\ Rewrite(old) \in Texts
  BY PartsAre, PartsJoined
<1>5. ASSUME NEW k \in Words, NEW v \in Words, k # "module"
      PROVE  V(<<Line(k, v)>>) = <<>>
  <2>1. PICK x : x = Line(k, v)
    OBVIOUS
  <2>2. x \in Lines /\ x.key # "module"
    BY <1>5, <2>1, LineIs
  <2>3. <<x>> \in Texts /\ \A i \in DOMAIN <<x>> : <<x>>[i] = x
    BY <2>2 DEF Texts
  <2>4. V(<<x>>) = <<>>
    BY <1>3, <2>2, <2>3
  <2> QED  BY <2>1, <2>4
<1>6. ASSUME NEW k \in DefaultKeys  PROVE V(Mandatory(p, k)) = <<>>
  <2>1. PICK v \in Words : Mandatory(p, k) = <<Line(k, v)>>
    BY <1>4, MandatoryIs
  <2>2. k \in Words /\ k # "module"
    BY KeysOfDefaults DEF DefaultKeys
  <2> HIDE DEF V
  <2> QED  BY <1>5, <2>1, <2>2
<1>7. ASSUME NEW k \in Optional  PROVE V(Kept(p, k)) = <<>>
  <2>1. CASE Kept(p, k) = <<>>
    BY <2>1, AmongNone
  <2>2. CASE \E v \in Words : Kept(p, k) = <<Line(k, v)>>
    <3>1. PICK v \in Words : Kept(p, k) = <<Line(k, v)>>
      BY <2>2
    <3>2. k \in Words /\ k # "module"
      BY KeysOfDefaults DEF Optional
    <3> HIDE DEF V
    <3> QED  BY <1>5, <3>1, <3>2
  <2> QED  BY <1>4, <2>1, <2>2, KeptIs
<1>8. V(CaFile) = <<>>
  <2>1. PICK k \in Words : k = "sip_cafile"
    BY WordsAre
  <2>2. PICK v \in Words : v = "ca_bundle"
    BY WordsAre
  <2>3. CaFile = <<Line(k, v)>> /\ k # "module"
    BY <2>1, <2>2 DEF CaFile
  <2> HIDE DEF V
  <2> QED  BY <1>5, <2>3
<1>9. V(DnsLines(p)) = <<>>
  <2>1. PICK k \in Words : k = "dyn_dns"
    BY WordsAre
  <2>2. PICK v \in Words : v = Dynamic(p)
    BY <1>4, ServersAre
  <2>3. <<Line(k, v)>> \in Texts /\ Servers(p) \in Texts
    BY <1>4, LineIs, ServersAre
  <2>4. DnsLines(p) = <<Line(k, v)>> \o Servers(p)
    BY <1>4, <2>1, <2>2, ServersAre
  <2>5. V(Servers(p)) = <<>>
    BY <1>3, <1>4, <2>3, ServersAre
  <2>6. Joins(V(<<Line(k, v)>>), V(Servers(p)), V(DnsLines(p)))
    BY <2>3, <2>4, TakesJoin
  <2>7. k # "module"
    BY <2>1
  <2> HIDE DEF V
  <2> QED  BY <1>5, <2>5, <2>6, <2>7 DEF Joins
<1>10. V(Rewrite(old)) = <<>> <=> V(Header(old)) = <<>> /\ V(KeptModules(p)) = <<>>
  <2>1. PICK v1, v2, v3, v4, v5, v6, v7, v8, v9, v10, v11, v12, v13 :
           /\ Joins(V(Header(old)), V(Mandatory(p, "log_level")), v1)
           /\ Joins(v1, V(Mandatory(p, "auto_start")), v2)
           /\ Joins(v2, V(Kept(p, "sip_listen")), v3)
           /\ Joins(v3, V(Kept(p, "net_af")), v4)
           /\ Joins(v4, V(Kept(p, "sip_certificate")), v5)
           /\ Joins(v5, V(Kept(p, "sip_verify_server")), v6)
           /\ Joins(v6, V(CaFile), v7)
           /\ Joins(v7, V(DnsLines(p)), v8)
           /\ Joins(v8, V(Mandatory(p, "call_volume")), v9)
           /\ Joins(v9, V(KeptModules(p)), v10)
           /\ Joins(v10, V(Mandatory(p, "opus_bitrate")), v11)
           /\ Joins(v11, V(Mandatory(p, "opus_packet_loss")), v12)
           /\ Joins(v12, V(Mandatory(p, "audio_delay")), v13)
           /\ Joins(v13, V(Mandatory(p, "tone_country")), V(Rewrite(old)))
    BY PartsJoined
  <2> HIDE DEF V
  <2> QED  BY <1>6, <1>7, <1>8, <1>9, <2>1 DEF Joins, DefaultKeys, Optional
<1>11. V(KeptModules(p)) # <<>> <=> In(p)
  <2>1. In(KeptModules(p)) <=> In(p)
    BY <1>4, ModulesAre
  <2> HIDE DEF V, In
  <2> QED  BY <1>2, <1>4, <2>1
<1>12. V(Header(old)) # <<>> => In(p)
  <2>1. CASE old = NoFile
    <3>1. Header(old) = p
      BY <2>1 DEF Header, Previous
    <3> HIDE DEF V, In
    <3> QED  BY <1>2, <1>4, <3>1
  <2>2. CASE old # NoFile
    <3>1. Header(old) = StaticLines
      BY <2>2 DEF Header
    <3>2. ~ In(StaticLines)
      BY StaticAssumption
    <3> HIDE DEF V, In
    <3> QED  BY <1>2, <1>4, <3>1, <3>2
  <2> QED  BY <2>1, <2>2
<1>13. V(Rewrite(old)) # <<>> <=> In(Rewrite(old))
  BY <1>2, <1>4
<1>14. In(Rewrite(old)) <=> In(p)
  <2> HIDE DEF V, In
  <2> QED  BY <1>10, <1>11, <1>12, <1>13
<1> QED  BY <1>14

(* Config.initialize keeps the settings of whatever file it finds: what    *)
(* they mean in the new text is what they meant in the old one.            *)
THEOREM RewriteKeeps == KeepsSettings(Texts)
<1> SUFFICES ASSUME NEW old \in Texts
             PROVE  /\ Rewrite(old) \in Texts \ {NoFile}
                    /\ Settings(Rewrite(old)) =
                          Settings(IF old = NoFile THEN FirstLines ELSE old)
  BY DEF KeepsSettings
<1>1. PICK p : p = Previous(old)
  OBVIOUS
<1>2. p \in Texts /\ Rewrite(old) \in Texts
  BY <1>1, PartsAre, PartsJoined
<1> DEFINE r == Rewrite(old)
           Var(text, key) == IF Value(text, key) # "" THEN Value(text, key) ELSE Defaults[key]
<1>3. ASSUME NEW k \in Words, NEW v \in Words, NEW text, Variables(text, k) = <<Line(k, v)>>
      PROVE  Value(text, k) = v
  <2>1. PICK x : x = Line(k, v) /\ x.value = v
    BY LineIs
  <2>2. Variables(text, k) = <<x>> /\ <<x>> # <<>> /\ Head(<<x>>) = x
    BY <1>3, <2>1
  <2> QED  BY <2>1, <2>2 DEF Value
<1>4. ASSUME NEW key \in DefaultKeys
      PROVE  Value(r, key) = Var(p, key) /\ Value(r, key) # ""
  <2>1. key \in Words /\ Value(p, key) \in Words /\ Defaults[key] \in Words /\ Defaults[key] # ""
    BY <1>2, KeysOfDefaults, ValueTyped
  <2>2. PICK v \in Words : v = Var(p, key) /\ v # ""
    BY <2>1
  <2>3. Variables(r, key) = <<Line(key, v)>>
    BY <1>1, <2>2, RewriteSets DEF Mandatory
  <2> QED  BY <1>3, <2>1, <2>2, <2>3
<1>5. ASSUME NEW key \in Optional  PROVE Value(r, key) = Value(p, key)
  <2>1. key \in Words /\ Value(p, key) \in Words
    BY <1>2, KeysOfDefaults, ValueTyped
  <2>2. Variables(r, key) = Kept(p, key)
    BY <1>1, RewriteSets
  <2>3. CASE Value(p, key) = ""
    BY <2>2, <2>3 DEF Kept, Value
  <2>4. CASE Value(p, key) # ""
    <3>1. Variables(r, key) = <<Line(key, Value(p, key))>>
      BY <2>2, <2>4 DEF Kept
    <3> QED  BY <1>3, <2>1, <3>1
  <2> QED  BY <2>3, <2>4
<1>6. Value(r, "dyn_dns") = Dynamic(p)
  <2>1. PICK k \in Words : k = "dyn_dns"
    BY WordsAre
  <2>2. Variables(r, k) = <<Line(k, Dynamic(p))>> /\ Dynamic(p) \in Words
    BY <1>1, <1>2, <2>1, RewriteSets, ServersAre
  <2> QED  BY <1>3, <2>1, <2>2
<1>7. Variables(r, "dns_server") = Servers(p)
  BY <1>1, RewriteSets
<1>8. \A j \in DOMAIN Listed :
         (\E i \in DOMAIN r : r[i] = Line("module", Listed[j])) <=>
         \E i \in DOMAIN p : p[i] = Line("module", Listed[j])
  BY <1>1, RewriteLoads
<1> HIDE DEF r
<1>9. Settings(r) = Settings(p)
  <2>1. Settings(r).modules = Settings(p).modules
    BY <1>8 DEF Settings
  <2>2. [key \in DOMAIN Defaults |-> Var(r, key)] = [key \in DOMAIN Defaults |-> Var(p, key)]
    BY <1>4, KeysOfDefaults
  <2>3. [key \in Optional |-> Value(r, key)] = [key \in Optional |-> Value(p, key)]
    BY <1>5
  <2>4. (IF Value(r, "dyn_dns") = "no" THEN Variables(r, "dns_server")
         ELSE <<Line("dns_server", "of the networks")>>) =
        (IF Value(p, "dyn_dns") = "no" THEN Variables(p, "dns_server")
         ELSE <<Line("dns_server", "of the networks")>>)
    BY <1>6, <1>7 DEF Dynamic, Servers
  <2> QED  BY <2>1, <2>2, <2>3, <2>4 DEF Settings
<1>10. r # NoFile
  <2>1. Value(r, "log_level") # ""
    BY <1>4 DEF DefaultKeys
  <2>2. Variables(NoFile, "log_level") = <<>>
    <3>1. PICK k \in Words : k = "no"
      BY WordsAre
    <3>2. PICK v \in Words : v = "file"
      BY WordsAre
    <3>3. NoFile = <<Line(k, v)>> /\ k # "log_level"
      BY <3>1, <3>2 DEF NoFile
    <3> QED  BY <3>3, OneLine
  <2>3. Value(NoFile, "log_level") = ""
    BY <2>2 DEF Value
  <2> QED  BY <2>1, <2>3
<1> QED  BY <1>1, <1>2, <1>9, <1>10 DEF r, Previous
-----------------------------------------------------------------------------
(* The settings of the user.                                               *)

\* The text means what the file of the installation means, or a first start.
Wanted(text) == Settings(text) = IF given = NoFile THEN Settings(FirstLines) ELSE Settings(given)

\* A text that rewriting gave, or gives.
Due(text) == text # NoFile /\ Wanted(text)

(* Where no save was cut short: what the file says, while it is not being  *)
(* written, and what is to be written to it.                               *)
FileInv ==
    ~ torn =>
        /\ At("main", "write") =>
              Head(todo["main"]).text \in Texts /\ Due(Head(todo["main"]).text)
        /\ ~ At("main", "write") =>
              file \in Texts /\ (Due(file) \/ (file = NoFile /\ given = NoFile))
        /\ At("main", "spawn") => Due(file)

(* The installation's file is as it was.                                   *)
LEMMA FileInit ==
    ASSUME Init
    PROVE  FileInv
<1>1. todo["main"] = <<>> /\ file = given /\ given \in Texts
  BY FilesAssumption DEF Init, Threads
<1>2. (file = NoFile /\ given = NoFile) \/ Due(file)
  BY <1>1 DEF Due, Wanted
<1>3. ~ At("main", "write") /\ ~ At("main", "spawn")
  BY <1>1 DEF At
<1> QED  BY <1>1, <1>2, <1>3 DEF FileInv

(* The process never dies of an exception during a save: baresip's thread  *)
(* is not there yet.                                                       *)
LEMMA FileKept ==
    ASSUME IInv, [Next]_vars, FileInv
    PROVE  FileInv'
<1>1. DOMAIN todo = Threads /\ MainInv /\ OnceInv /\ torn \in BOOLEAN
  BY DEF IInv, ValuesInv
<1>2. ASSUME ~ At("main", "write"), ~ At("main", "write")',
             At("main", "spawn")' => At("main", "spawn"), UNCHANGED <<file, given, torn>>
      PROVE  FileInv'
  BY <1>2 DEF FileInv, Due, Wanted
<1>3. ASSUME todo'["main"] = todo["main"], UNCHANGED <<file, given, torn>>
      PROVE  FileInv'
  BY <1>3 DEF FileInv, Due, Wanted, At
<1>4. ASSUME NEW ops, todo'["main"] = ops,
             ops = <<>> \/ Head(ops).op \notin {"write", "spawn"},
             ~ At("main", "write"), UNCHANGED <<file, given, torn>>
      PROVE  FileInv'
  BY <1>2, <1>4 DEF At
<1>5. CASE Attach \/ Detach
  <2>1. todo["main"] = <<>> /\ UNCHANGED <<file, given, torn>>
    BY <1>5 DEF Attach, Detach, Start, Idle, disk
  <2>2. todo'["main"] \in {<<>>, Construct, Stopped}
    BY <1>1, <1>5, <2>1, Scripted DEF Attach, Detach, Start, Threads
  <2>3. Head(Construct).op = "register" /\ Head(Stopped).op = "baresipStop"
    BY SmallTails DEF Construct, Stopped, Op
  <2> QED  BY <1>4, <2>1, <2>2, <2>3 DEF At
<1>6. CASE Register
  <2>1. Tail(todo["main"]) = <<Op("initialize"), Op("spawn"), Op("running")>>
    <3>1. todo["main"] = Construct
      BY <1>1, <1>6, MainAt DEF Register
    <3> QED  BY <3>1, SmallTails DEF Construct
  <2>2. <<>> \o Tail(todo["main"]) = <<Op("initialize"), Op("spawn"), Op("running")>>
    BY <2>1, SmallEmpty
  <2>3. todo'["main"] = <<Op("initialize"), Op("spawn"), Op("running")>>
    BY <1>1, <1>6, <2>2, Scripted DEF Register, Continue, Threads
  <2>4. Head(todo'["main"]).op = "initialize"
    BY <2>3, SmallTails DEF Op
  <2>5. ~ At("main", "write") /\ UNCHANGED <<file, given, torn>>
    BY <1>6 DEF Register, At, disk
  <2> QED  BY <1>4, <2>4, <2>5
<1>7. CASE Initialize
  <2>1. /\ UNCHANGED given
        /\ At("main", "initialize") /\ ~ At("main", "write")
    BY <1>7 DEF Initialize, At
  <2>2. Tail(todo["main"]) = <<Op("spawn"), Op("running")>>
    <3>1. todo["main"] = <<Op("initialize"), Op("spawn"), Op("running")>>
      BY <1>1, <1>7, MainAt DEF Initialize
    <3> QED  BY <3>1, SmallTails
  <2>3. ASSUME NEW text, text = Rewrite(file), Continue("main", <<WriteOp(text)>>), torn' = torn
        PROVE  FileInv'
    <3>1. <<WriteOp(text)>> \o Tail(todo["main"]) = <<WriteOp(text), Op("spawn"), Op("running")>>
      <4>1. \A a, b, c : <<c>> \o <<a, b>> = <<c, a, b>>
        BY SmallEmpty
      <4> QED  BY ONLY <2>2, <4>1
    <3>2. todo'["main"] = <<WriteOp(text), Op("spawn"), Op("running")>>
      BY <1>1, <2>3, <3>1, Scripted DEF Continue, Threads
    <3>3. /\ At("main", "write")' /\ ~ At("main", "spawn")'
          /\ Head(todo'["main"]).text = text
      BY <3>2, SmallTails DEF At, WriteOp
    <3>4. ASSUME ~ torn  PROVE text \in Texts /\ Due(text)
      <4>1. file \in Texts /\ (Due(file) \/ (file = NoFile /\ given = NoFile))
        BY <2>1, <3>4 DEF FileInv
      <4>2. /\ text \in Texts \ {NoFile}
            /\ Settings(text) = Settings(IF file = NoFile THEN FirstLines ELSE file)
        BY <2>3, <4>1, RewriteKeeps DEF KeepsSettings
      <4>3. Wanted(text)
        BY <4>1, <4>2 DEF Due, Wanted
      <4> QED  BY <4>2, <4>3 DEF Due
    <3> QED  BY <2>1, <2>3, <3>3, <3>4 DEF FileInv, Due, Wanted
  <2>4. ASSUME Continue("main", <<>>), torn' = (torn \/ file = NoFile), file' = file
        PROVE  FileInv'
    <3>1. <<>> \o Tail(todo["main"]) = <<Op("spawn"), Op("running")>>
      BY <2>2, SmallEmpty
    <3>2. todo'["main"] = <<Op("spawn"), Op("running")>>
      BY <1>1, <2>4, <3>1, Scripted DEF Continue, Threads
    <3>3. ~ At("main", "write")'
      BY <3>2, SmallTails DEF At, Op
    <3>4. ASSUME ~ torn, file # NoFile  PROVE file \in Texts /\ Due(file)
      BY <2>1, <3>4 DEF FileInv
    <3> QED  BY <2>1, <2>4, <3>3, <3>4 DEF FileInv, Due, Wanted
  <2> PICK text : text = Rewrite(file)
    OBVIOUS
  <2>5. \/ Continue("main", <<WriteOp(text)>>) /\ torn' = torn
        \/ Continue("main", <<>>) /\ torn' = (torn \/ file = NoFile) /\ file' = file
    BY <1>7 DEF Initialize
  <2> QED  BY <2>3, <2>4, <2>5
<1>8. CASE Write
  <2> PICK text : text = Head(todo["main"]).text
    OBVIOUS
  <2>1. /\ UNCHANGED given /\ At("main", "write")
        /\ torn' \/ (file' = text /\ torn' = torn)
    BY <1>8 DEF Write
  <2>2. <<>> \o Tail(todo["main"]) = <<Op("spawn"), Op("running")>>
    <3>1. PICK t : todo["main"] = <<WriteOp(t), Op("spawn"), Op("running")>>
      BY <1>1, <1>8, MainAt DEF Write
    <3> QED  BY <3>1, SmallTails, SmallEmpty
  <2>3. todo'["main"] = <<Op("spawn"), Op("running")>>
    BY <1>1, <1>8, <2>2, Scripted DEF Write, Continue, Threads
  <2>4. ~ At("main", "write")'
    BY <2>3, SmallTails DEF At, Op
  <2>5. ASSUME ~ torn  PROVE text \in Texts /\ Due(text)
    BY <2>1, <2>5 DEF FileInv
  <2>6. CASE torn'
    BY <2>6 DEF FileInv
  <2>7. CASE file' = text /\ torn' = torn
    BY <2>1, <2>4, <2>5, <2>7 DEF FileInv, Due, Wanted
  <2> QED  BY <2>1, <2>6, <2>7
<1>9. CASE Spawn
  <2>0. todo["main"] = <<Op("spawn"), Op("running")>>
    BY <1>1, <1>9, MainAt DEF Spawn
  <2>1. Tail(todo["main"]) = <<Op("running")>>
    BY <2>0, SmallTails
  <2>2. todo'["main"] = <<Op("running")>>
    BY <1>1, <1>9, <2>1 DEF Spawn, Threads
  <2>3. Head(todo'["main"]).op = "running"
    BY <2>2, SmallTails DEF Op
  <2>4. ~ At("main", "write") /\ UNCHANGED <<file, given, torn>>
    BY <1>9 DEF Spawn, At, disk
  <2> QED  BY <1>4, <2>3, <2>4
<1>10. CASE Running \/ BaresipStop("main") \/ NotRunning("main") \/ Unregister("main")
  <2>1. ~ At("main", "write") /\ UNCHANGED <<file, given, torn>>
    BY <1>10 DEF Running, BaresipStop, NotRunning, Unregister, Die, At, disk
  <2>2. ~ BeforeSpawn
    BY <1>1, <1>10, MainAt DEF Running, BaresipStop, NotRunning, Unregister, At
  <2>3. Volatile \/ (MainInv' /\ ~ BeforeSpawn')
    BY <1>1, <1>10, <2>2, MainMoves DEF MainStep
  <2>4. CASE Volatile
    <3>1. todo'["main"] = <<>>
      BY <2>4 DEF Volatile, Threads
    <3> QED  BY <1>4, <2>1, <3>1
  <2>5. CASE MainInv' /\ ~ BeforeSpawn'
    <3>1. todo'["main"] \in {<<Op("running")>>, Stopped} \union StoppedRests
      BY <2>5 DEF MainInv
    <3>2. /\ Head(<<Op("running")>>).op = "running"
          /\ Head(Stopped).op = "baresipStop"
          /\ Head(<<Op("not_running"), Op("unregister")>>).op = "not_running"
          /\ Head(<<Op("unregister")>>).op = "unregister"
      BY SmallTails DEF Stopped, Op
    <3> QED  BY <1>4, <2>1, <3>1, <3>2 DEF StoppedRests
  <2> QED  BY <2>3, <2>4, <2>5
<1>11. CASE ReStep \/ SignalHandler \/ LoopFails
  <2>1. ~ Idle("re")
    BY <1>11 DEF ReStep, SignalHandler, LoopFails, OpenPart, Started, MqueueHandler, UasExit,
                ClosePart,
                 StoppedUpcall, BaresipStop, NotRunning, Unregister, At, Idle
  <2>2. ~ At("main", "write") /\ ~ At("main", "spawn")
    BY <1>1, <2>1, MainAt DEF OnceInv
  <2>3. UNCHANGED <<file, given, torn>>
    BY <1>11 DEF ReStep, SignalHandler, LoopFails, OpenPart, Started, MqueueHandler, UasExit,
                ClosePart,
                 StoppedUpcall, BaresipStop, NotRunning, Unregister, Die, disk
  <2>4. CASE Volatile
    <3>1. todo'["main"] = <<>>
      BY <2>4 DEF Volatile, Threads
    <3> QED  BY <1>4, <2>2, <2>3, <3>1
  <2>5. CASE ~ Volatile
    <3>1. todo'["main"] = todo["main"]
      BY <1>1, <1>11, <2>5, MainStays
    <3> QED  BY <1>3, <2>3, <3>1
  <2> QED  BY <2>4, <2>5
<1>12. CASE /\ Volatile /\ UNCHANGED <<given, file, started>>
            /\ torn' = (torn \/ At("main", "write")) /\ alive' = FALSE
  <2>1. todo'["main"] = <<>>
    BY <1>12 DEF Volatile, Threads
  <2>2. CASE At("main", "write")
    BY <1>12, <2>2 DEF FileInv
  <2>3. CASE ~ At("main", "write") /\ torn
    BY <1>12, <2>3 DEF FileInv
  <2>4. CASE ~ At("main", "write") /\ ~ torn
    <3>1. ~ torn'
      BY <1>12, <2>4
    <3> QED  BY <1>4, <1>12, <2>1, <2>4, <3>1 DEF FileInv, At, Due, Wanted
  <2> QED  BY <2>2, <2>3, <2>4
<1>13. CASE NewProcess \/ UNCHANGED vars
  <2>1. UNCHANGED <<todo, file, given, torn>>
    BY <1>13 DEF NewProcess, vars, disk
  <2> QED  BY <1>3, <2>1
<1> QED
  BY <1>5, <1>6, <1>7, <1>8, <1>9, <1>10, <1>11, <1>12, <1>13, Kinds DEF MainStep

(* What the user's file says, or the defaults, is what baresip is started  *)
(* with in every process, as long as no save is cut short or fails half    *)
(* way: whatever that file is, Config.initialize keeps its settings        *)
(* (RewriteKeeps).                                                         *)
THEOREM ChosenSettingsStay == Spec => []SettingsStay
<1>1. Init => FileInv
  BY FileInit
<1>2. IInv /\ FileInv /\ [Next]_vars => FileInv'
  BY FileKept
<1>3. IInv /\ FileInv => SettingsStay
  BY DEF FileInv, SettingsStay, Due, Wanted
<1> QED  BY <1>1, <1>2, <1>3, Invariance, PTL DEF Spec
=============================================================================
