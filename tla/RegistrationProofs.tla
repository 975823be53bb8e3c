------------------------- MODULE RegistrationProofs -------------------------
(***************************************************************************)
(* Proofs about Registration, for any accounts, network threads, methods   *)
(* and queue bound: what is shown of the registration neither stays at     *)
(* Progress, nor differs from what Dart heard, nor is Ok without reason.   *)
(***************************************************************************)
EXTENDS Registration, ScriptParts, SequenceTheorems, TLAPS

-----------------------------------------------------------------------------
(* What scripts contain.                                                   *)

(* What a script contains after its first operation gave way to ops.       *)
LEMMA HasContinue ==
    ASSUME NEW T, NEW s \in Seq(T), s # <<>>, NEW ops \in Seq(T), NEW S
    PROVE  /\ ops \o Tail(s) \in Seq(T)
           /\ Tail(s) \in Seq(T)
           /\ Head(s) \in T
           /\ Has(ops \o Tail(s), S) <=> Has(ops, S) \/ Has(Tail(s), S)
           /\ Has(s, S) <=> Head(s) \in S \/ Has(Tail(s), S)
<1> DEFINE r == ops \o Tail(s)
<1>1. /\ Head(s) \in T /\ Tail(s) \in Seq(T) /\ Len(Tail(s)) = Len(s) - 1
      /\ \A i \in 1 .. Len(Tail(s)) : Tail(s)[i] = s[i + 1]
  BY HeadTailProperties
<1>2. /\ r \in Seq(T) /\ Len(r) = Len(ops) + Len(Tail(s))
      /\ \A i \in 1 .. Len(ops) + Len(Tail(s)) :
            r[i] = IF i <= Len(ops) THEN ops[i] ELSE Tail(s)[i - Len(ops)]
  BY <1>1, ConcatProperties
<1>3. Len(s) \in Nat \ {0} /\ Len(ops) \in Nat /\ Len(Tail(s)) \in Nat /\ Head(s) = s[1]
  BY <1>1, LenProperties, EmptySeq
<1>4. Has(r, S) <=> Has(ops, S) \/ Has(Tail(s), S)
  <2>1. ASSUME Has(r, S) PROVE Has(ops, S) \/ Has(Tail(s), S)
    <3>1. PICK i \in 1 .. Len(r) : r[i] \in S  BY <2>1 DEF Has
    <3>2. CASE i <= Len(ops)  BY <1>2, <1>3, <3>1, <3>2 DEF Has
    <3>3. CASE ~ i <= Len(ops)
      <4>1. i - Len(ops) \in 1 .. Len(Tail(s))  BY <1>2, <1>3, <3>3
      <4>2. Tail(s)[i - Len(ops)] \in S  BY <1>2, <1>3, <3>1, <3>3
      <4> QED  BY <4>1, <4>2 DEF Has
    <3> QED  BY <3>2, <3>3
  <2>2. ASSUME Has(ops, S) PROVE Has(r, S)
    <3>1. PICK i \in 1 .. Len(ops) : ops[i] \in S  BY <2>2 DEF Has
    <3>2. i \in 1 .. Len(r) /\ r[i] = ops[i]  BY <1>2, <1>3
    <3> QED  BY <3>1, <3>2 DEF Has
  <2>3. ASSUME Has(Tail(s), S) PROVE Has(r, S)
    <3>1. PICK i \in 1 .. Len(Tail(s)) : Tail(s)[i] \in S  BY <2>3 DEF Has
    <3>2. Len(ops) + i \in 1 .. Len(r) /\ r[Len(ops) + i] = Tail(s)[i]  BY <1>2, <1>3
    <3> QED  BY <3>1, <3>2 DEF Has
  <2> QED  BY <2>1, <2>2, <2>3
<1>5. Has(s, S) <=> Head(s) \in S \/ Has(Tail(s), S)
  <2>1. ASSUME Has(s, S), Head(s) \notin S PROVE Has(Tail(s), S)
    <3>1. PICK i \in 1 .. Len(s) : s[i] \in S  BY <2>1 DEF Has
    <3>2. i - 1 \in 1 .. Len(Tail(s)) /\ Tail(s)[i - 1] = s[i]
      BY <1>1, <1>3, <2>1, <3>1
    <3> QED  BY <3>1, <3>2 DEF Has
  <2>2. ASSUME Head(s) \in S PROVE Has(s, S)
    BY <1>3, <2>2 DEF Has
  <2>3. ASSUME Has(Tail(s), S) PROVE Has(s, S)
    <3>1. PICK i \in 1 .. Len(Tail(s)) : Tail(s)[i] \in S  BY <2>3 DEF Has
    <3>2. i + 1 \in 1 .. Len(s) /\ s[i + 1] = Tail(s)[i]  BY <1>1, <1>3
    <3> QED  BY <3>1, <3>2 DEF Has
  <2> QED  BY <2>1, <2>2, <2>3
<1> QED  BY <1>1, <1>2, <1>4, <1>5

(* What small scripts contain.                                             *)
LEMMA HasSmall ==
    ASSUME NEW S
    PROVE  /\ ~ Has(<<>>, S)
           /\ \A a : Has(<<a>>, S) <=> a \in S
           /\ \A a, b : Has(<<a, b>>, S) <=> a \in S \/ b \in S
<1>1. ~ Has(<<>>, S)
  BY DEF Has
<1>2. ASSUME NEW a  PROVE Has(<<a>>, S) <=> a \in S
  BY DEF Has
<1>3. ASSUME NEW a, NEW b  PROVE Has(<<a, b>>, S) <=> a \in S \/ b \in S
  <2>1. Len(<<a, b>>) = 2 /\ <<a, b>>[1] = a /\ <<a, b>>[2] = b
    OBVIOUS
  <2> QED  BY <2>1 DEF Has
<1> QED  BY <1>1, <1>2, <1>3

(* What a concatenation of scripts contains.                               *)
LEMMA HasConcat ==
    ASSUME NEW T, NEW a \in Seq(T), NEW b \in Seq(T), NEW S
    PROVE  Has(a \o b, S) <=> Has(a, S) \/ Has(b, S)
<1>1. /\ Len(a \o b) = Len(a) + Len(b) /\ Len(a) \in Nat /\ Len(b) \in Nat
      /\ \A i \in 1 .. Len(a) + Len(b) :
            (a \o b)[i] = IF i <= Len(a) THEN a[i] ELSE b[i - Len(a)]
  BY ConcatProperties, LenProperties
<1>2. ASSUME Has(a \o b, S) PROVE Has(a, S) \/ Has(b, S)
  <2>1. PICK i \in 1 .. Len(a \o b) : (a \o b)[i] \in S  BY <1>2 DEF Has
  <2>2. CASE i <= Len(a)  BY <1>1, <2>1, <2>2 DEF Has
  <2>3. CASE ~ i <= Len(a)
    <3>1. i - Len(a) \in 1 .. Len(b)  BY <1>1, <2>1, <2>3
    <3>2. b[i - Len(a)] \in S  BY <1>1, <2>1, <2>3
    <3> QED  BY <3>1, <3>2 DEF Has
  <2> QED  BY <2>2, <2>3
<1>3. ASSUME Has(a, S) PROVE Has(a \o b, S)
  <2>1. PICK i \in 1 .. Len(a) : a[i] \in S  BY <1>3 DEF Has
  <2>2. i \in 1 .. Len(a \o b) /\ (a \o b)[i] = a[i]  BY <1>1
  <2> QED  BY <2>1, <2>2 DEF Has
<1>4. ASSUME Has(b, S) PROVE Has(a \o b, S)
  <2>1. PICK i \in 1 .. Len(b) : b[i] \in S  BY <1>4 DEF Has
  <2>2. Len(a) + i \in 1 .. Len(a \o b) /\ (a \o b)[Len(a) + i] = b[i]  BY <1>1
  <2> QED  BY <2>1, <2>2 DEF Has
<1> QED  BY <1>2, <1>3, <1>4

(* When one script is put before another, what follows in each follows in  *)
(* both; the second alone may do for the first.                            *)
LEMMA FollowedConcat ==
    ASSUME NEW T, NEW a \in Seq(T), NEW b \in Seq(T), NEW A, NEW B,
           Followed(b, A, B), Followed(a, A, B) \/ Has(b, B)
    PROVE  Followed(a \o b, A, B)
<1> DEFINE r == a \o b
<1>1. /\ Len(r) = Len(a) + Len(b) /\ Len(a) \in Nat /\ Len(b) \in Nat
      /\ \A i \in 1 .. Len(a) + Len(b) :
            r[i] = IF i <= Len(a) THEN a[i] ELSE b[i - Len(a)]
  BY ConcatProperties, LenProperties
<1> HIDE DEF r
<1> SUFFICES ASSUME NEW i \in 1 .. Len(r), r[i] \in A
             PROVE  \E j \in i + 1 .. Len(r) : r[j] \in B
  BY DEF Followed, r
<1>2. CASE i <= Len(a) /\ Has(b, B)
  <2>1. PICK k \in 1 .. Len(b) : b[k] \in B  BY <1>2 DEF Has
  <2>2. Len(a) + k \in i + 1 .. Len(r) /\ r[Len(a) + k] = b[k]  BY <1>1, <1>2
  <2> QED  BY <2>1, <2>2
<1>3. CASE i <= Len(a) /\ Followed(a, A, B)
  <2>1. i \in 1 .. Len(a) /\ a[i] \in A  BY <1>1, <1>3
  <2>2. PICK k \in i + 1 .. Len(a) : a[k] \in B  BY <1>3, <2>1 DEF Followed
  <2>3. k \in i + 1 .. Len(r) /\ r[k] = a[k]  BY <1>1, <2>2
  <2> QED  BY <2>2, <2>3
<1>4. CASE ~ i <= Len(a)
  <2>1. i - Len(a) \in 1 .. Len(b) /\ b[i - Len(a)] \in A  BY <1>1, <1>4
  <2>2. PICK k \in (i - Len(a)) + 1 .. Len(b) : b[k] \in B  BY <2>1 DEF Followed
  <2>3. Len(a) + k \in i + 1 .. Len(r)  BY <1>1, <1>4, <2>2
  <2>4. ~ (Len(a) + k <= Len(a)) /\ (Len(a) + k) - Len(a) = k  BY <1>1, <1>4, <2>2
  <2>5. r[Len(a) + k] = b[k]  BY <1>1, <1>4, <2>3, <2>4
  <2> QED  BY <2>2, <2>3, <2>5
<1> QED  BY <1>2, <1>3, <1>4

(* What follows in a script follows in the rest of it.                     *)
LEMMA FollowedTail ==
    ASSUME NEW T, NEW s \in Seq(T), s # <<>>, NEW A, NEW B, Followed(s, A, B)
    PROVE  /\ Followed(Tail(s), A, B)
           /\ Head(s) \in A => Has(Tail(s), B)
<1>1. /\ Len(Tail(s)) = Len(s) - 1 /\ Len(s) \in Nat \ {0} /\ Head(s) = s[1]
      /\ \A i \in 1 .. Len(Tail(s)) : Tail(s)[i] = s[i + 1]
  BY HeadTailProperties, LenProperties, EmptySeq
<1>2. ASSUME NEW i \in 1 .. Len(Tail(s)), Tail(s)[i] \in A
      PROVE  \E j \in i + 1 .. Len(Tail(s)) : Tail(s)[j] \in B
  <2>1. i + 1 \in 1 .. Len(s) /\ s[i + 1] \in A  BY <1>1, <1>2
  <2>2. PICK k \in (i + 1) + 1 .. Len(s) : s[k] \in B  BY <2>1 DEF Followed
  <2>3. k - 1 \in i + 1 .. Len(Tail(s)) /\ Tail(s)[k - 1] = s[k]  BY <1>1, <2>2
  <2> QED  BY <2>2, <2>3
<1>3. ASSUME Head(s) \in A  PROVE Has(Tail(s), B)
  <2>1. PICK k \in 1 + 1 .. Len(s) : s[k] \in B  BY <1>1, <1>3 DEF Followed
  <2>2. k - 1 \in 1 .. Len(Tail(s)) /\ Tail(s)[k - 1] = s[k]  BY <1>1, <2>1
  <2> QED  BY <2>1, <2>2 DEF Has
<1> QED  BY <1>2, <1>3 DEF Followed

(* Nothing must follow where there is nothing to be followed; a pair whose *)
(* second operation is of B.                                               *)
LEMMA FollowedSmall ==
    ASSUME NEW A, NEW B
    PROVE  /\ \A s : ~ Has(s, A) => Followed(s, A, B)
           /\ \A a : \A b \in B : b \notin A => Followed(<<a, b>>, A, B)
<1>1. ASSUME NEW s, ~ Has(s, A)  PROVE Followed(s, A, B)
  BY <1>1 DEF Has, Followed
<1>2. ASSUME NEW a, NEW b \in B, b \notin A  PROVE Followed(<<a, b>>, A, B)
  <2>1. Len(<<a, b>>) = 2 /\ <<a, b>>[1] = a /\ <<a, b>>[2] = b
    OBVIOUS
  <2> QED  BY <1>2, <2>1 DEF Followed
<1> QED  BY <1>1, <1>2

(* The last operation stays last when others are put before it.            *)
LEMMA FinalConcat ==
    ASSUME NEW T, NEW a \in Seq(T), NEW b \in Seq(T), NEW A, ~ Has(a, A), Final(b, A)
    PROVE  Final(a \o b, A)
<1> DEFINE r == a \o b
<1>1. /\ Len(r) = Len(a) + Len(b) /\ Len(a) \in Nat /\ Len(b) \in Nat
      /\ \A i \in 1 .. Len(a) + Len(b) :
            r[i] = IF i <= Len(a) THEN a[i] ELSE b[i - Len(a)]
  BY ConcatProperties, LenProperties
<1> HIDE DEF r
<1> SUFFICES ASSUME NEW i \in 1 .. Len(r), r[i] \in A  PROVE i = Len(r)
  BY DEF Final, r
<1>2. ~ i <= Len(a)
  BY <1>1 DEF Has
<1>3. i - Len(a) \in 1 .. Len(b) /\ r[i] = b[i - Len(a)]
  BY <1>1, <1>2
<1>4. i - Len(a) = Len(b)
  BY <1>3 DEF Final
<1> QED  BY <1>1, <1>4

(* An operation that is not there is nowhere before the last; nor is one   *)
(* that is alone, or that is not the first of two.                         *)
LEMMA FinalSmall ==
    ASSUME NEW A
    PROVE  /\ \A s : ~ Has(s, A) => Final(s, A)
           /\ \A o : Final(<<o>>, A)
           /\ \A a, b : a \notin A => Final(<<a, b>>, A)
<1>1. \A s : ~ Has(s, A) => Final(s, A)
  BY DEF Has, Final
<1>2. \A o : Final(<<o>>, A)
  BY DEF Final
<1>3. ASSUME NEW a, NEW b, a \notin A  PROVE Final(<<a, b>>, A)
  <2>1. Len(<<a, b>>) = 2 /\ <<a, b>>[1] = a /\ <<a, b>>[2] = b
    OBVIOUS
  <2> QED  BY <1>3, <2>1 DEF Final
<1> QED  BY <1>1, <1>2, <1>3

(* What becomes of the last operation when a script goes on.               *)
LEMMA FinalContinue ==
    ASSUME NEW T, NEW s \in Seq(T), s # <<>>, NEW A, Final(s, A)
    PROVE  /\ Final(Tail(s), A)
           /\ Head(s) \in A => Tail(s) = <<>>
           /\ \A ops \in Seq(T) : ~ Has(ops, A) => Final(ops \o Tail(s), A)
<1>1. /\ Tail(s) \in Seq(T)
      /\ Len(Tail(s)) = Len(s) - 1 /\ Len(s) \in Nat \ {0} /\ Head(s) = s[1]
      /\ \A i \in 1 .. Len(Tail(s)) : Tail(s)[i] = s[i + 1]
  BY HeadTailProperties, LenProperties, EmptySeq
<1>2. Final(Tail(s), A)
  <2> SUFFICES ASSUME NEW i \in 1 .. Len(Tail(s)), Tail(s)[i] \in A  PROVE i = Len(Tail(s))
    BY DEF Final
  <2>1. i + 1 \in 1 .. Len(s) /\ s[i + 1] \in A  BY <1>1
  <2>2. i + 1 = Len(s)  BY <2>1 DEF Final
  <2>3. Len(Tail(s)) = Len(s) - 1 /\ i \in Int  BY <1>1
  <2> QED  BY <2>2, <2>3
<1>3. Head(s) \in A => Tail(s) = <<>>
  <2> SUFFICES ASSUME Head(s) \in A  PROVE Tail(s) = <<>>
    OBVIOUS
  <2>1. 1 \in 1 .. Len(s) /\ s[1] \in A  BY <1>1
  <2>2. Len(s) = 1  BY <2>1 DEF Final
  <2>3. Len(Tail(s)) = 0  BY <1>1, <2>2
  <2> QED  BY <1>1, <2>3, EmptySeq
<1>4. ASSUME NEW ops \in Seq(T), ~ Has(ops, A)  PROVE Final(ops \o Tail(s), A)
  BY <1>1, <1>2, <1>4, FinalConcat
<1> QED  BY <1>2, <1>3, <1>4

-----------------------------------------------------------------------------
(* Types.                                                                  *)

(* The fields of an operation have the type that its kind calls for.       *)
LEMMA OpFields ==
    ASSUME NEW o \in Ops
    PROVE  /\ o.op = "uaEvent" => o.event \in Events
           /\ o.op \in {"cacheState", "postEvent"} => o.state \in States
           /\ o.op \in {"sendRegister", "sendUnregister", "setUa"} => o.ua \in Uas
           /\ o.op = "resetTransp" => o.next \in Nat
BY DEF Ops

(* A script of up to three operations is a sequence of operations.         *)
LEMMA ShortScripts ==
    /\ \A o \in Ops : <<o>> \in Seq(Ops)
    /\ \A o, p \in Ops : <<o, p>> \in Seq(Ops)
OBVIOUS

(* What handlers push are scripts.                                         *)
LEMMA Scripts ==
    /\ <<>> \in Seq(Ops)
    /\ \A u \in Uas : /\ UaRegister(u) \in Seq(Ops)
                      /\ Unregister(u) \in Seq(Ops)
                      /\ Unregister(u) \o <<[op |-> "ua_alloc"]>> \in Seq(Ops)
                      /\ <<[op |-> "setUa", ua |-> u]>> \in Seq(Ops)
                      /\ \A n \in Nat : UaRegister(u) \o <<[op |-> "resetTransp", next |-> n]>>
                                           \in Seq(Ops)
    /\ \A s \in States : SendAccountEvent(s) \in Seq(Ops)
    /\ \A e \in Events : <<[op |-> "uaEvent", event |-> e]>> \in Seq(Ops)
    /\ \A n \in Nat : <<[op |-> "resetTransp", next |-> n]>> \in Seq(Ops)
    /\ \A k \in {"clearUa", "ua_alloc", "setAudioCodecs", "updateNetwork", "registry"} :
          <<[op |-> k]>> \in Seq(Ops)
    /\ <<[op |-> "updateNetwork"], [op |-> "registry"]>> \in Seq(Ops)
<1>1. \A k \in {"clearUa", "ua_alloc", "setAudioCodecs", "updateNetwork", "registry"} :
         [op |-> k] \in Ops
  BY DEF Ops
<1>2. \A e \in Events : [op |-> "uaEvent", event |-> e] \in Ops
  BY DEF Ops
<1>3. \A s \in States : /\ [op |-> "cacheState", state |-> s] \in Ops
                        /\ [op |-> "postEvent", state |-> s] \in Ops
  BY DEF Ops
<1>4. \A u \in Uas : /\ [op |-> "sendRegister", ua |-> u] \in Ops
                     /\ [op |-> "sendUnregister", ua |-> u] \in Ops
                     /\ [op |-> "setUa", ua |-> u] \in Ops
  BY DEF Ops
<1>5. \A n \in Nat : [op |-> "resetTransp", next |-> n] \in Ops
  BY DEF Ops
<1>6. "registering" \in Events /\ "unregistering" \in Events
  BY DEF Events
<1>7. \A u \in Uas : UaRegister(u) \in Seq(Ops) /\ UaUnregister(u) \in Seq(Ops)
  BY <1>2, <1>4, <1>6, ShortScripts DEF UaRegister, UaUnregister
<1>8. \A u \in Uas : Unregister(u) \in Seq(Ops)
  <2> TAKE u \in Uas
  <2>1. <<[op |-> "clearUa"]>> \in Seq(Ops)  BY <1>1
  <2> QED  BY <1>7, <2>1, ConcatProperties DEF Unregister
<1>9. \A u \in Uas : Unregister(u) \o <<[op |-> "ua_alloc"]>> \in Seq(Ops)
  <2> TAKE u \in Uas
  <2>1. <<[op |-> "ua_alloc"]>> \in Seq(Ops)  BY <1>1
  <2> QED  BY <1>8, <2>1, ConcatProperties
<1>10. \A u \in Uas : \A n \in Nat :
          UaRegister(u) \o <<[op |-> "resetTransp", next |-> n]>> \in Seq(Ops)
  <2> TAKE u \in Uas
  <2> TAKE n \in Nat
  <2>1. <<[op |-> "resetTransp", next |-> n]>> \in Seq(Ops)  BY <1>5
  <2> QED  BY <1>7, <2>1, ConcatProperties
<1>13. \A s \in States : SendAccountEvent(s) \in Seq(Ops)
  BY <1>3, ShortScripts DEF SendAccountEvent
<1>14. /\ \A e \in Events : <<[op |-> "uaEvent", event |-> e]>> \in Seq(Ops)
       /\ \A n \in Nat : <<[op |-> "resetTransp", next |-> n]>> \in Seq(Ops)
       /\ \A u \in Uas : <<[op |-> "setUa", ua |-> u]>> \in Seq(Ops)
  BY <1>2, <1>4, <1>5, ShortScripts
<1>15. \A k \in {"clearUa", "ua_alloc", "setAudioCodecs", "updateNetwork", "registry"} :
          <<[op |-> k]>> \in Seq(Ops)
  BY <1>1, ShortScripts
<1>16. <<[op |-> "updateNetwork"], [op |-> "registry"]>> \in Seq(Ops)
  BY <1>1, ShortScripts
<1>17. <<>> \in Seq(Ops)
  OBVIOUS
<1> QED  BY <1>7, <1>8, <1>9, <1>10, <1>13, <1>14, <1>15, <1>16, <1>17

(* A step of a thread keeps the scripts scripts.                           *)
LEMMA ContinueType ==
    ASSUME NEW t \in Threads, todo \in [Threads -> Seq(Ops)], todo[t] # <<>>,
           NEW ops \in Seq(Ops), Continue(t, ops)
    PROVE  /\ todo' \in [Threads -> Seq(Ops)]
           /\ Head(todo[t]) \in Ops
<1>1. ops \o Tail(todo[t]) \in Seq(Ops) /\ Head(todo[t]) \in Ops
  BY HasContinue
<1> QED  BY <1>1 DEF Continue

(* Entering a handler keeps the scripts scripts.                           *)
LEMMA StartType ==
    ASSUME NEW t \in Threads, todo \in [Threads -> Seq(Ops)],
           NEW ops \in Seq(Ops), Start(t, ops)
    PROVE  todo' \in [Threads -> Seq(Ops)]
BY DEF Start

(* The platform thread and the baresip thread are threads.                 *)
LEMMA ThreadNames == "main" \in Threads /\ "re" \in Threads /\ NetThreads \subseteq Threads
BY DEF Threads

(* Calling a handler preserves the types.                                  *)
LEMMA HandlerType ==
    ASSUME TypeOK,
           \/ InitSipModule \/ RefreshSipAccount \/ UnregisterSipAccount
           \/ HotSpotDisabled \/ Detach \/ Deliver
           \/ \E t \in NetThreads : NetworkCallback(t) \/ HotSpotTimer(t)
           \/ \E tr \in Transactions : Answer(tr)
           \/ \E u \in Uas : PeriodicRefresh(u)
    PROVE  TypeOK'
<1> USE DEF TypeOK, kotlin, registrar, app
<1>1. CASE InitSipModule
  BY <1>1, StartType, Scripts, ThreadNames DEF InitSipModule
<1>2. CASE RefreshSipAccount
  BY <1>2, StartType, Scripts, ThreadNames DEF RefreshSipAccount
<1>3. CASE UnregisterSipAccount
  BY <1>3, StartType, Scripts, ThreadNames DEF UnregisterSipAccount
<1>4. CASE HotSpotDisabled
  BY <1>4, StartType, Scripts, ThreadNames DEF HotSpotDisabled
<1>5. CASE Detach
  BY <1>5 DEF Detach
<1>6. CASE Deliver
  <2>1. Head(looper) \in States /\ Tail(looper) \in Seq(States)
    BY <1>6, HeadTailProperties DEF Deliver
  <2> QED  BY <1>6, <2>1 DEF Deliver
<1>7. ASSUME NEW t \in NetThreads, NetworkCallback(t) \/ HotSpotTimer(t)
      PROVE  TypeOK'
  BY <1>7, StartType, Scripts, ThreadNames DEF NetworkCallback, HotSpotTimer
<1>8. ASSUME NEW tr \in Transactions, Answer(tr)
      PROVE  TypeOK'
  <2>1. PICK ok \in BOOLEAN :
           /\ outcome' = [outcome EXCEPT ![tr.ua] =
                             CASE tr.kind # wanted[tr.ua] -> @
                               [] ok -> "ok"
                               [] OTHER -> "failed"]
           /\ Start("re", <<[op |-> "uaEvent",
                             event |-> IF ok THEN "registered"
                                             ELSE "registering failed"]>>)
    BY <1>8 DEF Answer
  <2>2. (IF ok THEN "registered" ELSE "registering failed") \in Events
    BY DEF Events
  <2>3. todo' \in [Threads -> Seq(Ops)]
    BY <2>1, <2>2, StartType, Scripts, ThreadNames
  <2>4. tr.ua \in Uas
    BY DEF Transactions
  <2>5. outcome' \in [Uas -> {"none", "ok", "failed"}]
    BY <2>1, <2>4
  <2> QED  BY <1>8, <2>3, <2>5 DEF Answer
<1>9. ASSUME NEW u \in Uas, PeriodicRefresh(u)
      PROVE  TypeOK'
  <2>1. [ua |-> u, kind |-> "register"] \in Transactions
    BY DEF Transactions
  <2> QED  BY <1>9, <2>1 DEF PeriodicRefresh
<1> QED  BY <1>1, <1>2, <1>3, <1>4, <1>5, <1>6, <1>7, <1>8, <1>9

(* A step of a thread preserves the types.                                 *)
LEMMA StepType ==
    ASSUME TypeOK, NEW t \in Threads, Step(t)
    PROVE  TypeOK'
<1> USE DEF TypeOK, kotlin, registrar, app
<1>1. todo[t] # <<>>
  BY DEF Step, At, UaEvent, CacheState, PostEvent, SendRegister, SendUnregister,
         ClearUa, UaAlloc, SetUa, SetAudioCodecs, UpdateNetwork, ResetTransp, Registry
<1>2. Head(todo[t]) \in Ops
  BY <1>1, HeadTailProperties
<1>3. CASE UaEvent(t)
  <2>1. Head(todo[t]).event \in Events
    BY <1>2, <1>3, OpFields DEF UaEvent, At
  <2>2. ReportedState(Head(todo[t]).event) \in States
    BY <2>1 DEF ReportedState, Events, States
  <2>3. todo' \in [Threads -> Seq(Ops)]
    BY <1>1, <1>3, <2>2, Scripts, ContinueType DEF UaEvent
  <2> QED  BY <1>3, <2>3 DEF UaEvent
<1>4. CASE CacheState(t)
  BY <1>1, <1>2, <1>4, OpFields, Scripts, ContinueType DEF CacheState, At
<1>5. CASE PostEvent(t)
  BY <1>1, <1>2, <1>5, OpFields, Scripts, ContinueType, AppendProperties DEF PostEvent, At
<1>6. CASE SendRegister(t)
  <2>1. Head(todo[t]).ua \in Uas
    BY <1>2, <1>6, OpFields DEF SendRegister, At
  <2>2. [ua |-> Head(todo[t]).ua, kind |-> "register"] \in Transactions
    BY <2>1 DEF Transactions
  <2>3. "registering failed" \in Events
    BY DEF Events
  <2>4. todo' \in [Threads -> Seq(Ops)]
    BY <1>1, <1>6, <2>3, Scripts, ContinueType DEF SendRegister
  <2> QED  BY <1>6, <2>1, <2>2, <2>4 DEF SendRegister
<1>7. CASE SendUnregister(t)
  <2>1. Head(todo[t]).ua \in Uas
    BY <1>2, <1>7, OpFields DEF SendUnregister, At
  <2>2. [ua |-> Head(todo[t]).ua, kind |-> "unregister"] \in Transactions
    BY <2>1 DEF Transactions
  <2>3. todo' \in [Threads -> Seq(Ops)]
    BY <1>1, <1>7, Scripts, ContinueType DEF SendUnregister
  <2> QED  BY <1>7, <2>1, <2>2, <2>3 DEF SendUnregister
<1>8. CASE ClearUa(t)
  BY <1>1, <1>8, Scripts, ContinueType DEF ClearUa
<1>9. CASE UaAlloc(t)
  <2>1. CASE /\ Continue(t, <<>>)
             /\ UNCHANGED uag
    BY <1>1, <1>9, <2>1, Scripts, ContinueType DEF UaAlloc
  <2>2. ASSUME NEW u \in Uas, uag' = Append(uag, u),
               Continue(t, <<[op |-> "setUa", ua |-> u]>>)
        PROVE  TypeOK'
    <3>1. uag' \in Seq(Uas)
      BY <2>2, AppendProperties
    <3>2. todo' \in [Threads -> Seq(Ops)]
      BY <1>1, <2>2, Scripts, ContinueType
    <3> QED  BY <1>9, <3>1, <3>2 DEF UaAlloc
  <2> QED  BY <1>9, <2>1, <2>2 DEF UaAlloc
<1>10. CASE SetUa(t)
  BY <1>1, <1>2, <1>10, OpFields, Scripts, ContinueType DEF SetUa, At
<1>11. CASE SetAudioCodecs(t)
  BY <1>1, <1>11, Scripts, ContinueType DEF SetAudioCodecs
<1>12. CASE UpdateNetwork(t)
  <2>1. <<[op |-> "resetTransp", next |-> 1]>> \in Seq(Ops)
    BY Scripts
  <2> QED  BY <1>1, <1>12, <2>1, Scripts, ContinueType DEF UpdateNetwork
<1>13. CASE ResetTransp(t)
  <2> DEFINE i == Head(todo[t]).next
  <2>1. i \in Nat
    BY <1>2, <1>13, OpFields DEF ResetTransp, At
  <2>2. CASE i \in 1 .. Len(uag)
    <3>1. uag[i] \in Uas
      BY <2>2, ElementOfSeq
    <3>2. UaRegister(uag[i]) \o <<[op |-> "resetTransp", next |-> i + 1]>> \in Seq(Ops)
      <4>1. i + 1 \in Nat  BY <2>1
      <4> HIDE DEF i
      <4> QED  BY <3>1, <4>1, Scripts
    <3>3. Continue(t, UaRegister(uag[i]) \o <<[op |-> "resetTransp", next |-> i + 1]>>)
      BY <1>13, <2>2 DEF ResetTransp
    <3> HIDE DEF i
    <3>4. todo' \in [Threads -> Seq(Ops)]
      <4> DEFINE ops == UaRegister(uag[i]) \o <<[op |-> "resetTransp", next |-> i + 1]>>
      <4>1. ops \in Seq(Ops) /\ Continue(t, ops)
        BY <3>2, <3>3
      <4> HIDE DEF ops
      <4> QED  BY <1>1, <4>1, ContinueType
    <3> QED  BY <1>13, <3>4 DEF ResetTransp
  <2>3. CASE i \notin 1 .. Len(uag)
    BY <1>1, <1>13, <2>3, Scripts, ContinueType DEF ResetTransp
  <2> QED  BY <2>2, <2>3
<1>14. CASE Registry(t)
  <2>1. CASE ua # NoUa
    BY <1>1, <1>14, <2>1, Scripts, ContinueType DEF Registry
  <2>2. CASE ua = NoUa
    BY <1>1, <1>14, <2>2, Scripts, ContinueType DEF Registry
  <2> QED  BY <2>1, <2>2
<1> QED  BY <1>3, <1>4, <1>5, <1>6, <1>7, <1>8, <1>9, <1>10, <1>11, <1>12, <1>13, <1>14
         DEF Step

(* The model keeps its types: every state that a thread writes, posts or   *)
(* hands to Dart is a RegisterSipState, every script consists of calls     *)
(* that the code makes.                                                    *)
THEOREM TypeCorrect == Spec => []TypeOK
<1>1. Init => TypeOK
  BY Scripts DEF Init, TypeOK, States
<1>2. TypeOK /\ [Next]_vars => TypeOK'
  <2> SUFFICES ASSUME TypeOK, [Next]_vars  PROVE TypeOK'
    OBVIOUS
  <2>1. CASE Next  BY <2>1, HandlerType, StepType DEF Next
  <2>2. CASE UNCHANGED vars
    BY <2>2 DEF TypeOK, vars, kotlin, registrar, app
  <2> QED  BY <2>1, <2>2
<1> QED  BY <1>1, <1>2, PTL DEF Spec

-----------------------------------------------------------------------------
(* No stuck Progress.                                                      *)

\* Operations that lead to Progress being cached.
Raising ==
    {o \in Ops : \/ o.op = "uaEvent" /\ o.event \in {"registering", "unregistering"}
                 \/ o.op = "cacheState" /\ o.state = "Progress"}

\* Operations that send a transaction.
Sending == {o \in Ops : o.op \in {"sendRegister", "sendUnregister"}}

\* Operations that lead to Progress being replaced.
Settling ==
    Sending \union
    {o \in Ops : \/ o.op = "uaEvent" /\ o.event \in {"registered", "registering failed"}
                 \/ o.op = "cacheState" /\ o.state # "Progress"}

\* Operations that only the platform thread performs.
MainOps ==
    {o \in Ops : o.op \in {"clearUa", "ua_alloc", "setUa", "setAudioCodecs",
                           "registry", "sendUnregister"}}

\* Operations that unregister a UA that never sent anything.
Futile == {o \in Ops : o.op = "sendUnregister" /\ wanted[o.ua] = "none"}

\* Operations by which the UA now in use comes to send its REGISTER.
Registering ==
    {o \in Ops : \/ o.op \in {"setAudioCodecs", "registry"}
                 \/ o.op = "sendRegister" /\ o.ua = ua}

(* In a script, a sending follows whatever raises Progress.                *)
Covered(s) == Followed(s, Raising, Sending)

(* Why Progress is never stuck: as long as it is cached, a transaction is  *)
(* to be answered, or some script still sends one or replaces Progress.    *)
(* A sending would be in vain for a UA that never registered; no script    *)
(* unregisters one, because a UA in use has sent its REGISTER, or the      *)
(* platform thread is still on the way to it.                              *)
NoStuckInv ==
    /\ TypeOK
    /\ \A t \in Threads : Covered(todo[t])
    /\ \A t \in Threads \ {"main"} : ~ Has(todo[t], MainOps)
    /\ \A t \in Threads : ~ Has(todo[t], Futile)
    /\ ua # NoUa /\ wanted[ua] = "none" => Has(todo["main"], Registering)
    /\ isRunning /\ cacheStateAccount = "Progress" =>
          pending # {} \/ \E t \in Threads : Has(todo[t], Settling)

(* A covered script put before a covered script is covered.                *)
LEMMA CoveredConcat ==
    ASSUME NEW a \in Seq(Ops), NEW b \in Seq(Ops), Covered(b),
           Covered(a) \/ Has(b, Sending)
    PROVE  Covered(a \o b)
BY FollowedConcat DEF Covered

(* What is left of a covered script is covered.                            *)
LEMMA CoveredTail ==
    ASSUME NEW s \in Seq(Ops), s # <<>>, Covered(s)
    PROVE  /\ Covered(Tail(s))
           /\ Head(s) \in Raising => Has(Tail(s), Sending)
BY FollowedTail DEF Covered

(* A script without a raising operation is covered; so are the scripts of  *)
(* ua_register and ua_unregister, which send after they raise.             *)
LEMMA CoveredScripts ==
    /\ \A s : ~ Has(s, Raising) => Covered(s)
    /\ \A u \in Uas : /\ Covered(UaRegister(u))
                      /\ Covered(Unregister(u))
                      /\ Covered(Unregister(u) \o <<[op |-> "ua_alloc"]>>)
                      /\ \A n \in Nat :
                            Covered(UaRegister(u) \o <<[op |-> "resetTransp", next |-> n]>>)
<1>1. ASSUME NEW s, ~ Has(s, Raising)  PROVE Covered(s)
  BY <1>1, FollowedSmall DEF Covered
<1>2. ASSUME NEW a, NEW b \in Sending  PROVE b \notin Raising => Covered(<<a, b>>)
  BY FollowedSmall DEF Covered
<1>3. ASSUME NEW u \in Uas
      PROVE  /\ Covered(UaRegister(u)) /\ Covered(UaUnregister(u))
             /\ UaRegister(u) \in Seq(Ops) /\ UaUnregister(u) \in Seq(Ops)
  <2>1. [op |-> "sendRegister", ua |-> u] \in Sending \ Raising
    BY DEF Sending, Raising, Ops
  <2>2. [op |-> "sendUnregister", ua |-> u] \in Sending \ Raising
    BY DEF Sending, Raising, Ops
  <2>3. Covered(UaRegister(u))
    BY <1>2, <2>1 DEF UaRegister
  <2>4. Covered(UaUnregister(u))
    BY <1>2, <2>2 DEF UaUnregister
  <2>5. UaUnregister(u) \in Seq(Ops)
    <3>1. [op |-> "uaEvent", event |-> "unregistering"] \in Ops  BY DEF Ops, Events
    <3>2. [op |-> "sendUnregister", ua |-> u] \in Ops  BY DEF Ops
    <3> QED  BY <3>1, <3>2 DEF UaUnregister
  <2> QED  BY <2>3, <2>4, <2>5, Scripts
<1>4. ASSUME NEW o \in Ops, o.op \notin {"uaEvent", "cacheState"}
      PROVE  Covered(<<o>>) /\ <<o>> \in Seq(Ops)
  <2>1. ~ Has(<<o>>, Raising)
    BY <1>4, HasSmall DEF Raising
  <2> QED  BY <1>1, <2>1
<1>5. ASSUME NEW u \in Uas  PROVE Covered(Unregister(u))
  <2>1. [op |-> "clearUa"] \in Ops  BY DEF Ops
  <2>2. Covered(<<[op |-> "clearUa"]>>) /\ <<[op |-> "clearUa"]>> \in Seq(Ops)
    BY <1>4, <2>1
  <2> QED  BY <1>3, <2>2, CoveredConcat DEF Unregister
<1>6. ASSUME NEW u \in Uas  PROVE Covered(Unregister(u) \o <<[op |-> "ua_alloc"]>>)
  <2>1. [op |-> "ua_alloc"] \in Ops  BY DEF Ops
  <2>2. Covered(<<[op |-> "ua_alloc"]>>) /\ <<[op |-> "ua_alloc"]>> \in Seq(Ops)
    BY <1>4, <2>1
  <2> QED  BY <1>5, <2>2, CoveredConcat, Scripts
<1>7. ASSUME NEW u \in Uas, NEW n \in Nat
      PROVE  Covered(UaRegister(u) \o <<[op |-> "resetTransp", next |-> n]>>)
  <2> DEFINE o == [op |-> "resetTransp", next |-> n]
  <2>1. o \in Ops /\ o.op \notin {"uaEvent", "cacheState"}  BY DEF Ops
  <2> HIDE DEF o
  <2>2. Covered(<<o>>) /\ <<o>> \in Seq(Ops)
    BY <1>4, <2>1
  <2>3. Covered(UaRegister(u) \o <<o>>)
    BY <1>3, <2>2, CoveredConcat
  <2> QED  BY <2>3 DEF o
<1> QED  BY <1>1, <1>3, <1>5, <1>6, <1>7

(* What a thread's step must do for the invariant: the operations it       *)
(* pushes are covered, belong to the thread and are not futile, and        *)
(* neither the way to a REGISTER nor the way out of Progress is lost.      *)
LEMMA StepKeeps ==
    ASSUME NoStuckInv, TypeOK', NEW t \in Threads, todo[t] # <<>>,
           NEW ops \in Seq(Ops), Continue(t, ops),
           Covered(ops) \/ Has(Tail(todo[t]), Sending),
           t # "main" => ~ Has(ops, MainOps),
           ~ Has(ops, Futile'),
           Futile' \subseteq Futile,
           \/ ua' = NoUa
           \/ wanted'[ua'] # "none"
           \/ t = "main" /\ Has(ops, Registering')
           \/ ua' = ua /\ wanted'[ua] = wanted[ua] /\ Head(todo[t]) \notin Registering,
           \/ ~ isRunning'
           \/ cacheStateAccount' # "Progress"
           \/ pending' # {}
           \/ Has(ops, Settling)
           \/ Has(Tail(todo[t]), Sending)
           \/ /\ Head(todo[t]) \notin Settling
              /\ UNCHANGED <<pending, cacheStateAccount, isRunning>>
    PROVE  NoStuckInv'
<1>1. todo[t] \in Seq(Ops)
  BY DEF NoStuckInv, TypeOK
<1>2. /\ todo'[t] = ops \o Tail(todo[t])
      /\ \A v \in Threads : v # t => todo'[v] = todo[v]
  BY DEF Continue, NoStuckInv, TypeOK
<1>3. ASSUME NEW S
      PROVE  /\ Tail(todo[t]) \in Seq(Ops)
             /\ Has(todo'[t], S) <=> Has(ops, S) \/ Has(Tail(todo[t]), S)
             /\ Has(todo[t], S) <=> Head(todo[t]) \in S \/ Has(Tail(todo[t]), S)
  BY <1>1, <1>2, HasContinue
<1>4. \A v \in Threads : Covered(todo'[v])
  <2>1. Covered(Tail(todo[t]))
    BY <1>1, CoveredTail DEF NoStuckInv
  <2>2. Covered(todo'[t])
    BY <1>2, <1>3, <2>1, CoveredConcat
  <2> QED  BY <1>2, <2>2 DEF NoStuckInv
<1>5. \A v \in Threads \ {"main"} : ~ Has(todo'[v], MainOps)
  BY <1>2, <1>3 DEF NoStuckInv
<1>6. \A v \in Threads : ~ Has(todo'[v], Futile')
  <2>1. \A v \in Threads : ~ Has(todo[v], Futile')
    BY DEF NoStuckInv, Has
  <2> QED  BY <1>2, <1>3, <2>1
<1>7. ua' # NoUa /\ wanted'[ua'] = "none" => Has(todo'["main"], Registering')
  <2> SUFFICES ASSUME ua' # NoUa, wanted'[ua'] = "none"
               PROVE  Has(todo'["main"], Registering')
    OBVIOUS
  <2>1. CASE t = "main" /\ Has(ops, Registering')
    BY <1>3, <2>1
  <2>2. CASE ua' = ua /\ wanted'[ua] = wanted[ua] /\ Head(todo[t]) \notin Registering
    <3>1. Has(todo["main"], Registering) /\ Registering' = Registering
      BY <2>2 DEF NoStuckInv, Registering
    <3> QED  BY <1>2, <1>3, <2>2, <3>1, ThreadNames
  <2> QED  BY <2>1, <2>2
<1>8. isRunning' /\ cacheStateAccount' = "Progress" =>
         pending' # {} \/ \E v \in Threads : Has(todo'[v], Settling)
  <2> SUFFICES ASSUME isRunning', cacheStateAccount' = "Progress", pending' = {}
               PROVE  \E v \in Threads : Has(todo'[v], Settling)
    OBVIOUS
  <2>1. CASE Has(ops, Settling)
    BY <1>3, <2>1
  <2>2. CASE Has(Tail(todo[t]), Sending)
    <3>1. Has(Tail(todo[t]), Settling)
      BY <2>2 DEF Has, Settling
    <3> QED  BY <1>3, <3>1
  <2>3. CASE /\ Head(todo[t]) \notin Settling
             /\ UNCHANGED <<pending, cacheStateAccount, isRunning>>
    <3>1. PICK v \in Threads : Has(todo[v], Settling)
      BY <2>3 DEF NoStuckInv
    <3> QED  BY <1>2, <1>3, <2>3, <3>1
  <2> QED  BY <2>1, <2>2, <2>3
<1> QED  BY <1>4, <1>5, <1>6, <1>7, <1>8 DEF NoStuckInv

(* What entering a handler must do for the invariant.                      *)
LEMMA StartKeeps ==
    ASSUME NoStuckInv, TypeOK', NEW t \in Threads,
           NEW ops \in Seq(Ops), Start(t, ops),
           Covered(ops),
           t # "main" => ~ Has(ops, MainOps),
           ~ Has(ops, Futile),
           UNCHANGED <<ua, wanted, cacheStateAccount, isRunning>>,
           pending' = pending \/ Has(ops, Settling)
    PROVE  NoStuckInv'
<1>1. /\ todo[t] = <<>> /\ todo'[t] = ops
      /\ \A v \in Threads : v # t => todo'[v] = todo[v]
  BY DEF Start, Idle, NoStuckInv, TypeOK
<1>2. Futile' = Futile /\ Registering' = Registering
  BY DEF Futile, Registering
<1>3. \A v \in Threads : Covered(todo'[v])
  BY <1>1 DEF NoStuckInv
<1>4. \A v \in Threads \ {"main"} : ~ Has(todo'[v], MainOps)
  <2> TAKE v \in Threads \ {"main"}
  <2>1. CASE v = t  BY <1>1, <2>1
  <2>2. CASE v # t  BY <1>1, <2>2 DEF NoStuckInv
  <2> QED  BY <2>1, <2>2
<1>5. \A v \in Threads : ~ Has(todo'[v], Futile')
  <2> TAKE v \in Threads
  <2>1. CASE v = t  BY <1>1, <1>2, <2>1
  <2>2. CASE v # t  BY <1>1, <1>2, <2>2 DEF NoStuckInv
  <2> QED  BY <2>1, <2>2
<1>6. \A S : ~ Has(todo[t], S)
  BY <1>1, HasSmall
<1>7. ua' # NoUa /\ wanted'[ua'] = "none" => Has(todo'["main"], Registering')
  <2> SUFFICES ASSUME ua' # NoUa, wanted'[ua'] = "none"
               PROVE  Has(todo'["main"], Registering')
    OBVIOUS
  <2>1. Has(todo["main"], Registering)
    BY DEF NoStuckInv
  <2>2. t # "main"
    BY <1>6, <2>1
  <2> QED  BY <1>1, <1>2, <2>1, <2>2, ThreadNames
<1>8. isRunning' /\ cacheStateAccount' = "Progress" =>
         pending' # {} \/ \E v \in Threads : Has(todo'[v], Settling)
  <2> SUFFICES ASSUME isRunning', cacheStateAccount' = "Progress", pending' = {}
               PROVE  \E v \in Threads : Has(todo'[v], Settling)
    OBVIOUS
  <2>1. CASE Has(ops, Settling)
    BY <1>1, <2>1
  <2>2. CASE pending' = pending
    <3>1. PICK v \in Threads : Has(todo[v], Settling)
      BY <2>2 DEF NoStuckInv
    <3>2. v # t
      BY <1>6, <3>1
    <3> QED  BY <1>1, <3>1, <3>2
  <2> QED  BY <2>1, <2>2
<1> QED  BY <1>3, <1>4, <1>5, <1>7, <1>8 DEF NoStuckInv

(* When the platform thread is idle, the account in use has sent its       *)
(* REGISTER, so unregistering it is not futile.                            *)
LEMMA IdleMainRegistered ==
    ASSUME NoStuckInv, Idle("main"), ua # NoUa
    PROVE  /\ ua \in Uas
           /\ ~ Has(Unregister(ua), Futile)
           /\ ~ Has(Unregister(ua) \o <<[op |-> "ua_alloc"]>>, Futile)
<1>1. ua \in Uas /\ wanted[ua] # "none"
  BY HasSmall DEF NoStuckInv, TypeOK, Idle
<1>2. /\ [op |-> "uaEvent", event |-> "unregistering"] \in Ops \ Futile
      /\ [op |-> "sendUnregister", ua |-> ua] \in Ops \ Futile
      /\ [op |-> "clearUa"] \in Ops \ Futile
      /\ [op |-> "ua_alloc"] \in Ops \ Futile
  BY <1>1 DEF Futile, Ops, Events
<1>3. UaUnregister(ua) \in Seq(Ops) /\ ~ Has(UaUnregister(ua), Futile)
  <2> DEFINE a == [op |-> "uaEvent", event |-> "unregistering"]
             b == [op |-> "sendUnregister", ua |-> ua]
  <2>1. a \in Ops \ Futile /\ b \in Ops \ Futile /\ UaUnregister(ua) = <<a, b>>
    BY <1>2 DEF UaUnregister
  <2> HIDE DEF a, b
  <2>2. <<a, b>> \in Seq(Ops)
    BY <2>1, ShortScripts
  <2>3. ~ Has(<<a, b>>, Futile)
    BY <2>1, HasSmall
  <2> QED  BY <2>1, <2>2, <2>3
<1>4. <<[op |-> "clearUa"]>> \in Seq(Ops) /\ ~ Has(<<[op |-> "clearUa"]>>, Futile)
  BY <1>2, HasSmall, ShortScripts
<1>5. ~ Has(Unregister(ua), Futile)
  BY <1>3, <1>4, HasConcat DEF Unregister
<1>6. <<[op |-> "ua_alloc"]>> \in Seq(Ops) /\ ~ Has(<<[op |-> "ua_alloc"]>>, Futile)
  BY <1>2, HasSmall, ShortScripts
<1>7. Unregister(ua) \in Seq(Ops)
  BY <1>1, Scripts
<1>8. ~ Has(Unregister(ua) \o <<[op |-> "ua_alloc"]>>, Futile)
  BY <1>5, <1>6, <1>7, HasConcat
<1> QED  BY <1>1, <1>5, <1>8

(* What the scripts of ua_register contain.                                *)
LEMMA UaRegisterContents ==
    ASSUME NEW u \in Uas
    PROVE  /\ ~ Has(UaRegister(u), MainOps)
           /\ ~ Has(UaRegister(u), Futile)
           /\ ua = u => Has(UaRegister(u), Registering)
<1> DEFINE a == [op |-> "uaEvent", event |-> "registering"]
           b == [op |-> "sendRegister", ua |-> u]
<1>1. UaRegister(u) = <<a, b>>
  BY DEF UaRegister
<1>2. a \notin MainOps /\ b \notin MainOps
  BY DEF MainOps
<1>3. a \notin Futile /\ b \notin Futile
  BY DEF Futile
<1>4. ua = u => b \in Registering
  BY DEF Registering, Ops
<1> HIDE DEF a, b
<1>5. \A S : Has(<<a, b>>, S) <=> a \in S \/ b \in S
  BY HasSmall
<1> QED  BY <1>1, <1>2, <1>3, <1>4, <1>5

(* Calling a handler preserves the invariant.                              *)
LEMMA HandlerKeepsNoStuck ==
    ASSUME NoStuckInv, TypeOK',
           \/ InitSipModule \/ RefreshSipAccount \/ UnregisterSipAccount
           \/ HotSpotDisabled \/ Detach \/ Deliver
           \/ \E t \in NetThreads : NetworkCallback(t) \/ HotSpotTimer(t)
           \/ \E tr \in Transactions : Answer(tr)
           \/ \E u \in Uas : PeriodicRefresh(u)
    PROVE  NoStuckInv'
<1> USE DEF kotlin, registrar, app
<1>1. \A k \in {"ua_alloc", "updateNetwork", "registry"} :
         /\ <<[op |-> k]>> \in Seq(Ops)
         /\ Covered(<<[op |-> k]>>)
         /\ ~ Has(<<[op |-> k]>>, Futile)
  <2> TAKE k \in {"ua_alloc", "updateNetwork", "registry"}
  <2>1. [op |-> k] \notin Futile /\ [op |-> k] \notin Raising
    BY DEF Futile, Raising
  <2> QED  BY <2>1, HasSmall, Scripts, CoveredScripts
<1>2. ~ Has(<<[op |-> "updateNetwork"]>>, MainOps)
  <2>1. [op |-> "updateNetwork"] \notin MainOps
    BY DEF MainOps
  <2> QED  BY <2>1, HasSmall
<1>3. CASE InitSipModule
  <2>1. CASE ua # NoUa
    <3>1. Idle("main") /\ Start("main", Unregister(ua) \o <<[op |-> "ua_alloc"]>>)
      BY <1>3, <2>1 DEF InitSipModule, Start
    <3>2. ~ Has(Unregister(ua) \o <<[op |-> "ua_alloc"]>>, Futile) /\ ua \in Uas
      BY <2>1, <3>1, IdleMainRegistered
    <3>3. UNCHANGED <<ua, wanted, cacheStateAccount, isRunning, pending>>
      BY <1>3 DEF InitSipModule
    <3> DEFINE ops == Unregister(ua) \o <<[op |-> "ua_alloc"]>>
    <3>4. ops \in Seq(Ops) /\ Covered(ops) /\ ~ Has(ops, Futile) /\ Start("main", ops)
      BY <3>1, <3>2, Scripts, CoveredScripts
    <3> HIDE DEF ops
    <3> QED  BY <3>3, <3>4, StartKeeps, ThreadNames
  <2>2. CASE ua = NoUa
    <3>1. Start("main", <<[op |-> "ua_alloc"]>>)
          /\ UNCHANGED <<ua, wanted, cacheStateAccount, isRunning, pending>>
      BY <1>3, <2>2 DEF InitSipModule
    <3> QED  BY <1>1, <3>1, StartKeeps, ThreadNames
  <2> QED  BY <2>1, <2>2
<1>4. CASE RefreshSipAccount
  <2>1. Start("main", <<[op |-> "registry"]>>)
        /\ UNCHANGED <<ua, wanted, cacheStateAccount, isRunning, pending>>
    BY <1>4 DEF RefreshSipAccount
  <2> QED  BY <1>1, <2>1, StartKeeps, ThreadNames
<1>5. CASE UnregisterSipAccount
  <2>1. Idle("main") /\ ua # NoUa /\ Start("main", Unregister(ua))
        /\ UNCHANGED <<ua, wanted, cacheStateAccount, isRunning, pending>>
    BY <1>5 DEF UnregisterSipAccount, Start
  <2>2. ~ Has(Unregister(ua), Futile) /\ ua \in Uas
    BY <2>1, IdleMainRegistered
  <2> QED  BY <2>1, <2>2, StartKeeps, Scripts, CoveredScripts, ThreadNames
<1>6. ASSUME NEW t \in Threads, Start(t, <<[op |-> "updateNetwork"]>>),
             UNCHANGED <<ua, wanted, cacheStateAccount, isRunning, pending>>
      PROVE  NoStuckInv'
  BY <1>1, <1>2, <1>6, StartKeeps
<1>7. CASE HotSpotDisabled
  BY <1>6, <1>7, ThreadNames DEF HotSpotDisabled
<1>8. CASE \E t \in NetThreads : NetworkCallback(t) \/ HotSpotTimer(t)
  <2>1. PICK t \in NetThreads : NetworkCallback(t) \/ HotSpotTimer(t)
    BY <1>8
  <2>2. Start(t, <<[op |-> "updateNetwork"]>>)
        /\ UNCHANGED <<ua, wanted, cacheStateAccount, isRunning, pending>>
    BY <2>1 DEF NetworkCallback, HotSpotTimer
  <2> QED  BY <1>6, <2>2, ThreadNames
<1>9. CASE Detach
  <2>1. UNCHANGED <<todo, ua, wanted>> /\ isRunning' = FALSE
    BY <1>9 DEF Detach
  <2> QED  BY <2>1 DEF NoStuckInv, Futile, Registering
<1>10. CASE Deliver
  <2>1. UNCHANGED <<todo, ua, wanted, isRunning, cacheStateAccount, pending>>
    BY <1>10 DEF Deliver
  <2> QED  BY <2>1 DEF NoStuckInv, Futile, Registering
<1>11. ASSUME NEW u \in Uas, PeriodicRefresh(u)
       PROVE  NoStuckInv'
  <2>1. UNCHANGED <<todo, ua, wanted, isRunning, cacheStateAccount>> /\ pending' # {}
    BY <1>11 DEF PeriodicRefresh
  <2> QED  BY <2>1 DEF NoStuckInv, Futile, Registering
<1>12. ASSUME NEW tr \in Transactions, Answer(tr)
       PROVE  NoStuckInv'
  <2>1. PICK e \in {"registered", "registering failed"} :
           Start("re", <<[op |-> "uaEvent", event |-> e]>>)
    BY <1>12 DEF Answer
  <2> DEFINE o == [op |-> "uaEvent", event |-> e]
  <2>2. o \in Ops /\ o \in Settling
    BY DEF Ops, Settling, Events
  <2>3. o \notin Raising /\ o \notin MainOps /\ o \notin Futile
    BY DEF Raising, MainOps, Futile
  <2>4. UNCHANGED <<ua, wanted, cacheStateAccount, isRunning>> /\ Start("re", <<o>>)
    BY <1>12, <2>1 DEF Answer
  <2> HIDE DEF o
  <2>5. <<o>> \in Seq(Ops) /\ Covered(<<o>>)
    BY <2>2, <2>3, ShortScripts, HasSmall, CoveredScripts
  <2>6. Has(<<o>>, Settling) /\ ~ Has(<<o>>, MainOps) /\ ~ Has(<<o>>, Futile)
    BY <2>2, <2>3, HasSmall
  <2> QED  BY <2>4, <2>5, <2>6, StartKeeps, ThreadNames
<1> QED  BY <1>3, <1>4, <1>5, <1>7, <1>8, <1>9, <1>10, <1>11, <1>12

(* Here and below: a UA that never registered has nothing to unregister,   *)
(* and a failure to send an un-REGISTER is not reported, so the theorem    *)
(* assumes neither failure.  Failures of ua_alloc and of the sending of a  *)
(* REGISTER may happen.                                                    *)
LEMMA StepKeepsNoStuck ==
    ASSUME "codecs" \notin Faults, "unregister" \notin Faults,
           NoStuckInv, TypeOK', NEW t \in Threads, Step(t)
    PROVE  NoStuckInv'
<1> USE DEF kotlin, registrar, app
<1> DEFINE h == Head(todo[t])
           rest == Tail(todo[t])
<1>1. todo[t] # <<>> /\ todo[t] \in Seq(Ops) /\ h \in Ops
  <2>1. todo[t] # <<>>
    BY DEF Step, At, UaEvent, CacheState, PostEvent, SendRegister, SendUnregister,
           ClearUa, UaAlloc, SetUa, SetAudioCodecs, UpdateNetwork, ResetTransp, Registry
  <2>2. todo[t] \in Seq(Ops)
    BY DEF NoStuckInv, TypeOK
  <2> QED  BY <2>1, <2>2, HeadTailProperties
<1>2. /\ h \in Raising => Has(rest, Sending)
      /\ h \notin Futile
      /\ h \in MainOps => t = "main"
  <2>1. Covered(todo[t])
    BY DEF NoStuckInv
  <2>2. \A S : h \in S => Has(todo[t], S)
    BY <1>1, HasContinue, Scripts
  <2> QED  BY <1>1, <2>1, <2>2, CoveredTail DEF NoStuckInv
<1>3. Covered(<<>>) /\ <<>> \in Seq(Ops) /\ \A S : ~ Has(<<>>, S)
  BY HasSmall, CoveredScripts
<1>4. UNCHANGED wanted => Futile' = Futile
  BY DEF Futile
<1>5. ASSUME NEW o \in Ops, o.op \notin {"uaEvent", "cacheState"}
      PROVE  Covered(<<o>>) /\ <<o>> \in Seq(Ops)
  BY <1>5, HasSmall, ShortScripts, CoveredScripts DEF Raising
<1> HIDE DEF h, rest
<1>6. CASE UaEvent(t)
  <2>1. /\ h.op = "uaEvent" /\ h.event \in Events
        /\ UNCHANGED <<ua, wanted, cacheStateAccount, isRunning, pending>>
    BY <1>1, <1>6, OpFields DEF UaEvent, At, h
  <2>2. h \notin Registering
    BY <2>1 DEF Registering
  <2>3. CASE ~ isRunning
    <3>1. Continue(t, <<>>) /\ ~ isRunning'
      BY <1>6, <2>1, <2>3 DEF UaEvent
    <3> QED  BY <1>1, <1>3, <1>4, <2>1, <2>2, <3>1, StepKeeps DEF h
  <2>4. CASE isRunning
    <3> DEFINE s == ReportedState(h.event)
               a == [op |-> "cacheState", state |-> s]
               b == [op |-> "postEvent", state |-> s]
    <3>1. s \in States
      BY <2>1 DEF ReportedState, Events, States
    <3>2. Continue(t, <<a, b>>)
      BY <1>6, <2>4 DEF UaEvent, SendAccountEvent, h
    <3>3. a \in Ops /\ b \in Ops
      BY <3>1 DEF Ops
    <3>4. a \notin MainOps /\ b \notin MainOps /\ a \notin Futile /\ b \notin Futile
      BY DEF MainOps, Futile
    <3>5. CASE h.event \in {"registering", "unregistering"}
      <4>1. Has(rest, Sending)
        BY <1>1, <1>2, <2>1, <3>5 DEF Raising
      <4> HIDE DEF a, b
      <4>2. <<a, b>> \in Seq(Ops) /\ ~ Has(<<a, b>>, MainOps) /\ ~ Has(<<a, b>>, Futile)
        BY <3>3, <3>4, HasSmall, ShortScripts
      <4> QED  BY <1>1, <1>4, <2>1, <2>2, <3>2, <4>1, <4>2, StepKeeps DEF h, rest
    <3>6. CASE h.event \in {"registered", "registering failed"}
      <4>1. s # "Progress"
        BY <3>6 DEF ReportedState
      <4>2. a \in Settling /\ a \notin Raising /\ b \notin Raising
        BY <3>3, <4>1 DEF Settling, Raising
      <4> HIDE DEF a, b
      <4>3. <<a, b>> \in Seq(Ops) /\ ~ Has(<<a, b>>, MainOps) /\ ~ Has(<<a, b>>, Futile)
        BY <3>3, <3>4, HasSmall, ShortScripts
      <4>4. Has(<<a, b>>, Settling) /\ Covered(<<a, b>>)
        BY <4>2, HasSmall, CoveredScripts
      <4> QED  BY <1>1, <1>4, <2>1, <2>2, <3>2, <4>3, <4>4, StepKeeps DEF h
    <3> QED  BY <2>1, <3>5, <3>6 DEF Events
  <2> QED  BY <2>3, <2>4
<1>7. CASE CacheState(t)
  <2>1. /\ h.op = "cacheState" /\ cacheStateAccount' = h.state /\ Continue(t, <<>>)
        /\ UNCHANGED <<ua, wanted, isRunning, pending>>
    BY <1>7 DEF CacheState, At, h
  <2>2. h \notin Registering
    BY <2>1 DEF Registering
  <2>3. cacheStateAccount' = "Progress" => Has(rest, Sending)
    BY <1>1, <1>2, <2>1 DEF Raising
  <2> QED  BY <1>1, <1>3, <1>4, <2>1, <2>2, <2>3, StepKeeps DEF h, rest
<1>8. CASE PostEvent(t)
  <2>1. /\ h.op = "postEvent" /\ Continue(t, <<>>)
        /\ UNCHANGED <<ua, wanted, cacheStateAccount, isRunning, pending>>
    BY <1>8 DEF PostEvent, At, h
  <2>2. h \notin Registering /\ h \notin Settling
    BY <2>1 DEF Registering, Settling, Sending
  <2> QED  BY <1>1, <1>3, <1>4, <2>1, <2>2, StepKeeps DEF h
<1>9. CASE SendRegister(t)
  <2>1. /\ h.op = "sendRegister" /\ h.ua \in Uas
        /\ UNCHANGED <<ua, cacheStateAccount, isRunning>>
        /\ wanted' = [wanted EXCEPT ![h.ua] = "register"]
    BY <1>1, <1>9, OpFields DEF SendRegister, At, h
  <2>2. wanted \in [Uas -> {"none", "register", "unregister"}] /\ ua \in Uas \union {NoUa}
    BY DEF NoStuckInv, TypeOK
  <2>3. Futile' \subseteq Futile
    <3> SUFFICES ASSUME NEW o \in Futile'  PROVE o \in Futile
      OBVIOUS
    <3>1. o \in Ops /\ o.op = "sendUnregister" /\ wanted'[o.ua] = "none"
      BY DEF Futile
    <3>2. o.ua \in Uas
      BY <3>1, OpFields
    <3>3. wanted[o.ua] = "none"
      BY <2>1, <2>2, <3>1, <3>2
    <3> QED  BY <3>1, <3>3 DEF Futile
  <2>4. \/ ua' = NoUa
        \/ wanted'[ua'] # "none"
        \/ ua' = ua /\ wanted'[ua] = wanted[ua] /\ h \notin Registering
    BY <2>1, <2>2 DEF Registering
  <2>5. CASE /\ Continue(t, <<>>)
             /\ pending' # {}
    BY <1>1, <1>3, <2>3, <2>4, <2>5, StepKeeps DEF h
  <2>6. CASE Continue(t, <<[op |-> "uaEvent", event |-> "registering failed"]>>)
    <3> DEFINE o == [op |-> "uaEvent", event |-> "registering failed"]
    <3>1. /\ o \in Ops /\ o \in Settling /\ o \notin Raising
          /\ o \notin MainOps
      BY DEF Ops, Events, Settling, Raising, MainOps
    <3>2. o \notin Futile /\ o \notin Futile'
      BY DEF Futile
    <3>3. Continue(t, <<o>>)
      BY <2>6
    <3> HIDE DEF o
    <3>4. /\ <<o>> \in Seq(Ops) /\ Covered(<<o>>) /\ Has(<<o>>, Settling)
          /\ ~ Has(<<o>>, MainOps) /\ ~ Has(<<o>>, Futile')
      BY <3>1, <3>2, HasSmall, ShortScripts, CoveredScripts
    <3> QED  BY <1>1, <2>3, <2>4, <3>3, <3>4, StepKeeps DEF h
  <2> QED  BY <1>9, <2>5, <2>6 DEF SendRegister
<1>10. CASE SendUnregister(t)
  <2>1. /\ h.op = "sendUnregister" /\ h.ua \in Uas /\ Continue(t, <<>>)
        /\ UNCHANGED <<ua, cacheStateAccount, isRunning>>
    BY <1>1, <1>10, OpFields DEF SendUnregister, At, h
  <2>2. wanted[h.ua] # "none"
    BY <1>1, <1>2, <2>1 DEF Futile
  <2>3. pending' # {} /\ wanted' = [wanted EXCEPT ![h.ua] = "unregister"]
    BY <1>10, <2>2 DEF SendUnregister, h
  <2>4. wanted \in [Uas -> {"none", "register", "unregister"}] /\ ua \in Uas \union {NoUa}
    BY DEF NoStuckInv, TypeOK
  <2>5. Futile' \subseteq Futile
    <3> SUFFICES ASSUME NEW o \in Futile'  PROVE o \in Futile
      OBVIOUS
    <3>1. o \in Ops /\ o.op = "sendUnregister" /\ wanted'[o.ua] = "none"
      BY DEF Futile
    <3>2. o.ua \in Uas
      BY <3>1, OpFields
    <3>3. wanted[o.ua] = "none"
      BY <2>3, <2>4, <3>1, <3>2
    <3> QED  BY <3>1, <3>3 DEF Futile
  <2>6. h \notin Registering
    BY <2>1 DEF Registering
  <2>7. \/ ua' = NoUa
        \/ wanted'[ua'] # "none"
        \/ ua' = ua /\ wanted'[ua] = wanted[ua] /\ h \notin Registering
    BY <2>1, <2>3, <2>4, <2>6
  <2> QED  BY <1>1, <1>3, <2>1, <2>3, <2>5, <2>7, StepKeeps DEF h
<1>11. CASE ClearUa(t)
  <2>1. /\ h.op = "clearUa" /\ ua' = NoUa /\ Continue(t, <<>>)
        /\ UNCHANGED <<wanted, cacheStateAccount, isRunning, pending>>
    BY <1>11 DEF ClearUa, At, h
  <2>2. h \notin Settling
    BY <2>1 DEF Settling, Sending
  <2> QED  BY <1>1, <1>3, <1>4, <2>1, <2>2, StepKeeps DEF h
<1>12. CASE UaAlloc(t)
  <2>1. /\ h.op = "ua_alloc"
        /\ UNCHANGED <<ua, wanted, cacheStateAccount, isRunning, pending>>
    BY <1>12 DEF UaAlloc, At, h
  <2>2. h \notin Registering /\ h \notin Settling /\ h \in MainOps
    BY <1>1, <2>1 DEF Registering, Settling, Sending, MainOps
  <2>3. CASE Continue(t, <<>>)
    BY <1>1, <1>3, <1>4, <2>1, <2>2, <2>3, StepKeeps DEF h
  <2>4. ASSUME NEW u \in Uas, Continue(t, <<[op |-> "setUa", ua |-> u]>>)
        PROVE  NoStuckInv'
    <3> DEFINE o == [op |-> "setUa", ua |-> u]
    <3>1. o \in Ops /\ o.op \notin {"uaEvent", "cacheState"} /\ o \notin Futile
      BY DEF Ops, Futile
    <3>2. Continue(t, <<o>>)
      BY <2>4
    <3> HIDE DEF o
    <3>3. <<o>> \in Seq(Ops) /\ Covered(<<o>>) /\ ~ Has(<<o>>, Futile)
      BY <1>5, <3>1, HasSmall
    <3> QED  BY <1>1, <1>2, <1>4, <2>1, <2>2, <3>2, <3>3, StepKeeps DEF h
  <2> QED  BY <1>12, <2>3, <2>4 DEF UaAlloc
<1>13. CASE SetUa(t)
  <2> DEFINE o == [op |-> "setAudioCodecs"]
  <2>1. /\ h.op = "setUa" /\ Continue(t, <<o>>)
        /\ UNCHANGED <<wanted, cacheStateAccount, isRunning, pending>>
    BY <1>13 DEF SetUa, At, h
  <2>2. h \notin Settling /\ h \in MainOps
    BY <1>1, <2>1 DEF Settling, Sending, MainOps
  <2>3. o \in Ops /\ o.op \notin {"uaEvent", "cacheState"} /\ o \notin Futile /\ o \in Registering'
    BY DEF Ops, Futile, Registering
  <2> HIDE DEF o
  <2>4. /\ <<o>> \in Seq(Ops) /\ Covered(<<o>>) /\ ~ Has(<<o>>, Futile)
        /\ Has(<<o>>, Registering')
    BY <1>5, <2>3, HasSmall
  <2> QED  BY <1>1, <1>2, <1>4, <2>1, <2>2, <2>4, StepKeeps DEF h
<1>14. CASE SetAudioCodecs(t)
  <2> DEFINE a == [op |-> "updateNetwork"]
             b == [op |-> "registry"]
  <2>1. /\ h.op = "setAudioCodecs" /\ Continue(t, <<a, b>>)
        /\ UNCHANGED <<ua, wanted, cacheStateAccount, isRunning, pending>>
    BY <1>14 DEF SetAudioCodecs, At, h
  <2>2. h \notin Settling /\ h \in MainOps
    BY <1>1, <2>1 DEF Settling, Sending, MainOps
  <2>3. /\ a \in Ops /\ b \in Ops /\ a \notin Futile /\ b \notin Futile
        /\ a \notin Raising /\ b \notin Raising /\ b \in Registering'
    BY DEF Ops, Futile, Raising, Registering
  <2> HIDE DEF a, b
  <2>4. /\ <<a, b>> \in Seq(Ops) /\ Covered(<<a, b>>) /\ ~ Has(<<a, b>>, Futile)
        /\ Has(<<a, b>>, Registering')
    BY <2>3, HasSmall, ShortScripts, CoveredScripts
  <2> QED  BY <1>1, <1>2, <1>4, <2>1, <2>2, <2>4, StepKeeps DEF h
<1>15. CASE UpdateNetwork(t)
  <2> DEFINE o == [op |-> "resetTransp", next |-> 1]
  <2>1. /\ h.op = "updateNetwork" /\ (Continue(t, <<>>) \/ Continue(t, <<o>>))
        /\ UNCHANGED <<ua, wanted, cacheStateAccount, isRunning, pending>>
    BY <1>15 DEF UpdateNetwork, At, h
  <2>2. h \notin Settling /\ h \notin Registering
    BY <2>1 DEF Settling, Sending, Registering
  <2>3. o \in Ops /\ o.op \notin {"uaEvent", "cacheState"} /\ o \notin Futile /\ o \notin MainOps
    BY DEF Ops, Futile, MainOps
  <2> HIDE DEF o
  <2>4. <<o>> \in Seq(Ops) /\ Covered(<<o>>) /\ ~ Has(<<o>>, Futile) /\ ~ Has(<<o>>, MainOps)
    BY <1>5, <2>3, HasSmall
  <2>5. CASE Continue(t, <<>>)
    BY <1>1, <1>3, <1>4, <2>1, <2>2, <2>5, StepKeeps DEF h
  <2>6. CASE Continue(t, <<o>>)
    BY <1>1, <1>4, <2>1, <2>2, <2>4, <2>6, StepKeeps DEF h
  <2> QED  BY <2>1, <2>5, <2>6
<1>16. CASE ResetTransp(t)
  <2>1. /\ h.op = "resetTransp" /\ h.next \in Nat
        /\ UNCHANGED <<ua, wanted, cacheStateAccount, isRunning, pending>>
    BY <1>1, <1>16, OpFields DEF ResetTransp, At, h
  <2>2. h \notin Settling /\ h \notin Registering
    BY <2>1 DEF Settling, Sending, Registering
  <2>3. CASE Continue(t, <<>>)
    BY <1>1, <1>3, <1>4, <2>1, <2>2, <2>3, StepKeeps DEF h
  <2>4. ASSUME NEW u \in Uas,
               Continue(t, UaRegister(u) \o <<[op |-> "resetTransp", next |-> h.next + 1]>>)
        PROVE  NoStuckInv'
    <3> DEFINE o == [op |-> "resetTransp", next |-> h.next + 1]
               ops == UaRegister(u) \o <<o>>
    <3>1. h.next + 1 \in Nat
      BY <2>1
    <3>2. ops \in Seq(Ops) /\ Covered(ops) /\ Continue(t, ops)
      BY <2>4, <3>1, Scripts, CoveredScripts
    <3>3. o \in Ops /\ o \notin Futile /\ o \notin MainOps
      BY <3>1 DEF Ops, Futile, MainOps
    <3> HIDE DEF o
    <3>4. <<o>> \in Seq(Ops) /\ ~ Has(<<o>>, Futile) /\ ~ Has(<<o>>, MainOps)
      BY <3>3, HasSmall, ShortScripts
    <3>5. ~ Has(ops, Futile) /\ ~ Has(ops, MainOps)
      BY <3>4, UaRegisterContents, HasConcat, Scripts
    <3> HIDE DEF ops
    <3> QED  BY <1>1, <1>4, <2>1, <2>2, <3>2, <3>5, StepKeeps DEF h
  <2>5. h.next \in 1 .. Len(uag) => uag[h.next] \in Uas
    BY ElementOfSeq DEF NoStuckInv, TypeOK
  <2> QED  BY <1>16, <2>3, <2>4, <2>5 DEF ResetTransp, h
<1>17. CASE Registry(t)
  <2>1. /\ h.op = "registry"
        /\ UNCHANGED <<ua, wanted, cacheStateAccount, isRunning, pending>>
    BY <1>17 DEF Registry, At, h
  <2>2. h \notin Settling /\ h \in MainOps
    BY <1>1, <2>1 DEF Settling, Sending, MainOps
  <2>3. CASE ua = NoUa
    BY <1>1, <1>3, <1>4, <1>17, <2>1, <2>2, <2>3, StepKeeps DEF Registry, h
  <2>4. CASE ua # NoUa
    <3>1. ua \in Uas
      BY <2>4 DEF NoStuckInv, TypeOK
    <3>2. /\ Continue(t, UaRegister(ua)) /\ UaRegister(ua) \in Seq(Ops)
          /\ Covered(UaRegister(ua)) /\ ~ Has(UaRegister(ua), Futile)
          /\ Has(UaRegister(ua), Registering)
      BY <1>17, <2>4, <3>1, Scripts, CoveredScripts, UaRegisterContents DEF Registry
    <3>3. Registering' = Registering
      BY <2>1 DEF Registering
    <3> QED  BY <1>1, <1>2, <1>4, <2>1, <2>2, <3>2, <3>3, StepKeeps DEF h
  <2> QED  BY <2>3, <2>4
<1> QED  BY <1>6, <1>7, <1>8, <1>9, <1>10, <1>11, <1>12, <1>13, <1>14, <1>15, <1>16, <1>17
         DEF Step

(* The invariant holds at first, and every step keeps it.                  *)
LEMMA NoStuckInit ==
    ASSUME Init
    PROVE  NoStuckInv
<1>1. TypeOK
  BY Scripts DEF Init, TypeOK, States
<1>2. \A t \in Threads : todo[t] = <<>>
  BY DEF Init
<1> QED  BY <1>1, <1>2, HasSmall, CoveredScripts DEF Init, NoStuckInv

LEMMA NoStuckKept ==
    ASSUME NoStuckInv, [Next]_vars, "codecs" \notin Faults, "unregister" \notin Faults
    PROVE  NoStuckInv'
<1>1. CASE Next
  <2>1. TypeOK'
    BY <1>1, HandlerType, StepType DEF Next, NoStuckInv
  <2> QED  BY <1>1, <2>1, HandlerKeepsNoStuck, StepKeepsNoStuck DEF Next
<1>2. CASE UNCHANGED vars
  BY <1>2 DEF NoStuckInv, TypeOK, Futile, Registering, vars, kotlin, registrar, app
<1> QED  BY <1>1, <1>2

(* The registration state never stays at Progress: once no handler is      *)
(* running and no transaction is outstanding, getSipRegistrationState does *)
(* not answer Progress.  Any number of accounts and network threads, any   *)
(* interleaving of their upcalls.                                          *)
THEOREM NeverStuck ==
    ASSUME "codecs" \notin Faults, "unregister" \notin Faults
    PROVE  Spec => []NoStuckProgress
<1>1. Init => NoStuckInv
  BY NoStuckInit
<1>2. NoStuckInv /\ [Next]_vars => NoStuckInv'
  BY NoStuckKept
<1>3. NoStuckInv => NoStuckProgress
  <2> SUFFICES ASSUME NoStuckInv, Quiet  PROVE isRunning => cacheStateAccount # "Progress"
    BY DEF NoStuckProgress
  <2>1. \A t \in Threads : ~ Has(todo[t], Settling)
    BY HasSmall DEF Quiet, Idle
  <2> QED  BY <2>1 DEF NoStuckInv, Quiet
<1> QED  BY <1>1, <1>2, <1>3, PTL DEF Spec
-----------------------------------------------------------------------------
(* What the threads have to tell.                                          *)

\* The operations of one name.
Named(k) == {o \in Ops : o.op = k}

\* Operations that report an event of an account.
Telling == {o \in Ops : o.op \in {"uaEvent", "cacheState", "postEvent"}}

\* Operations that report the verdict of the registrar.
Verdicts ==
    {o \in Ops : \/ o.op = "uaEvent" /\ o.event \in {"registered", "registering failed"}
                 \/ o.op = "cacheState" /\ o.state # "Progress"}

(* The baresip thread reports one event at a time and does nothing else.   *)
ReReports(s) ==
    \/ s = <<>>
    \/ \E e \in Events : s = <<[op |-> "uaEvent", event |-> e]>>
    \/ \E x \in States : s = SendAccountEvent(x)
    \/ \E x \in States : s = <<[op |-> "postEvent", state |-> x]>>

(* If a REGISTER can be sent, only the baresip thread reports a verdict.   *)
(* The others report that they are about to send something, and do it; an  *)
(* account is given up only by the platform thread, which forgets it then, *)
(* and a new one is the last thing that a handler makes.                   *)
ScriptsInv ==
    /\ TypeOK
    /\ ReReports(todo["re"])
    /\ \A t \in Threads \ {"re"} :
          ~ Has(todo[t], Verdicts) /\ Followed(todo[t], Telling, Sending)
    /\ \A t \in Threads \ {"main"} : ~ Has(todo[t], MainOps)
    /\ Has(todo["main"], Named("setUa")) => Tail(todo["main"]) = <<>>
    /\ Final(todo["main"], Named("ua_alloc"))
    /\ Followed(todo["main"], Named("sendUnregister"), Named("clearUa"))

(* What the scripts of handlers contain.                                   *)
LEMMA Contents ==
    ASSUME NEW S
    PROVE  /\ \A u \in Uas :
                 /\ Has(UaRegister(u), S) <=>
                       \/ [op |-> "uaEvent", event |-> "registering"] \in S
                       \/ [op |-> "sendRegister", ua |-> u] \in S
                 /\ Has(Unregister(u), S) <=>
                       \/ [op |-> "uaEvent", event |-> "unregistering"] \in S
                       \/ [op |-> "sendUnregister", ua |-> u] \in S
                       \/ [op |-> "clearUa"] \in S
                 /\ Has(Unregister(u) \o <<[op |-> "ua_alloc"]>>, S) <=>
                       Has(Unregister(u), S) \/ [op |-> "ua_alloc"] \in S
                 /\ \A n \in Nat :
                       Has(UaRegister(u) \o <<[op |-> "resetTransp", next |-> n]>>, S) <=>
                          Has(UaRegister(u), S) \/ [op |-> "resetTransp", next |-> n] \in S
           /\ \A x \in States : Has(SendAccountEvent(x), S) <=>
                 \/ [op |-> "cacheState", state |-> x] \in S
                 \/ [op |-> "postEvent", state |-> x] \in S
<1>1. ASSUME NEW u \in Uas
      PROVE  Has(UaRegister(u), S) <=>
                \/ [op |-> "uaEvent", event |-> "registering"] \in S
                \/ [op |-> "sendRegister", ua |-> u] \in S
  BY HasSmall DEF UaRegister
<1>2. ASSUME NEW u \in Uas
      PROVE  Has(Unregister(u), S) <=>
                \/ [op |-> "uaEvent", event |-> "unregistering"] \in S
                \/ [op |-> "sendUnregister", ua |-> u] \in S
                \/ [op |-> "clearUa"] \in S
  <2>1. UaUnregister(u) \in Seq(Ops) /\ <<[op |-> "clearUa"]>> \in Seq(Ops)
    <3>1. [op |-> "uaEvent", event |-> "unregistering"] \in Ops  BY DEF Ops, Events
    <3>2. [op |-> "sendUnregister", ua |-> u] \in Ops  BY DEF Ops
    <3> QED  BY <3>1, <3>2, ShortScripts, Scripts DEF UaUnregister
  <2>2. Has(UaUnregister(u), S) <=>
                \/ [op |-> "uaEvent", event |-> "unregistering"] \in S
                \/ [op |-> "sendUnregister", ua |-> u] \in S
    BY HasSmall DEF UaUnregister
  <2>3. Has(Unregister(u), S) <=> Has(UaUnregister(u), S) \/ Has(<<[op |-> "clearUa"]>>, S)
    BY <2>1, HasConcat DEF Unregister
  <2> QED  BY <2>2, <2>3, HasSmall
<1>3. ASSUME NEW u \in Uas
      PROVE  Has(Unregister(u) \o <<[op |-> "ua_alloc"]>>, S) <=>
                Has(Unregister(u), S) \/ [op |-> "ua_alloc"] \in S
  <2> DEFINE o == [op |-> "ua_alloc"]
  <2>1. Unregister(u) \in Seq(Ops) /\ <<o>> \in Seq(Ops)
    BY Scripts
  <2> HIDE DEF o
  <2>2. Has(Unregister(u) \o <<o>>, S) <=> Has(Unregister(u), S) \/ o \in S
    BY <2>1, HasConcat, HasSmall
  <2> QED  BY <2>2 DEF o
<1>4. ASSUME NEW u \in Uas, NEW n \in Nat
      PROVE  Has(UaRegister(u) \o <<[op |-> "resetTransp", next |-> n]>>, S) <=>
                Has(UaRegister(u), S) \/ [op |-> "resetTransp", next |-> n] \in S
  <2> DEFINE o == [op |-> "resetTransp", next |-> n]
  <2>1. UaRegister(u) \in Seq(Ops) /\ <<o>> \in Seq(Ops)
    BY Scripts
  <2> HIDE DEF o
  <2>2. Has(UaRegister(u) \o <<o>>, S) <=> Has(UaRegister(u), S) \/ o \in S
    BY <2>1, HasConcat, HasSmall
  <2> QED  BY <2>2 DEF o
<1>5. ASSUME NEW x \in States
      PROVE  Has(SendAccountEvent(x), S) <=>
                \/ [op |-> "cacheState", state |-> x] \in S
                \/ [op |-> "postEvent", state |-> x] \in S
  BY HasSmall DEF SendAccountEvent
<1> QED  BY <1>1, <1>2, <1>3, <1>4, <1>5

(* What a thread's step puts in front of the rest of its script.           *)
Pushes(h, ops) ==
    /\ Has(ops, MainOps) => h \in MainOps
    /\ Has(ops, Verdicts) => h \in Verdicts
    /\ h.op = "uaEvent" \/ Followed(ops, Telling, Sending)
    /\ h.op = "uaEvent" => ops = <<>> \/ \E x \in States : ops = SendAccountEvent(x)
    /\ h.op \in {"cacheState", "postEvent"} => ops = <<>>
    /\ Has(ops, Named("setUa")) => h.op = "ua_alloc"
    /\ h.op = "ua_alloc" => ops = <<>> \/ Tail(ops) = <<>>
    /\ ~ Has(ops, Named("ua_alloc") \union Named("sendUnregister") \union Named("clearUa"))

LEMMA StepPushes ==
    ASSUME TypeOK, "register" \notin Faults, NEW t \in Threads, Step(t)
    PROVE  /\ todo[t] \in Seq(Ops) /\ todo[t] # <<>> /\ Head(todo[t]) \in Ops
           /\ \E ops \in Seq(Ops) : Continue(t, ops) /\ Pushes(Head(todo[t]), ops)
<1> DEFINE h == Head(todo[t])
<1>1. todo[t] \in Seq(Ops) /\ todo[t] # <<>> /\ h \in Ops
  <2>1. todo[t] # <<>>
    BY DEF Step, At, UaEvent, CacheState, PostEvent, SendRegister, SendUnregister,
           ClearUa, UaAlloc, SetUa, SetAudioCodecs, UpdateNetwork, ResetTransp, Registry
  <2>2. todo[t] \in Seq(Ops)
    BY DEF TypeOK
  <2> QED  BY <2>1, <2>2, HeadTailProperties
<1> HIDE DEF h
<1>2. /\ <<>> \in Seq(Ops)
      /\ Pushes(h, <<>>)
  <2>1. \A S : ~ Has(<<>>, S)
    BY HasSmall
  <2>2. Followed(<<>>, Telling, Sending)
    BY <2>1, FollowedSmall
  <2> QED  BY <2>1, <2>2, Scripts DEF Pushes
<1>3. ASSUME NEW o \in Ops,
             \/ o.op = "setAudioCodecs" /\ h.op = "setUa"
             \/ o.op = "resetTransp" /\ h.op = "updateNetwork"
             \/ o.op = "setUa" /\ h.op = "ua_alloc"
      PROVE  Pushes(h, <<o>>) /\ <<o>> \in Seq(Ops)
  <2>1. /\ o \notin Telling /\ o \notin Verdicts
        /\ o \in Named("setUa") => h.op = "ua_alloc"
        /\ o \notin Named("ua_alloc") \union Named("sendUnregister") \union Named("clearUa")
        /\ o \in MainOps => h \in MainOps
        /\ h.op \notin {"uaEvent", "cacheState", "postEvent"}
    BY <1>1, <1>3 DEF Telling, Verdicts, Named, MainOps
  <2>2. \A S : Has(<<o>>, S) <=> o \in S
    BY HasSmall
  <2>3. Followed(<<o>>, Telling, Sending)
    BY <2>1, <2>2, FollowedSmall
  <2>4. Tail(<<o>>) = <<>>
    OBVIOUS
  <2> QED  BY <2>1, <2>2, <2>3, <2>4, ShortScripts DEF Pushes
<1>4. ASSUME NEW u \in Uas
      PROVE  /\ UaRegister(u) \in Seq(Ops)
             /\ Followed(UaRegister(u), Telling, Sending)
             /\ ~ Has(UaRegister(u), Verdicts) /\ ~ Has(UaRegister(u), MainOps)
             /\ ~ Has(UaRegister(u), Named("setUa"))
             /\ ~ Has(UaRegister(u), Named("ua_alloc") \union Named("sendUnregister")
                                         \union Named("clearUa"))
  <2> DEFINE a == [op |-> "uaEvent", event |-> "registering"]
             b == [op |-> "sendRegister", ua |-> u]
  <2>1. /\ a \notin Verdicts /\ b \notin Verdicts /\ a \notin MainOps /\ b \notin MainOps
        /\ b \in Sending /\ b \notin Telling
    BY DEF Verdicts, MainOps, Sending, Telling, Ops
  <2>2. \A k \in {"setUa", "ua_alloc", "sendUnregister", "clearUa"} :
           a \notin Named(k) /\ b \notin Named(k)
    BY DEF Named
  <2>3. \A S : Has(UaRegister(u), S) <=> a \in S \/ b \in S
    BY Contents
  <2>4. UaRegister(u) = <<a, b>>
    BY DEF UaRegister
  <2> HIDE DEF a, b
  <2>5. Followed(UaRegister(u), Telling, Sending)
    BY <2>1, <2>4, FollowedSmall
  <2> QED  BY <2>1, <2>2, <2>3, <2>5, Scripts
<1>5. CASE UaEvent(t)
  <2>1. h.op = "uaEvent" /\ h.event \in Events
    BY <1>1, <1>5, OpFields DEF UaEvent, At, h
  <2>2. CASE isRunning
    <3> DEFINE x == ReportedState(h.event)
    <3>1. x \in States /\ Continue(t, SendAccountEvent(x))
      BY <1>5, <2>1, <2>2 DEF UaEvent, h, ReportedState, Events, States
    <3>2. h \notin Verdicts => x = "Progress"
      BY <1>1, <2>1 DEF Verdicts, ReportedState, Events
    <3> HIDE DEF x
    <3> DEFINE a == [op |-> "cacheState", state |-> x]
               b == [op |-> "postEvent", state |-> x]
    <3>3. \A S : Has(SendAccountEvent(x), S) <=> a \in S \/ b \in S
      BY <3>1, Contents
    <3>4. /\ a \notin MainOps /\ b \notin MainOps /\ b \notin Verdicts
          /\ h \notin Verdicts => a \notin Verdicts
      BY <3>2 DEF MainOps, Verdicts
    <3>5. \A k \in {"setUa", "ua_alloc", "sendUnregister", "clearUa"} :
             a \notin Named(k) /\ b \notin Named(k)
      BY DEF Named
    <3> HIDE DEF a, b
    <3>6. Pushes(h, SendAccountEvent(x))
      BY <2>1, <3>1, <3>3, <3>4, <3>5 DEF Pushes
    <3> QED  BY <1>1, <3>1, <3>6, Scripts DEF h
  <2>3. CASE ~ isRunning
    BY <1>1, <1>2, <1>5, <2>3 DEF UaEvent, h
  <2> QED  BY <2>2, <2>3
<1>6. CASE CacheState(t) \/ PostEvent(t) \/ SendUnregister(t) \/ ClearUa(t)
  BY <1>1, <1>2, <1>6 DEF CacheState, PostEvent, SendUnregister, ClearUa, h
<1>7. CASE SendRegister(t)
  BY <1>1, <1>2, <1>7 DEF SendRegister, h
<1>8. CASE UaAlloc(t)
  <2>1. CASE Continue(t, <<>>)
    BY <1>1, <1>2, <2>1 DEF h
  <2>2. ASSUME NEW u \in Uas, Continue(t, <<[op |-> "setUa", ua |-> u]>>)
        PROVE  \E ops \in Seq(Ops) : Continue(t, ops) /\ Pushes(h, ops)
    <3> DEFINE o == [op |-> "setUa", ua |-> u]
    <3>1. o \in Ops /\ o.op = "setUa" /\ h.op = "ua_alloc" /\ Continue(t, <<o>>)
      BY <1>8, <2>2 DEF Ops, UaAlloc, At, h
    <3> HIDE DEF o
    <3> QED  BY <1>3, <3>1
  <2> QED  BY <1>1, <1>8, <2>1, <2>2 DEF UaAlloc, h
<1>9. CASE SetUa(t)
  <2> DEFINE o == [op |-> "setAudioCodecs"]
  <2>1. o \in Ops /\ o.op = "setAudioCodecs" /\ h.op = "setUa" /\ Continue(t, <<o>>)
    BY <1>9 DEF Ops, SetUa, At, h
  <2> HIDE DEF o
  <2> QED  BY <1>1, <1>3, <2>1 DEF h
<1>10. CASE SetAudioCodecs(t)
  <2>1. CASE Continue(t, <<>>)
    BY <1>1, <1>2, <2>1 DEF h
  <2>2. CASE Continue(t, <<[op |-> "updateNetwork"], [op |-> "registry"]>>)
    <3> DEFINE a == [op |-> "updateNetwork"]
               b == [op |-> "registry"]
    <3>1. /\ a \in Ops /\ b \in Ops /\ h.op = "setAudioCodecs" /\ Continue(t, <<a, b>>)
          /\ a.op = "updateNetwork" /\ b.op = "registry"
      BY <1>10, <2>2 DEF Ops, SetAudioCodecs, At, h
    <3> HIDE DEF a, b
    <3>2. /\ a \notin Telling /\ b \notin Telling /\ a \notin Verdicts /\ b \notin Verdicts
          /\ h \in MainOps
          /\ \A k \in {"setUa", "ua_alloc", "sendUnregister", "clearUa"} :
                a \notin Named(k) /\ b \notin Named(k)
      BY <1>1, <3>1 DEF Telling, Verdicts, MainOps, Named
    <3>3. \A S : Has(<<a, b>>, S) <=> a \in S \/ b \in S
      BY HasSmall
    <3>4. Followed(<<a, b>>, Telling, Sending)
      BY <3>2, <3>3, FollowedSmall
    <3>5. Pushes(h, <<a, b>>)
      BY <3>1, <3>2, <3>3, <3>4 DEF Pushes
    <3>6. <<a, b>> \in Seq(Ops)
      BY <3>1, ShortScripts
    <3> QED  BY <1>1, <3>1, <3>5, <3>6 DEF h
  <2> QED  BY <1>10, <2>1, <2>2 DEF SetAudioCodecs
<1>11. CASE UpdateNetwork(t)
  <2> DEFINE o == [op |-> "resetTransp", next |-> 1]
  <2>1. /\ o \in Ops /\ o.op = "resetTransp" /\ h.op = "updateNetwork"
        /\ Continue(t, <<>>) \/ Continue(t, <<o>>)
    BY <1>11 DEF Ops, UpdateNetwork, At, h
  <2> HIDE DEF o
  <2> QED  BY <1>1, <1>2, <1>3, <2>1 DEF h
<1>12. CASE ResetTransp(t)
  <2>1. h.op = "resetTransp" /\ h.next \in Nat
    BY <1>1, <1>12, OpFields DEF ResetTransp, At, h
  <2>2. CASE Continue(t, <<>>)
    BY <1>1, <1>2, <2>2 DEF h
  <2>3. ASSUME NEW u \in Uas,
               Continue(t, UaRegister(u) \o <<[op |-> "resetTransp", next |-> h.next + 1]>>)
        PROVE  \E ops \in Seq(Ops) : Continue(t, ops) /\ Pushes(h, ops)
    <3> DEFINE o == [op |-> "resetTransp", next |-> h.next + 1]
               ops == UaRegister(u) \o <<o>>
    <3>1. h.next + 1 \in Nat
      BY <2>1
    <3>2. o \in Ops /\ o.op = "resetTransp" /\ ops \in Seq(Ops)
      BY <3>1, Scripts DEF Ops
    <3>3. \A S : Has(ops, S) <=> Has(UaRegister(u), S) \/ o \in S
      BY <3>1, Contents
    <3>4. Continue(t, ops)
      BY <2>3
    <3> HIDE DEF o
    <3>5. /\ o \notin Telling /\ o \notin Verdicts /\ o \notin MainOps
          /\ \A k \in {"setUa", "ua_alloc", "sendUnregister", "clearUa"} : o \notin Named(k)
      BY <3>2 DEF Telling, Verdicts, MainOps, Named
    <3>6. <<o>> \in Seq(Ops) /\ Followed(<<o>>, Telling, Sending)
      BY <3>2, <3>5, HasSmall, FollowedSmall, ShortScripts
    <3>7. Followed(ops, Telling, Sending)
      BY <1>4, <3>6, FollowedConcat
    <3> HIDE DEF ops
    <3>8. Pushes(h, ops)
      <4>1. /\ ~ Has(ops, MainOps) /\ ~ Has(ops, Verdicts) /\ ~ Has(ops, Named("setUa"))
            /\ ~ Has(ops, Named("ua_alloc") \union Named("sendUnregister") \union Named("clearUa"))
        BY <1>4, <3>3, <3>5
      <4> QED  BY <2>1, <3>7, <4>1 DEF Pushes
    <3> QED  BY <3>2, <3>4, <3>8
  <2>4. h.next \in 1 .. Len(uag) => uag[h.next] \in Uas
    BY ElementOfSeq DEF TypeOK
  <2> QED  BY <1>1, <1>12, <2>2, <2>3, <2>4 DEF ResetTransp, h
<1>13. CASE Registry(t)
  <2>1. h.op = "registry"
    BY <1>13 DEF Registry, At, h
  <2>2. CASE ua = NoUa
    BY <1>1, <1>2, <1>13, <2>2 DEF Registry, h
  <2>3. CASE ua # NoUa
    <3>1. ua \in Uas /\ Continue(t, UaRegister(ua))
      BY <1>13, <2>3 DEF Registry, TypeOK
    <3>2. Pushes(h, UaRegister(ua))
      BY <1>4, <2>1, <3>1 DEF Pushes
    <3> QED  BY <1>1, <1>4, <3>1, <3>2 DEF h
  <2> QED  BY <2>2, <2>3
<1> QED  BY <1>1, <1>5, <1>6, <1>7, <1>8, <1>9, <1>10, <1>11, <1>12, <1>13 DEF Step, h

(* What a handler starts with.                                             *)
Starts(t, ops) ==
    /\ t = "re" => \E e \in Events : ops = <<[op |-> "uaEvent", event |-> e]>>
    /\ t # "re" => ~ Has(ops, Verdicts) /\ Followed(ops, Telling, Sending)
    /\ t # "main" => ~ Has(ops, MainOps)
    /\ ~ Has(ops, Named("setUa"))
    /\ Final(ops, Named("ua_alloc"))
    /\ Followed(ops, Named("sendUnregister"), Named("clearUa"))

\* What the handlers do that are called from outside.
Handlers ==
    \/ InitSipModule \/ RefreshSipAccount \/ UnregisterSipAccount
    \/ HotSpotDisabled \/ Detach \/ Deliver
    \/ \E t \in NetThreads : NetworkCallback(t) \/ HotSpotTimer(t)
    \/ \E tr \in Transactions : Answer(tr)
    \/ \E u \in Uas : PeriodicRefresh(u)

(* The scripts of giving up an account.                                    *)
LEMMA UnregisterStarts ==
    ASSUME NEW u \in Uas
    PROVE  /\ Unregister(u) \in Seq(Ops)
           /\ Starts("main", Unregister(u))
           /\ Unregister(u) \o <<[op |-> "ua_alloc"]>> \in Seq(Ops)
           /\ Starts("main", Unregister(u) \o <<[op |-> "ua_alloc"]>>)
<1> DEFINE a == [op |-> "uaEvent", event |-> "unregistering"]
           b == [op |-> "sendUnregister", ua |-> u]
           c == [op |-> "clearUa"]
           d == [op |-> "ua_alloc"]
<1>1. a \in Ops /\ b \in Ops /\ c \in Ops /\ d \in Ops
  BY DEF Ops, Events
<1>2. /\ a \notin Verdicts /\ b \notin Verdicts /\ c \notin Verdicts /\ d \notin Verdicts
      /\ b \notin Telling /\ c \notin Telling /\ d \notin Telling
      /\ b \in Sending
  BY <1>1 DEF Verdicts, Telling, Sending
<1>3. /\ a \notin Named("setUa") /\ b \notin Named("setUa") /\ c \notin Named("setUa")
      /\ d \notin Named("setUa")
      /\ a \notin Named("ua_alloc") /\ b \notin Named("ua_alloc") /\ c \notin Named("ua_alloc")
      /\ a \notin Named("sendUnregister") /\ c \notin Named("sendUnregister")
      /\ d \notin Named("sendUnregister") /\ c \in Named("clearUa")
  BY <1>1 DEF Named
<1>4. Unregister(u) = <<a, b>> \o <<c>>
  BY DEF Unregister, UaUnregister
<1>5. \A S : /\ Has(Unregister(u), S) <=> a \in S \/ b \in S \/ c \in S
             /\ Has(Unregister(u) \o <<d>>, S) <=> Has(Unregister(u), S) \/ d \in S
  BY Contents
<1> HIDE DEF a, b, c, d
<1>6. <<a, b>> \in Seq(Ops) /\ <<c>> \in Seq(Ops) /\ <<d>> \in Seq(Ops)
      /\ Unregister(u) \in Seq(Ops) /\ Unregister(u) \o <<d>> \in Seq(Ops)
  <2>1. <<a, b>> \in Seq(Ops) /\ <<c>> \in Seq(Ops) /\ <<d>> \in Seq(Ops)
    BY <1>1, ShortScripts
  <2>2. Unregister(u) \in Seq(Ops)
    BY <1>4, <2>1, ConcatProperties
  <2> QED  BY <2>1, <2>2, ConcatProperties
<1>7. \A S : /\ Has(<<c>>, S) <=> c \in S
             /\ Has(<<d>>, S) <=> d \in S
             /\ Has(<<a, b>>, S) <=> a \in S \/ b \in S
  BY HasSmall
<1>8. Followed(Unregister(u), Telling, Sending)
  <2>1. Followed(<<a, b>>, Telling, Sending)
    BY <1>2, FollowedSmall
  <2>2. Followed(<<c>>, Telling, Sending)
    BY <1>2, <1>7, FollowedSmall
  <2> QED  BY <1>4, <1>6, <2>1, <2>2, FollowedConcat
<1>9. Followed(Unregister(u) \o <<d>>, Telling, Sending)
  <2>1. Followed(<<d>>, Telling, Sending)
    BY <1>2, <1>7, FollowedSmall
  <2> QED  BY <1>6, <1>8, <2>1, FollowedConcat
<1>10. Followed(Unregister(u), Named("sendUnregister"), Named("clearUa"))
  <2>1. Has(<<c>>, Named("clearUa")) /\ ~ Has(<<c>>, Named("sendUnregister"))
    BY <1>3, <1>7
  <2>2. Followed(<<c>>, Named("sendUnregister"), Named("clearUa"))
    BY <2>1, FollowedSmall
  <2> QED  BY <1>4, <1>6, <2>1, <2>2, FollowedConcat
<1>11. Followed(Unregister(u) \o <<d>>, Named("sendUnregister"), Named("clearUa"))
  <2>1. Followed(<<d>>, Named("sendUnregister"), Named("clearUa"))
    BY <1>3, <1>7, FollowedSmall
  <2> QED  BY <1>6, <1>10, <2>1, FollowedConcat
<1>12. ~ Has(Unregister(u), Named("ua_alloc"))
  BY <1>3, <1>5
<1>13. Final(Unregister(u), Named("ua_alloc")) /\ Final(Unregister(u) \o <<d>>, Named("ua_alloc"))
  BY <1>6, <1>12, FinalConcat, FinalSmall
<1>14. Starts("main", Unregister(u))
  BY <1>2, <1>3, <1>5, <1>8, <1>10, <1>13 DEF Starts
<1>15. Starts("main", Unregister(u) \o <<d>>)
  BY <1>2, <1>3, <1>5, <1>9, <1>11, <1>13 DEF Starts
<1> QED  BY <1>6, <1>14, <1>15 DEF d

LEMMA HandlerStarts ==
    ASSUME TypeOK, Handlers
    PROVE  \/ UNCHANGED todo
           \/ \E t \in Threads : \E ops \in Seq(Ops) : Start(t, ops) /\ Starts(t, ops)
<1>1. ASSUME NEW k \in {"ua_alloc", "updateNetwork", "registry"}, NEW t \in Threads, t # "re",
             t # "main" => k = "updateNetwork"
      PROVE  <<[op |-> k]>> \in Seq(Ops) /\ Starts(t, <<[op |-> k]>>)
  <2> DEFINE o == [op |-> k]
  <2>1. /\ o \in Ops /\ o \notin Telling /\ o \notin Verdicts
        /\ o \notin Named("setUa") /\ o \notin Named("sendUnregister")
        /\ t # "main" => o \notin MainOps
    BY <1>1 DEF Ops, Telling, Verdicts, Named, MainOps
  <2> HIDE DEF o
  <2>2. \A S : Has(<<o>>, S) <=> o \in S
    BY HasSmall
  <2>3. /\ Followed(<<o>>, Telling, Sending)
        /\ Followed(<<o>>, Named("sendUnregister"), Named("clearUa"))
        /\ Final(<<o>>, Named("ua_alloc"))
    BY <2>1, <2>2, FollowedSmall, FinalSmall
  <2>4. Starts(t, <<o>>) /\ <<o>> \in Seq(Ops)
    BY <1>1, <2>1, <2>2, <2>3, ShortScripts DEF Starts
  <2> QED  BY <2>4 DEF o
<1>2. "main" \in Threads /\ "main" # "re" /\ \A t \in NetThreads : t \in Threads /\ t # "re"
  BY ThreadNames, NetThreadsAssumption
<1>3. CASE InitSipModule
  <2>1. CASE ua # NoUa
    BY <1>2, <1>3, <2>1, UnregisterStarts DEF InitSipModule, TypeOK
  <2>2. CASE ua = NoUa
    BY <1>1, <1>2, <1>3, <2>2 DEF InitSipModule
  <2> QED  BY <2>1, <2>2
<1>4. CASE RefreshSipAccount
  BY <1>1, <1>2, <1>4 DEF RefreshSipAccount
<1>5. CASE UnregisterSipAccount
  BY <1>2, <1>5, UnregisterStarts DEF UnregisterSipAccount, TypeOK
<1>6. CASE HotSpotDisabled
  BY <1>1, <1>2, <1>6 DEF HotSpotDisabled
<1>7. CASE Detach \/ Deliver \/ \E u \in Uas : PeriodicRefresh(u)
  BY <1>7 DEF Detach, Deliver, PeriodicRefresh
<1>8. ASSUME NEW t \in NetThreads, NetworkCallback(t) \/ HotSpotTimer(t)
      PROVE  \E ops \in Seq(Ops) : Start(t, ops) /\ Starts(t, ops)
  BY <1>1, <1>2, <1>8 DEF NetworkCallback, HotSpotTimer
<1>9. ASSUME NEW tr \in Transactions, Answer(tr)
      PROVE  \E ops \in Seq(Ops) : Start("re", ops) /\ Starts("re", ops)
  <2>1. PICK e \in Events : Start("re", <<[op |-> "uaEvent", event |-> e]>>)
    BY <1>9 DEF Answer, Events
  <2> DEFINE o == [op |-> "uaEvent", event |-> e]
  <2>2. /\ o \in Ops /\ o \notin MainOps /\ o \notin Named("setUa")
        /\ o \notin Named("ua_alloc") /\ o \notin Named("sendUnregister")
    BY DEF Ops, MainOps, Named
  <2>3. \E f \in Events : <<o>> = <<[op |-> "uaEvent", event |-> f]>>
    OBVIOUS
  <2>4. Start("re", <<o>>)
    BY <2>1
  <2> HIDE DEF o
  <2>5. \A S : Has(<<o>>, S) <=> o \in S
    BY HasSmall
  <2>6. /\ Followed(<<o>>, Named("sendUnregister"), Named("clearUa"))
        /\ Final(<<o>>, Named("ua_alloc"))
    BY <2>2, <2>5, FollowedSmall, FinalSmall
  <2>7. Starts("re", <<o>>) /\ <<o>> \in Seq(Ops)
    BY <2>2, <2>3, <2>5, <2>6, ShortScripts DEF Starts
  <2> QED  BY <2>4, <2>7
<1> QED  BY <1>2, <1>3, <1>4, <1>5, <1>6, <1>7, <1>8, <1>9, ThreadNames DEF Handlers

(* The scripts keep their shapes, whatever is called and done.             *)
LEMMA ScriptsKept ==
    ASSUME ScriptsInv, "register" \notin Faults, [Next]_vars
    PROVE  ScriptsInv'
<1>1. TypeOK'
  <2>1. CASE Next
    BY <2>1, HandlerType, StepType DEF Next, ScriptsInv
  <2>2. CASE UNCHANGED vars
    BY <2>2 DEF ScriptsInv, TypeOK, vars, kotlin, registrar, app
  <2> QED  BY <2>1, <2>2
<1>2. Next => Handlers \/ \E t \in Threads : Step(t)
  BY DEF Next, Handlers
<1>3. /\ MainOps' = MainOps /\ Telling' = Telling /\ Sending' = Sending /\ Verdicts' = Verdicts
      /\ Named("setUa")' = Named("setUa") /\ Named("ua_alloc")' = Named("ua_alloc")
      /\ Named("sendUnregister")' = Named("sendUnregister") /\ Named("clearUa")' = Named("clearUa")
  OBVIOUS
<1>4. "main" # "re" /\ "main" \in Threads /\ "re" \in Threads
  BY ThreadNames
<1>5. CASE UNCHANGED todo
  BY <1>1, <1>5 DEF ScriptsInv
<1>6. ASSUME NEW t \in Threads, NEW ops \in Seq(Ops), Start(t, ops), Starts(t, ops)
      PROVE  ScriptsInv'
  <2>1. todo'[t] = ops /\ \A v \in Threads : v # t => todo'[v] = todo[v]
    BY <1>6 DEF Start, ScriptsInv, TypeOK
  <2>2. ReReports(todo'["re"])
    BY <1>4, <1>6, <2>1 DEF Starts, ReReports, ScriptsInv
  <2>3. \A v \in Threads \ {"re"} : ~ Has(todo'[v], Verdicts) /\ Followed(todo'[v], Telling, Sending)
    <3> TAKE v \in Threads \ {"re"}
    <3>1. CASE v = t  BY <1>6, <2>1, <3>1 DEF Starts
    <3>2. CASE v # t  BY <2>1, <3>2 DEF ScriptsInv
    <3> QED  BY <3>1, <3>2
  <2>4. \A v \in Threads \ {"main"} : ~ Has(todo'[v], MainOps)
    <3> TAKE v \in Threads \ {"main"}
    <3>1. CASE v = t  BY <1>6, <2>1, <3>1 DEF Starts
    <3>2. CASE v # t  BY <2>1, <3>2 DEF ScriptsInv
    <3> QED  BY <3>1, <3>2
  <2>5. /\ Has(todo'["main"], Named("setUa")) => Tail(todo'["main"]) = <<>>
        /\ Final(todo'["main"], Named("ua_alloc"))
        /\ Followed(todo'["main"], Named("sendUnregister"), Named("clearUa"))
    <3>1. CASE t = "main"  BY <1>6, <2>1, <3>1 DEF Starts
    <3>2. CASE t # "main"
      <4>1. todo'["main"] = todo["main"]  BY <1>4, <2>1, <3>2
      <4> QED  BY <4>1 DEF ScriptsInv
    <3> QED  BY <3>1, <3>2
  <2> QED  BY <1>1, <2>2, <2>3, <2>4, <2>5 DEF ScriptsInv
<1>7. ASSUME NEW t \in Threads, Step(t)
      PROVE  ScriptsInv'
  <2> DEFINE h == Head(todo[t])
             rest == Tail(todo[t])
  <2>1. /\ todo[t] \in Seq(Ops) /\ todo[t] # <<>> /\ h \in Ops /\ rest \in Seq(Ops)
        /\ \E ops \in Seq(Ops) : Continue(t, ops) /\ Pushes(h, ops)
    BY <1>7, StepPushes, HeadTailProperties DEF ScriptsInv
  <2>2. PICK ops \in Seq(Ops) : Continue(t, ops) /\ Pushes(h, ops)
    BY <2>1
  <2>3. todo'[t] = ops \o rest /\ \A v \in Threads : v # t => todo'[v] = todo[v]
    BY <2>2 DEF Continue, ScriptsInv, TypeOK
  <2>4. \A S : /\ Has(ops \o rest, S) <=> Has(ops, S) \/ Has(rest, S)
               /\ Has(todo[t], S) <=> h \in S \/ Has(rest, S)
    BY <2>1, HasContinue
  <2>5. \A v \in Threads \ {"main"} : ~ Has(todo'[v], MainOps)
    BY <2>2, <2>3, <2>4 DEF ScriptsInv, Pushes
  <2> HIDE DEF h, rest
  <2>6. ReReports(todo'["re"])
    <3>1. CASE t # "re"
      BY <1>4, <2>3, <3>1 DEF ScriptsInv
    <3>2. CASE t = "re"
      <4>1. ReReports(todo[t]) /\ todo'["re"] = ops \o rest
        BY <2>3, <3>2 DEF ScriptsInv
      <4>2. ASSUME NEW e \in Events, todo[t] = <<[op |-> "uaEvent", event |-> e]>>
            PROVE  ReReports(ops \o rest)
        <5>1. h.op = "uaEvent" /\ rest = <<>>
          BY <4>2 DEF h, rest
        <5>2. ops \o rest = ops
          BY <5>1
        <5> QED  BY <2>2, <5>1, <5>2 DEF Pushes, ReReports
      <4>3. ASSUME NEW x \in States, todo[t] = SendAccountEvent(x)
            PROVE  ReReports(ops \o rest)
        <5>1. h.op = "cacheState" /\ rest = <<[op |-> "postEvent", state |-> x]>>
          BY <4>3 DEF h, rest, SendAccountEvent
        <5>2. ops \o rest = <<[op |-> "postEvent", state |-> x]>>
          BY <2>2, <5>1 DEF Pushes
        <5> QED  BY <5>2 DEF ReReports
      <4>4. ASSUME NEW x \in States, todo[t] = <<[op |-> "postEvent", state |-> x]>>
            PROVE  ReReports(ops \o rest)
        <5>1. h.op = "postEvent" /\ rest = <<>>
          BY <4>4 DEF h, rest
        <5>2. ops \o rest = <<>>
          BY <2>2, <5>1 DEF Pushes
        <5> QED  BY <5>2 DEF ReReports
      <4> QED  BY <2>1, <4>1, <4>2, <4>3, <4>4 DEF ReReports
    <3> QED  BY <3>1, <3>2
  <2>7. \A v \in Threads \ {"re"} : ~ Has(todo'[v], Verdicts) /\ Followed(todo'[v], Telling, Sending)
    <3>1. CASE t = "re"
      BY <2>3, <3>1 DEF ScriptsInv
    <3>2. CASE t # "re"
      <4>1. ~ Has(todo[t], Verdicts) /\ Followed(todo[t], Telling, Sending)
        BY <3>2 DEF ScriptsInv
      <4>2. ~ Has(todo'[t], Verdicts)
        BY <2>2, <2>3, <2>4, <4>1 DEF Pushes
      <4>3. Followed(rest, Telling, Sending) /\ (h \in Telling => Has(rest, Sending))
        BY <2>1, <4>1, FollowedTail DEF h, rest
      <4>4. h.op = "uaEvent" => h \in Telling
        BY <2>1 DEF Telling
      <4>5. Followed(todo'[t], Telling, Sending)
        BY <2>1, <2>2, <2>3, <4>3, <4>4, FollowedConcat DEF Pushes
      <4> QED  BY <2>3, <4>2, <4>5 DEF ScriptsInv
    <3> QED  BY <3>1, <3>2
  <2>8. /\ Has(todo'["main"], Named("setUa")) => Tail(todo'["main"]) = <<>>
        /\ Final(todo'["main"], Named("ua_alloc"))
        /\ Followed(todo'["main"], Named("sendUnregister"), Named("clearUa"))
    <3>1. CASE t # "main"
      <4>1. todo'["main"] = todo["main"]  BY <1>4, <2>3, <3>1
      <4> QED  BY <4>1 DEF ScriptsInv
    <3>2. CASE t = "main"
      <4>1. /\ Has(todo[t], Named("setUa")) => rest = <<>>
            /\ Final(todo[t], Named("ua_alloc"))
            /\ Followed(todo[t], Named("sendUnregister"), Named("clearUa"))
        BY <3>2 DEF ScriptsInv, rest
      <4>2. /\ ~ Has(ops, Named("ua_alloc"))
            /\ ~ Has(ops, Named("sendUnregister"))
        BY <2>2 DEF Pushes, Has
      <4>3. Final(ops \o rest, Named("ua_alloc")) /\ (h.op = "ua_alloc" => rest = <<>>)
        <5>1. h.op = "ua_alloc" => h \in Named("ua_alloc")
          BY <2>1 DEF Named
        <5> QED  BY <2>1, <4>1, <4>2, <5>1, FinalContinue DEF h, rest
      <4>4. Followed(ops \o rest, Named("sendUnregister"), Named("clearUa"))
        <5>1. Followed(ops, Named("sendUnregister"), Named("clearUa"))
          BY <4>2, FollowedSmall
        <5>2. Followed(rest, Named("sendUnregister"), Named("clearUa"))
          BY <2>1, <4>1, FollowedTail DEF rest
        <5> QED  BY <2>1, <5>1, <5>2, FollowedConcat
      <4>5. Has(ops \o rest, Named("setUa")) => Tail(ops \o rest) = <<>>
        <5>1. CASE Has(rest, Named("setUa"))
          <6>1. rest = <<>>  BY <2>4, <4>1, <5>1
          <6> QED  BY <5>1, <6>1, HasSmall
        <5>2. CASE Has(ops, Named("setUa"))
          <6>1. h.op = "ua_alloc"  BY <2>2, <5>2 DEF Pushes
          <6>2. rest = <<>> /\ ops # <<>> /\ Tail(ops) = <<>>
            BY <2>2, <4>3, <5>2, <6>1, HasSmall DEF Pushes
          <6>3. ops \o rest = ops  BY <6>2
          <6> QED  BY <6>2, <6>3
        <5> QED  BY <2>4, <5>1, <5>2
      <4> QED  BY <2>3, <3>2, <4>3, <4>4, <4>5
    <3> QED  BY <3>1, <3>2
  <2> QED  BY <1>1, <2>5, <2>6, <2>7, <2>8 DEF ScriptsInv
<1>8. UNCHANGED vars => UNCHANGED todo
  BY DEF vars
<1>9. TypeOK
  BY DEF ScriptsInv
<1> QED  BY <1>2, <1>5, <1>6, <1>7, <1>8, <1>9, HandlerStarts

LEMMA ScriptsInit ==
    ASSUME Init
    PROVE  ScriptsInv
<1>1. TypeOK
  BY Scripts DEF Init, TypeOK, States
<1>2. \A t \in Threads : todo[t] = <<>>
  BY DEF Init
<1>3. \A A : /\ ~ Has(<<>>, A) /\ Final(<<>>, A)
             /\ \A B : Followed(<<>>, A, B)
  BY HasSmall, FollowedSmall, FinalSmall
<1> QED  BY <1>1, <1>2, <1>3, ThreadNames DEF ScriptsInv, ReReports

-----------------------------------------------------------------------------
(* Dart agrees with the cache.                                             *)

\* Operations that come before a post.
Deciding == {o \in Ops : o.op \in {"uaEvent", "cacheState"}}

\* Something is under way that will end in a report.
Resolving ==
    \/ pending # {}
    \/ \E t \in Threads : Has(todo[t], Sending)
    \/ Has(todo["re"], Deciding)

(* Threads may write the cache in one order and post in another.  They do  *)
(* not all do so at the end: as long as a report of the other threads is   *)
(* under way, so is what they announce, and the baresip thread reports     *)
(* that last; it posts what it has cached.                                 *)
AgreeInv ==
    /\ ScriptsInv
    /\ NoStuckInv
    /\ isRunning /\ ~ Resolving =>
          IF Idle("re") THEN Reported = cacheStateAccount
                        ELSE Head(todo["re"]).state = cacheStateAccount

(* Which action a step is, by the operation that the thread is at.         *)
LEMMA StepNames ==
    ASSUME NEW t \in Threads, Step(t), NEW h, h = Head(todo[t])
    PROVE  \/ h.op = "uaEvent" /\ UaEvent(t)
           \/ h.op = "cacheState" /\ CacheState(t)
           \/ h.op = "postEvent" /\ PostEvent(t)
           \/ h.op = "sendRegister" /\ SendRegister(t)
           \/ h.op = "sendUnregister" /\ SendUnregister(t)
           \/ h.op = "clearUa" /\ ClearUa(t)
           \/ h.op = "ua_alloc" /\ UaAlloc(t)
           \/ h.op = "setUa" /\ SetUa(t)
           \/ /\ h.op \in {"setAudioCodecs", "updateNetwork", "resetTransp", "registry"}
              /\ UNCHANGED <<kotlin, registrar, app>>
<1>1. \/ UaEvent(t) \/ CacheState(t) \/ PostEvent(t)
      \/ SendRegister(t) \/ SendUnregister(t) \/ ClearUa(t)
      \/ UaAlloc(t) \/ SetUa(t) \/ SetAudioCodecs(t)
      \/ UpdateNetwork(t) \/ ResetTransp(t) \/ Registry(t)
  BY DEF Step
<1>2. UaEvent(t) => h.op = "uaEvent"  BY DEF UaEvent, At
<1>3. CacheState(t) => h.op = "cacheState"  BY DEF CacheState, At
<1>4. PostEvent(t) => h.op = "postEvent"  BY DEF PostEvent, At
<1>5. SendRegister(t) => h.op = "sendRegister"  BY DEF SendRegister, At
<1>6. SendUnregister(t) => h.op = "sendUnregister"  BY DEF SendUnregister, At
<1>7. ClearUa(t) => h.op = "clearUa"  BY DEF ClearUa, At
<1>8. UaAlloc(t) => h.op = "ua_alloc"  BY DEF UaAlloc, At
<1>9. SetUa(t) => h.op = "setUa"  BY DEF SetUa, At
<1>10. SetAudioCodecs(t) \/ UpdateNetwork(t) \/ ResetTransp(t) \/ Registry(t) =>
          /\ h.op \in {"setAudioCodecs", "updateNetwork", "resetTransp", "registry"}
          /\ UNCHANGED <<kotlin, registrar, app>>
  BY DEF SetAudioCodecs, UpdateNetwork, ResetTransp, Registry, At
<1> QED  BY <1>1, <1>2, <1>3, <1>4, <1>5, <1>6, <1>7, <1>8, <1>9, <1>10

(* What Dart was told last does not change when an event reaches it.       *)
LEMMA DeliverReports ==
    ASSUME TypeOK, isRunning, Deliver
    PROVE  Reported' = Reported
<1>1. /\ looper \in Seq(States) /\ looper # <<>> /\ looper' = Tail(looper)
      /\ shown' = Head(looper)
  BY DEF TypeOK, Deliver
<1>2. /\ Len(Tail(looper)) = Len(looper) - 1 /\ Len(looper) \in Nat \ {0}
      /\ Tail(looper) \in Seq(States) /\ Head(looper) = looper[1]
      /\ \A i \in 1 .. Len(Tail(looper)) : Tail(looper)[i] = looper[i + 1]
  BY <1>1, HeadTailProperties, LenProperties, EmptySeq
<1>3. CASE Tail(looper) = <<>>
  <2>1. Len(Tail(looper)) = 0 /\ Len(Tail(looper)) = Len(looper) - 1 /\ Len(looper) \in Nat
    BY <1>2, <1>3
  <2>2. Len(looper) = 1
    BY <2>1
  <2> QED  BY <1>1, <1>2, <1>3, <2>2 DEF Reported
<1>4. CASE Tail(looper) # <<>>
  <2>1. Len(Tail(looper)) \in 1 .. Len(Tail(looper))
    BY <1>2, <1>4, EmptySeq
  <2>2. Tail(looper)[Len(Tail(looper))] = looper[Len(looper)]
    BY <1>2, <2>1
  <2> QED  BY <1>1, <1>4, <2>2 DEF Reported
<1> QED  BY <1>3, <1>4

(* The invariant of the cache and the posts is kept.                       *)
LEMMA AgreeKept ==
    ASSUME AgreeInv, [Next]_vars,
           "codecs" \notin Faults, "unregister" \notin Faults, "register" \notin Faults
    PROVE  AgreeInv'
<1>1. ScriptsInv' /\ NoStuckInv'
  BY ScriptsKept, NoStuckKept DEF AgreeInv
<1> SUFFICES ASSUME isRunning', ~ Resolving'
             PROVE  (IF Idle("re") THEN Reported = cacheStateAccount
                                   ELSE Head(todo["re"]).state = cacheStateAccount)'
  BY <1>1 DEF AgreeInv
<1>2. /\ pending' = {} /\ \A v \in Threads : ~ Has(todo'[v], Sending)
      /\ ~ Has(todo'["re"], Deciding)
  <2>1. Sending' = Sending /\ Deciding' = Deciding
    OBVIOUS
  <2> QED  BY <2>1 DEF Resolving
<1>3. TypeOK /\ "re" \in Threads /\ "main" # "re" /\ \A v \in NetThreads : v # "re"
  BY ThreadNames, NetThreadsAssumption DEF AgreeInv, ScriptsInv
<1>4. ASSUME ~ Resolving, UNCHANGED <<cacheStateAccount, isRunning, looper, shown>>,
             todo'["re"] = todo["re"]
      PROVE  (IF Idle("re") THEN Reported = cacheStateAccount
                            ELSE Head(todo["re"]).state = cacheStateAccount)'
  BY <1>4 DEF AgreeInv, Idle, Reported
<1>5. CASE UNCHANGED vars
  <2>1. ~ Resolving
    BY <1>2, <1>5 DEF Resolving, vars, registrar
  <2> QED  BY <1>4, <1>5, <2>1 DEF vars, kotlin, app
<1>6. ASSUME NEW t \in Threads, t # "re", NEW ops, Start(t, ops),
             UNCHANGED <<cacheStateAccount, isRunning, pending, looper, shown>>
      PROVE  (IF Idle("re") THEN Reported = cacheStateAccount
                            ELSE Head(todo["re"]).state = cacheStateAccount)'
  <2>1. todo[t] = <<>> /\ \A v \in Threads : v # t => todo'[v] = todo[v]
    BY <1>3, <1>6 DEF Start, Idle, TypeOK
  <2>2. \A v \in Threads : ~ Has(todo[v], Sending)
    BY <1>2, <2>1, HasSmall
  <2>3. ~ Resolving
    BY <1>2, <1>3, <1>6, <2>1, <2>2 DEF Resolving
  <2> QED  BY <1>3, <1>4, <1>6, <2>1, <2>3
<1>7. CASE Handlers
  <2>1. CASE InitSipModule
    BY <1>3, <1>6, <2>1, ThreadNames DEF InitSipModule, kotlin, registrar, app
  <2>2. CASE RefreshSipAccount
    BY <1>3, <1>6, <2>2, ThreadNames DEF RefreshSipAccount, kotlin, registrar, app
  <2>3. CASE UnregisterSipAccount
    BY <1>3, <1>6, <2>3, ThreadNames DEF UnregisterSipAccount, kotlin, registrar, app
  <2>4. CASE HotSpotDisabled
    BY <1>3, <1>6, <2>4, ThreadNames DEF HotSpotDisabled, kotlin, registrar, app
  <2>5. CASE Detach
    BY <2>5 DEF Detach
  <2>6. CASE Deliver
    <3>1. /\ UNCHANGED <<cacheStateAccount, isRunning, pending, todo>>
          /\ isRunning
      BY <2>6 DEF Deliver, kotlin, registrar
    <3>2. ~ Resolving
      BY <1>2, <3>1 DEF Resolving
    <3> QED  BY <1>3, <2>6, <3>1, <3>2, DeliverReports DEF AgreeInv, Idle
  <2>7. ASSUME NEW t \in NetThreads, NetworkCallback(t) \/ HotSpotTimer(t)
        PROVE  (IF Idle("re") THEN Reported = cacheStateAccount
                              ELSE Head(todo["re"]).state = cacheStateAccount)'
    BY <1>3, <1>6, <2>7, ThreadNames DEF NetworkCallback, HotSpotTimer, kotlin, registrar, app
  <2>8. ASSUME NEW tr \in Transactions, Answer(tr)
        PROVE  FALSE
    <3>1. PICK e \in Events : Start("re", <<[op |-> "uaEvent", event |-> e]>>)
      BY <2>8 DEF Answer, Events
    <3>2. todo'["re"] = <<[op |-> "uaEvent", event |-> e]>>
      BY <1>3, <3>1 DEF Start, TypeOK
    <3> DEFINE o == [op |-> "uaEvent", event |-> e]
    <3>3. o \in Deciding /\ todo'["re"] = <<o>>
      BY <3>2 DEF Deciding, Ops
    <3> HIDE DEF o
    <3> QED  BY <1>2, <3>3, HasSmall
  <2>9. ASSUME NEW u \in Uas, PeriodicRefresh(u)
        PROVE  FALSE
    BY <1>2, <2>9 DEF PeriodicRefresh
  <2> QED  BY <1>7, <2>1, <2>2, <2>3, <2>4, <2>5, <2>6, <2>7, <2>8, <2>9 DEF Handlers
<1>8. ASSUME NEW t \in Threads, Step(t)
      PROVE  (IF Idle("re") THEN Reported = cacheStateAccount
                            ELSE Head(todo["re"]).state = cacheStateAccount)'
  <2> DEFINE h == Head(todo[t])
             rest == Tail(todo[t])
  <2>1. /\ todo[t] \in Seq(Ops) /\ todo[t] # <<>> /\ h \in Ops
        /\ \E ops \in Seq(Ops) : Continue(t, ops) /\ Pushes(h, ops)
    BY <1>3, <1>8, StepPushes
  <2>2. PICK ops \in Seq(Ops) : Continue(t, ops) /\ Pushes(h, ops)
    BY <2>1
  <2>3. todo'[t] = ops \o rest /\ \A v \in Threads : v # t => todo'[v] = todo[v]
    BY <1>3, <2>2 DEF Continue, TypeOK
  <2>4. /\ \A S : /\ Has(ops \o rest, S) <=> Has(ops, S) \/ Has(rest, S)
                  /\ Has(todo[t], S) <=> h \in S \/ Has(rest, S)
        /\ rest \in Seq(Ops)
    BY <2>1, HasContinue
  <2>5. ~ Has(rest, Sending) /\ ~ Has(ops, Sending) /\ ~ Has(ops \o rest, Sending)
    BY <1>2, <2>3, <2>4
  <2>6. h.op # "sendRegister"
    <3> SUFFICES ASSUME SendRegister(t)  PROVE FALSE
      BY <1>8, StepNames
    <3> QED  BY <1>2 DEF SendRegister
  <2>7. h.op # "sendUnregister"
    <3> SUFFICES ASSUME h.op = "sendUnregister", SendUnregister(t)  PROVE FALSE
      BY <1>8, StepNames
    <3>1. h \notin Futile
      BY <2>1, <2>4 DEF AgreeInv, NoStuckInv
    <3>2. wanted[h.ua] # "none"
      BY <2>1, <3>1 DEF Futile
    <3> QED  BY <1>2, <3>2 DEF SendUnregister
  <2>8. h \notin Sending
    BY <2>6, <2>7 DEF Sending
  <2>9. \A v \in Threads : ~ Has(todo[v], Sending)
    BY <1>2, <2>3, <2>4, <2>5, <2>8
  <2>10. CASE t # "re"
    <3>1. Followed(todo[t], Telling, Sending)
      BY <2>10 DEF AgreeInv, ScriptsInv
    <3>2. h \notin Telling
      BY <2>1, <2>5, <3>1, FollowedTail
    <3>3. h.op \notin {"uaEvent", "cacheState", "postEvent"}
      BY <2>1, <3>2 DEF Telling
    <3> HIDE DEF h
    <3>4. UNCHANGED <<cacheStateAccount, isRunning, pending, looper, shown>>
      <4>1. \/ ClearUa(t) \/ UaAlloc(t) \/ SetUa(t)
            \/ UNCHANGED <<kotlin, registrar, app>>
        BY <1>8, <2>6, <2>7, <3>3, StepNames DEF h
      <4> QED  BY <4>1 DEF ClearUa, UaAlloc, SetUa, kotlin, registrar, app
    <3>5. ~ Resolving
      BY <1>2, <1>3, <2>3, <2>9, <2>10, <3>4 DEF Resolving
    <3> QED  BY <1>3, <1>4, <2>3, <2>10, <3>4, <3>5
  <2>11. CASE t = "re"
    <3>1. ReReports(todo[t])
      BY <2>11 DEF AgreeInv, ScriptsInv
    <3>2. ASSUME NEW e \in Events, todo[t] = <<[op |-> "uaEvent", event |-> e]>>
          PROVE  FALSE
      <4>1. h.op = "uaEvent" /\ h.event = e
        BY <3>2
      <4>2. UaEvent(t)
        BY <1>8, <4>1, StepNames
      <4>3. isRunning /\ Continue(t, SendAccountEvent(ReportedState(e)))
        BY <4>1, <4>2 DEF UaEvent, kotlin
      <4>4. ReportedState(e) \in States
        BY DEF ReportedState, Events, States
      <4>5. rest = <<>>
        BY <3>2
      <4> DEFINE x == ReportedState(e)
      <4>6. todo'[t] = SendAccountEvent(x) \o rest
        BY <1>3, <4>3 DEF Continue, TypeOK
      <4> HIDE DEF x, rest
      <4>7. x \in States
        BY <4>4 DEF x
      <4>8. todo'["re"] = SendAccountEvent(x)
        BY <2>11, <4>5, <4>6 DEF SendAccountEvent
      <4>9. [op |-> "cacheState", state |-> x] \in Deciding
        BY <4>7 DEF Deciding, Ops
      <4>10. Has(SendAccountEvent(x), Deciding)
        BY <4>7, <4>9, Contents
      <4> QED  BY <1>2, <4>8, <4>10
    <3>3. ASSUME NEW x \in States, todo[t] = SendAccountEvent(x)
          PROVE  ~ Idle("re")' /\ Head(todo'["re"]).state = cacheStateAccount'
      <4>1. h = [op |-> "cacheState", state |-> x] /\ rest = <<[op |-> "postEvent", state |-> x]>>
        BY <3>3 DEF SendAccountEvent
      <4>2. CacheState(t) /\ ops = <<>>
        BY <1>8, <2>2, <4>1, StepNames DEF Pushes
      <4>3. cacheStateAccount' = x
        BY <4>1, <4>2 DEF CacheState
      <4>4. todo'["re"] = <<[op |-> "postEvent", state |-> x]>>
        <5> HIDE DEF rest
        <5>1. todo'["re"] = <<>> \o rest  BY <2>3, <2>11, <4>2
        <5> QED  BY <4>1, <5>1
      <4> QED  BY <4>3, <4>4 DEF Idle
    <3>4. ASSUME NEW x \in States, todo[t] = <<[op |-> "postEvent", state |-> x]>>
          PROVE  Idle("re")' /\ Reported' = cacheStateAccount'
      <4>1. h = [op |-> "postEvent", state |-> x] /\ rest = <<>>
        BY <3>4
      <4>2. PostEvent(t) /\ ops = <<>>
        BY <1>8, <2>2, <4>1, StepNames DEF Pushes
      <4>3. /\ UNCHANGED <<cacheStateAccount, isRunning, pending>>
            /\ looper' = Append(looper, x) /\ todo'["re"] = <<>>
        <5>1. h.state = x
          BY <4>1
        <5>2. UNCHANGED <<kotlin, registrar>> /\ looper' = Append(looper, h.state)
          BY <4>2 DEF PostEvent
        <5>3. rest = <<>> /\ ops = <<>>
          BY <4>1, <4>2
        <5> HIDE DEF h, rest
        <5>4. todo'["re"] = <<>> \o <<>>
          BY <2>3, <2>11, <5>3
        <5>5. UNCHANGED <<cacheStateAccount, isRunning, pending>>
          BY <5>2 DEF kotlin, registrar
        <5>6. <<>> \o <<>> = <<>>
          OBVIOUS
        <5>7. todo'["re"] = <<>>
          BY <5>4, <5>6
        <5> QED  BY <5>1, <5>2, <5>5, <5>7
      <4>4. ~ Has(todo["re"], Deciding)
        <5>1. h \notin Deciding
          BY <4>1 DEF Deciding
        <5>2. ~ Has(rest, Deciding)
          <6>1. rest = <<>>
            BY <4>1
          <6> HIDE DEF h, rest, Deciding
          <6> QED  BY <6>1, HasSmall
        <5> HIDE DEF h, rest
        <5> QED  BY <2>4, <2>11, <5>1, <5>2
      <4>5. ~ Resolving
        BY <1>2, <2>9, <4>3, <4>4 DEF Resolving
      <4>6. x = cacheStateAccount
        BY <2>1, <2>11, <4>1, <4>3, <4>5 DEF AgreeInv, Idle
      <4>7. looper \in Seq(States)
        BY <1>3 DEF TypeOK
      <4>8. looper' # <<>> /\ looper'[Len(looper')] = x
        BY <4>3, <4>7, AppendProperties
      <4>9. Reported' = x
        BY <4>8 DEF Reported
      <4> QED  BY <4>3, <4>6, <4>9 DEF Idle
    <3> HIDE DEF h, rest
    <3> QED  BY <2>1, <3>1, <3>2, <3>3, <3>4 DEF ReReports, Idle
  <2> QED  BY <2>10, <2>11
<1>9. Next => Handlers \/ \E t \in Threads : Step(t)
  BY DEF Next, Handlers
<1> QED  BY <1>5, <1>7, <1>8, <1>9

(* Dart and the cache agree at rest: with nothing under way, the event     *)
(* that Dart was told last, or will be, is the state that                  *)
(* getSipRegistrationState answers, although sendAccountEvent caches and   *)
(* posts in two steps on several threads.  Any number of accounts and      *)
(* network threads.  Where a REGISTER can fail on the spot, or where an    *)
(* un-REGISTER comes to nothing, it is not so.                             *)
THEOREM DartAgrees ==
    ASSUME "codecs" \notin Faults, "unregister" \notin Faults, "register" \notin Faults
    PROVE  Spec => []AppAgreesWithCache
<1>1. Init => AgreeInv
  <2> SUFFICES ASSUME Init  PROVE AgreeInv
    OBVIOUS
  <2>1. Idle("re") /\ Reported = cacheStateAccount
    BY ThreadNames DEF Init, Idle, Reported
  <2> QED  BY <2>1, ScriptsInit, NoStuckInit DEF AgreeInv
<1>2. AgreeInv /\ [Next]_vars => AgreeInv'
  BY AgreeKept
<1>3. AgreeInv => AppAgreesWithCache
  <2> SUFFICES ASSUME AgreeInv, Quiet, isRunning  PROVE Reported = cacheStateAccount
    BY DEF AppAgreesWithCache
  <2>1. pending = {} /\ \A t \in Threads : todo[t] = <<>>
    BY DEF Quiet, Idle
  <2>2. ~ Resolving
    BY <2>1, HasSmall, ThreadNames DEF Resolving
  <2> QED  BY <2>1, <2>2, ThreadNames DEF AgreeInv, Idle
<1> QED  BY <1>1, <1>2, <1>3, PTL DEF Spec

-----------------------------------------------------------------------------
(* Ok is honest with one account.                                          *)

\* The accounts that baresip lists.
Listed == {uag[i] : i \in 1 .. Len(uag)}

\* Operations on an account that is not in the list.
Unlisted == {o \in Ops : o.op \in {"sendRegister", "sendUnregister", "setUa"} /\ o.ua \notin Listed}

\* Operations of the baresip thread that lead to Ok, or to Failed.
ToOk ==
    {o \in Ops : \/ o.op = "uaEvent" /\ o.event = "registered"
                 \/ o.op = "cacheState" /\ o.state = "Ok"}
ToFailed ==
    {o \in Ops : \/ o.op = "uaEvent" /\ o.event = "registering failed"
                 \/ o.op = "cacheState" /\ o.state = "Failed"}

\* Account u is in use and not being given up, or about to be in use.
Kept(u) ==
    \/ ua = u /\ ~ Has(todo["main"], Named("clearUa"))
    \/ Has(todo["main"], Named("setUa"))

\* What is known of an account that was never given up.
Sound(u) ==
    /\ \A tr \in pending : tr.kind = "register"
    /\ wanted[u] # "unregister"
    /\ pending # {} \/ outcome[u] # "none" => wanted[u] = "register"
    /\ isRunning /\ (cacheStateAccount = "Ok" \/ Has(todo["re"], ToOk)) =>
          \/ outcome[u] = "ok"
          \/ pending # {}
          \/ \E t \in Threads : Has(todo[t], Named("sendRegister"))
          \/ Has(todo["re"], ToFailed)

\* Nothing is known, done or under way about an account that is not listed.
ListInv ==
    /\ ua \in Listed \union {NoUa}
    /\ \A tr \in pending : tr.ua \in Listed
    /\ \A u \in Uas \ Listed : wanted[u] = "none" /\ outcome[u] = "none"
    /\ \A t \in Threads : ~ Has(todo[t], Unlisted)

(* Whatever is done or under way is about accounts in baresip's list.  The *)
(* list does not shrink, so an only account that is in use was never given *)
(* up; if Ok is cached, or on its way, its REGISTER was answered with      *)
(* that, or another answer is on its way.                                  *)
HonestInv ==
    /\ ScriptsInv
    /\ ListInv
    /\ uag = <<>> => cacheStateAccount # "Ok" /\ todo["re"] = <<>>
    /\ \A u \in Uas : uag = <<u>> /\ Kept(u) => Sound(u)

(* The list and what happens to it.                                        *)
LEMMA Listing ==
    ASSUME TypeOK
    PROVE  /\ Listed \subseteq Uas
           /\ uag = <<>> => Listed = {}
           /\ \A u : uag = <<u>> => Listed = {u}
           /\ \A u \in Uas : uag' = Append(uag, u) =>
                 /\ Listed' = Listed \union {u}
                 /\ uag' # <<>>
                 /\ uag # <<>> => \A v : uag' # <<v>>
<1>1. uag \in Seq(Uas) /\ Len(uag) \in Nat /\ \A i \in 1 .. Len(uag) : uag[i] \in Uas
  BY LenProperties, ElementOfSeq DEF TypeOK
<1>2. Listed \subseteq Uas
  BY <1>1 DEF Listed
<1>3. uag = <<>> => Listed = {}
  BY DEF Listed
<1>4. \A u : uag = <<u>> => Listed = {u}
  BY DEF Listed
<1>5. ASSUME NEW u \in Uas, uag' = Append(uag, u)
      PROVE  Listed' = Listed \union {u} /\ uag' # <<>> /\ (uag # <<>> => \A v : uag' # <<v>>)
  <2>1. /\ Len(uag') = Len(uag) + 1 /\ uag'[Len(uag) + 1] = u
        /\ \A i \in 1 .. Len(uag) : uag'[i] = uag[i]
    BY <1>1, <1>5, AppendProperties
  <2>2. Listed' = {uag'[i] : i \in 1 .. Len(uag')}
    BY DEF Listed
  <2>3. ASSUME NEW w \in Listed'  PROVE w \in Listed \union {u}
    <3>1. PICK i \in 1 .. Len(uag') : w = uag'[i]
      BY <2>2, <2>3
    <3>2. CASE i = Len(uag) + 1
      BY <2>1, <3>1, <3>2
    <3>3. CASE i # Len(uag) + 1
      <4>1. i \in 1 .. Len(uag)  BY <1>1, <2>1, <3>1, <3>3
      <4> QED  BY <2>1, <3>1, <4>1 DEF Listed
    <3> QED  BY <3>2, <3>3
  <2>4. ASSUME NEW w \in Listed  PROVE w \in Listed'
    <3>1. PICK i \in 1 .. Len(uag) : w = uag[i]
      BY <2>4 DEF Listed
    <3>2. i \in 1 .. Len(uag') /\ w = uag'[i]
      BY <1>1, <2>1, <3>1
    <3> QED  BY <2>2, <3>2
  <2>5. u \in Listed'
    <3>1. Len(uag) + 1 \in 1 .. Len(uag')  BY <1>1, <2>1
    <3> QED  BY <2>1, <2>2, <3>1
  <2>6. uag' # <<>>
    BY <1>1, <2>1
  <2>7. ASSUME uag # <<>>, NEW v  PROVE uag' # <<v>>
    <3>1. Len(uag) # 0  BY <1>1, <2>7, EmptySeq
    <3>2. Len(uag') # 1  BY <1>1, <2>1, <3>1
    <3> QED  BY <3>2
  <2> QED  BY <2>3, <2>4, <2>5, <2>6, <2>7
<1> QED  BY <1>2, <1>3, <1>4, <1>5

(* What a step does to the list, and that it pushes nothing about others.  *)
LEMMA StepLists ==
    ASSUME TypeOK, ListInv, NEW t \in Threads, Step(t)
    PROVE  /\ \/ uag' = uag
              \/ Head(todo[t]).op = "ua_alloc" /\ \E u \in Uas : uag' = Append(uag, u)
           /\ Listed \subseteq Listed' /\ Unlisted' \subseteq Unlisted
           /\ ~ Has(todo'[t], Unlisted')
<1> DEFINE h == Head(todo[t])
           rest == Tail(todo[t])
<1>1. /\ todo[t] \in Seq(Ops) /\ todo[t] # <<>> /\ h \in Ops /\ rest \in Seq(Ops)
  <2>1. todo[t] # <<>>
    BY DEF Step, At, UaEvent, CacheState, PostEvent, SendRegister, SendUnregister,
           ClearUa, UaAlloc, SetUa, SetAudioCodecs, UpdateNetwork, ResetTransp, Registry
  <2>2. todo[t] \in Seq(Ops)
    BY DEF TypeOK
  <2> QED  BY <2>1, <2>2, HeadTailProperties
<1>2. /\ ~ Has(rest, Unlisted)
      /\ \A ops \in Seq(Ops) : \A S : Has(ops \o rest, S) <=> Has(ops, S) \/ Has(rest, S)
  <2>1. ~ Has(todo[t], Unlisted)
    BY DEF ListInv
  <2> QED  BY <1>1, <2>1, HasContinue
<1>3. \/ uag' = uag
      \/ h.op = "ua_alloc" /\ \E u \in Uas : uag' = Append(uag, u)
  BY StepNames DEF UaEvent, CacheState, PostEvent, SendRegister, SendUnregister, ClearUa,
     UaAlloc, SetUa, registrar
<1>4. Listed \subseteq Listed' /\ Unlisted' \subseteq Unlisted
  <2>1. Listed \subseteq Listed'
    <3>1. CASE uag' = uag  BY <3>1 DEF Listed
    <3>2. CASE \E u \in Uas : uag' = Append(uag, u)  BY <3>2, Listing
    <3> QED  BY <1>3, <3>1, <3>2
  <2> QED  BY <2>1 DEF Unlisted
<1> SUFFICES ~ Has(todo'[t], Unlisted')
  BY <1>3, <1>4
<1> HIDE DEF h, rest
<1>5. ASSUME NEW ops \in Seq(Ops), Continue(t, ops), ~ Has(ops, Unlisted')
      PROVE  ~ Has(todo'[t], Unlisted')
  <2>1. todo'[t] = ops \o rest
    BY <1>5 DEF Continue, TypeOK, rest
  <2>2. ~ Has(rest, Unlisted')
    BY <1>2, <1>4 DEF Has
  <2> QED  BY <1>2, <1>5, <2>1, <2>2
<1>6. \A S : ~ Has(<<>>, S)
  BY HasSmall
<1>7. \A o \in Ops : o.op \notin {"sendRegister", "sendUnregister", "setUa"} => o \notin Unlisted'
  BY DEF Unlisted
<1>8. ASSUME NEW u \in Uas, u \in Listed
      PROVE  UaRegister(u) \in Seq(Ops) /\ ~ Has(UaRegister(u), Unlisted')
  <2> DEFINE a == [op |-> "uaEvent", event |-> "registering"]
             b == [op |-> "sendRegister", ua |-> u]
  <2>1. a \notin Unlisted' /\ b \notin Unlisted'
    BY <1>4, <1>8 DEF Unlisted
  <2>2. \A S : Has(UaRegister(u), S) <=> a \in S \/ b \in S
    BY Contents
  <2> HIDE DEF a, b
  <2> QED  BY <2>1, <2>2, Scripts
<1>9. CASE UaEvent(t)
  <2>1. CASE isRunning
    <3> DEFINE x == ReportedState(h.event)
    <3>1. h.event \in Events
      BY <1>1, <1>9, OpFields DEF UaEvent, At, h
    <3>2. x \in States /\ Continue(t, SendAccountEvent(x))
      BY <1>9, <2>1, <3>1 DEF UaEvent, h, ReportedState, Events, States
    <3> HIDE DEF x
    <3> DEFINE a == [op |-> "cacheState", state |-> x]
               b == [op |-> "postEvent", state |-> x]
    <3>3. \A S : Has(SendAccountEvent(x), S) <=> a \in S \/ b \in S
      BY <3>2, Contents
    <3>4. a \notin Unlisted' /\ b \notin Unlisted'
      BY DEF Unlisted
    <3> HIDE DEF a, b
    <3> QED  BY <1>5, <3>2, <3>3, <3>4, Scripts
  <2>2. CASE ~ isRunning
    BY <1>5, <1>6, <1>9, <2>2, Scripts DEF UaEvent
  <2> QED  BY <2>1, <2>2
<1>10. CASE CacheState(t) \/ PostEvent(t) \/ SendUnregister(t) \/ ClearUa(t)
  BY <1>5, <1>6, <1>10, Scripts DEF CacheState, PostEvent, SendUnregister, ClearUa
<1>11. CASE SendRegister(t)
  <2>1. CASE Continue(t, <<>>)
    BY <1>5, <1>6, <2>1, Scripts
  <2>2. CASE Continue(t, <<[op |-> "uaEvent", event |-> "registering failed"]>>)
    <3> DEFINE o == [op |-> "uaEvent", event |-> "registering failed"]
    <3>1. o \in Ops /\ o \notin Unlisted'
      BY DEF Ops, Events, Unlisted
    <3>2. Continue(t, <<o>>)
      BY <2>2
    <3> HIDE DEF o
    <3>3. <<o>> \in Seq(Ops) /\ ~ Has(<<o>>, Unlisted')
      BY <3>1, HasSmall, ShortScripts
    <3> QED  BY <1>5, <3>2, <3>3
  <2> QED  BY <1>11, <2>1, <2>2 DEF SendRegister
<1>12. CASE UaAlloc(t)
  <2>1. CASE Continue(t, <<>>)
    BY <1>5, <1>6, <2>1, Scripts
  <2>2. ASSUME NEW u \in Uas, uag' = Append(uag, u), Continue(t, <<[op |-> "setUa", ua |-> u]>>)
        PROVE  ~ Has(todo'[t], Unlisted')
    <3> DEFINE o == [op |-> "setUa", ua |-> u]
    <3>1. u \in Listed'
      BY <2>2, Listing
    <3>2. o \in Ops /\ o \notin Unlisted' /\ Continue(t, <<o>>)
      BY <2>2, <3>1 DEF Ops, Unlisted
    <3> HIDE DEF o
    <3>3. <<o>> \in Seq(Ops) /\ ~ Has(<<o>>, Unlisted')
      BY <3>2, HasSmall, ShortScripts
    <3> QED  BY <1>5, <3>2, <3>3
  <2> QED  BY <1>12, <2>1, <2>2 DEF UaAlloc
<1>13. ASSUME NEW o \in Ops, o.op \in {"setAudioCodecs", "resetTransp"}
       PROVE  <<o>> \in Seq(Ops) /\ ~ Has(<<o>>, Unlisted')
  BY <1>7, <1>13, HasSmall, ShortScripts
<1>14. CASE SetUa(t)
  <2> DEFINE o == [op |-> "setAudioCodecs"]
  <2>1. o \in Ops /\ o.op = "setAudioCodecs" /\ Continue(t, <<o>>)
    BY <1>14 DEF Ops, SetUa
  <2> HIDE DEF o
  <2> QED  BY <1>5, <1>13, <2>1
<1>15. CASE SetAudioCodecs(t)
  <2>1. CASE Continue(t, <<>>)
    BY <1>5, <1>6, <2>1, Scripts
  <2>2. CASE Continue(t, <<[op |-> "updateNetwork"], [op |-> "registry"]>>)
    <3> DEFINE a == [op |-> "updateNetwork"]
               b == [op |-> "registry"]
    <3>1. /\ a \in Ops /\ b \in Ops /\ Continue(t, <<a, b>>)
          /\ a \notin Unlisted' /\ b \notin Unlisted'
      BY <2>2 DEF Ops, Unlisted
    <3> HIDE DEF a, b
    <3>2. <<a, b>> \in Seq(Ops) /\ ~ Has(<<a, b>>, Unlisted')
      BY <3>1, HasSmall, ShortScripts
    <3> QED  BY <1>5, <3>1, <3>2
  <2> QED  BY <1>15, <2>1, <2>2 DEF SetAudioCodecs
<1>16. CASE UpdateNetwork(t)
  <2> DEFINE o == [op |-> "resetTransp", next |-> 1]
  <2>1. /\ o \in Ops /\ o.op = "resetTransp"
        /\ Continue(t, <<>>) \/ Continue(t, <<o>>)
    BY <1>16 DEF Ops, UpdateNetwork
  <2> HIDE DEF o
  <2> QED  BY <1>5, <1>6, <1>13, <2>1, Scripts
<1>17. CASE ResetTransp(t)
  <2>1. h.op = "resetTransp" /\ h.next \in Nat
    BY <1>1, <1>17, OpFields DEF ResetTransp, At, h
  <2>2. CASE Continue(t, <<>>)
    BY <1>5, <1>6, <2>2, Scripts
  <2>3. ASSUME NEW u \in Uas, u \in Listed,
               Continue(t, UaRegister(u) \o <<[op |-> "resetTransp", next |-> h.next + 1]>>)
        PROVE  ~ Has(todo'[t], Unlisted')
    <3> DEFINE o == [op |-> "resetTransp", next |-> h.next + 1]
               ops == UaRegister(u) \o <<o>>
    <3>1. h.next + 1 \in Nat
      BY <2>1
    <3>2. o \in Ops /\ o.op = "resetTransp" /\ ops \in Seq(Ops) /\ Continue(t, ops)
      BY <2>3, <3>1, Scripts DEF Ops
    <3>3. \A S : Has(ops, S) <=> Has(UaRegister(u), S) \/ o \in S
      BY <3>1, Contents
    <3> HIDE DEF o, ops
    <3>4. ~ Has(ops, Unlisted')
      BY <1>7, <1>8, <2>3, <3>2, <3>3
    <3> QED  BY <1>5, <3>2, <3>4
  <2>4. h.next \in 1 .. Len(uag) => uag[h.next] \in Listed /\ uag[h.next] \in Uas
    BY ElementOfSeq DEF TypeOK, Listed
  <2> QED  BY <1>17, <2>2, <2>3, <2>4 DEF ResetTransp, h
<1>18. CASE Registry(t)
  <2>1. CASE ua = NoUa
    BY <1>5, <1>6, <1>18, <2>1, Scripts DEF Registry
  <2>2. CASE ua # NoUa
    BY <1>5, <1>8, <1>18, <2>2 DEF Registry, TypeOK, ListInv
  <2> QED  BY <2>1, <2>2
<1> QED  BY <1>9, <1>10, <1>11, <1>12, <1>14, <1>15, <1>16, <1>17, <1>18 DEF Step

(* Nothing comes to be known, done or under way about another account.     *)
LEMMA ListKept ==
    ASSUME TypeOK, ListInv, [Next]_vars
    PROVE  ListInv'
<1>1. TypeOK /\ Listed \subseteq Uas /\ NoUa \notin Uas
  BY Listing, NoUaAssumption
<1>2. CASE UNCHANGED vars
  BY <1>2 DEF ListInv, Listed, Unlisted, vars, kotlin, registrar
<1>3. ASSUME UNCHANGED <<ua, uag, wanted>>,
             \A tr \in pending' : tr.ua \in Listed,
             \A u \in Uas \ Listed : outcome'[u] = outcome[u],
             \/ UNCHANGED todo
             \/ \E t \in Threads : \E ops : Start(t, ops) /\ ~ Has(ops, Unlisted)
      PROVE  ListInv'
  <2>1. Listed' = Listed /\ Unlisted' = Unlisted
    BY <1>3 DEF Listed, Unlisted
  <2>2. \A v \in Threads : ~ Has(todo'[v], Unlisted)
    <3>1. CASE UNCHANGED todo
      BY <3>1 DEF ListInv
    <3>2. ASSUME NEW t \in Threads, NEW ops, Start(t, ops), ~ Has(ops, Unlisted)
          PROVE  \A v \in Threads : ~ Has(todo'[v], Unlisted)
      <4>1. todo'[t] = ops /\ \A v \in Threads : v # t => todo'[v] = todo[v]
        BY <1>1, <3>2 DEF Start, TypeOK
      <4> QED  BY <3>2, <4>1 DEF ListInv
    <3> QED  BY <1>3, <3>1, <3>2
  <2> QED  BY <1>3, <2>1, <2>2 DEF ListInv
<1>4. \A k \in {"ua_alloc", "updateNetwork", "registry"} : ~ Has(<<[op |-> k]>>, Unlisted)
  <2> TAKE k \in {"ua_alloc", "updateNetwork", "registry"}
  <2>1. [op |-> k] \notin Unlisted
    BY DEF Unlisted
  <2> QED  BY <2>1, HasSmall
<1>5. ASSUME NEW u \in Uas, u \in Listed
      PROVE  /\ ~ Has(Unregister(u), Unlisted)
             /\ ~ Has(Unregister(u) \o <<[op |-> "ua_alloc"]>>, Unlisted)
  <2>1. /\ [op |-> "uaEvent", event |-> "unregistering"] \notin Unlisted
        /\ [op |-> "sendUnregister", ua |-> u] \notin Unlisted
        /\ [op |-> "clearUa"] \notin Unlisted
        /\ [op |-> "ua_alloc"] \notin Unlisted
    BY <1>5 DEF Unlisted
  <2> QED  BY <2>1, Contents
<1>6. ua # NoUa => ua \in Uas /\ ua \in Listed
  BY DEF TypeOK, ListInv
<1>7. CASE Handlers
  <2>1. CASE InitSipModule
    <3>1. UNCHANGED <<ua, uag, wanted, pending, outcome>>
      BY <2>1 DEF InitSipModule, kotlin, registrar
    <3>2. \E ops : Start("main", ops) /\ ~ Has(ops, Unlisted)
      <4>1. CASE ua # NoUa
        BY <1>5, <1>6, <2>1, <4>1 DEF InitSipModule
      <4>2. CASE ua = NoUa
        BY <1>4, <2>1, <4>2 DEF InitSipModule
      <4> QED  BY <4>1, <4>2
    <3> QED  BY <1>3, <3>1, <3>2, ThreadNames DEF ListInv
  <2>2. CASE RefreshSipAccount \/ HotSpotDisabled
    <3>1. UNCHANGED <<ua, uag, wanted, pending, outcome>>
      BY <2>2 DEF RefreshSipAccount, HotSpotDisabled, kotlin, registrar
    <3>2. \E ops : Start("main", ops) /\ ~ Has(ops, Unlisted)
      BY <1>4, <2>2 DEF RefreshSipAccount, HotSpotDisabled
    <3> QED  BY <1>3, <3>1, <3>2, ThreadNames DEF ListInv
  <2>3. CASE UnregisterSipAccount
    <3>1. UNCHANGED <<ua, uag, wanted, pending, outcome>>
      BY <2>3 DEF UnregisterSipAccount, kotlin, registrar
    <3>2. \E ops : Start("main", ops) /\ ~ Has(ops, Unlisted)
      BY <1>5, <1>6, <2>3 DEF UnregisterSipAccount
    <3> QED  BY <1>3, <3>1, <3>2, ThreadNames DEF ListInv
  <2>4. CASE Detach \/ Deliver
    <3>1. UNCHANGED <<ua, uag, wanted, pending, outcome, todo>>
      BY <2>4 DEF Detach, Deliver, kotlin, registrar
    <3> QED  BY <1>3, <3>1 DEF ListInv
  <2>5. ASSUME NEW t \in NetThreads, NetworkCallback(t) \/ HotSpotTimer(t)
        PROVE  ListInv'
    <3>1. UNCHANGED <<ua, uag, wanted, pending, outcome>>
      BY <2>5 DEF NetworkCallback, HotSpotTimer, kotlin, registrar
    <3>2. \E ops : Start(t, ops) /\ ~ Has(ops, Unlisted)
      BY <1>4, <2>5 DEF NetworkCallback, HotSpotTimer
    <3> QED  BY <1>3, <3>1, <3>2, ThreadNames DEF ListInv
  <2>6. ASSUME NEW tr \in Transactions, Answer(tr)
        PROVE  ListInv'
    <3>1. UNCHANGED <<ua, uag, wanted>> /\ pending' \subseteq pending /\ tr \in pending
      BY <2>6 DEF Answer, kotlin
    <3>2. tr.ua \in Listed
      BY <3>1 DEF ListInv
    <3>3. PICK ok \in BOOLEAN :
             /\ outcome' = [outcome EXCEPT ![tr.ua] =
                               CASE tr.kind # wanted[tr.ua] -> @
                                 [] ok -> "ok"
                                 [] OTHER -> "failed"]
             /\ Start("re", <<[op |-> "uaEvent",
                               event |-> IF ok THEN "registered"
                                               ELSE "registering failed"]>>)
      BY <2>6 DEF Answer
    <3>4. \A u \in Uas \ Listed : outcome'[u] = outcome[u]
      BY <1>1, <3>2, <3>3 DEF TypeOK
    <3>5. \E ops : Start("re", ops) /\ ~ Has(ops, Unlisted)
      <4> DEFINE o == [op |-> "uaEvent", event |-> IF ok THEN "registered"
                                                         ELSE "registering failed"]
      <4>1. o \notin Unlisted /\ Start("re", <<o>>)
        BY <3>3 DEF Unlisted
      <4> HIDE DEF o
      <4> QED  BY <4>1, HasSmall
    <3> QED  BY <1>3, <3>1, <3>4, <3>5, ThreadNames DEF ListInv
  <2>7. ASSUME NEW u \in Uas, PeriodicRefresh(u)
        PROVE  ListInv'
    <3>1. /\ UNCHANGED <<ua, uag, wanted, outcome, todo>> /\ wanted[u] = "register"
          /\ pending' = pending \union {[ua |-> u, kind |-> "register"]}
      BY <2>7 DEF PeriodicRefresh, kotlin
    <3>2. u \in Listed
      BY <3>1 DEF ListInv
    <3>3. \A tr \in pending' : tr.ua \in Listed
      BY <3>1, <3>2 DEF ListInv
    <3> QED  BY <1>3, <3>1, <3>3
  <2> QED  BY <1>7, <2>1, <2>2, <2>3, <2>4, <2>5, <2>6, <2>7 DEF Handlers
<1>8. ASSUME NEW t \in Threads, Step(t)
      PROVE  ListInv'
  <2> DEFINE h == Head(todo[t])
  <2>1. /\ Listed \subseteq Listed' /\ Unlisted' \subseteq Unlisted
        /\ ~ Has(todo'[t], Unlisted')
    BY <1>1, <1>8, StepLists
  <2>2. h \in Ops /\ todo[t] \in Seq(Ops) /\ todo[t] # <<>>
    <3>1. todo[t] # <<>>
      BY <1>8 DEF Step, At, UaEvent, CacheState, PostEvent, SendRegister, SendUnregister,
             ClearUa, UaAlloc, SetUa, SetAudioCodecs, UpdateNetwork, ResetTransp, Registry
    <3> QED  BY <3>1, HeadTailProperties DEF TypeOK
  <2>3. \A v \in Threads : v # t => todo'[v] = todo[v]
    BY <1>8 DEF Step, Continue, UaEvent, CacheState, PostEvent, SendRegister, SendUnregister,
           ClearUa, UaAlloc, SetUa, SetAudioCodecs, UpdateNetwork, ResetTransp, Registry, TypeOK
  <2>4. \A v \in Threads : ~ Has(todo'[v], Unlisted')
    BY <2>1, <2>3 DEF ListInv, Has
  <2>5. h.op \in {"sendRegister", "sendUnregister", "setUa"} => h.ua \in Listed
    <3>1. h \notin Unlisted
      BY <2>2, HasContinue, Scripts DEF ListInv
    <3> QED  BY <2>2, <3>1 DEF Unlisted
  <2> HIDE DEF h
  <2>6. ASSUME ua' \in Listed' \union {NoUa},
               \A tr \in pending' : tr.ua \in Listed,
               \A u \in Uas \ Listed : wanted'[u] = wanted[u] /\ outcome'[u] = outcome[u]
        PROVE  ListInv'
    BY <2>1, <2>4, <2>6 DEF ListInv
  <2>7. CASE SendRegister(t)
    <3>1. h.op = "sendRegister" /\ h.ua \in Listed
      BY <2>5, <2>7 DEF SendRegister, At, h
    <3>2. /\ pending' \subseteq pending \union {[ua |-> h.ua, kind |-> "register"]}
          /\ \E x : outcome' = [outcome EXCEPT ![h.ua] = x]
          /\ wanted' = [wanted EXCEPT ![h.ua] = "register"]
          /\ UNCHANGED ua
      BY <2>7 DEF SendRegister, h, kotlin
    <3>3. \A u \in Uas \ Listed : wanted'[u] = wanted[u] /\ outcome'[u] = outcome[u]
      BY <3>1, <3>2, <1>1 DEF TypeOK
    <3>4. \A tr \in pending' : tr.ua \in Listed
      BY <3>1, <3>2 DEF ListInv
    <3> QED  BY <2>1, <2>6, <3>2, <3>3, <3>4 DEF ListInv
  <2>8. CASE SendUnregister(t)
    <3>1. h.op = "sendUnregister" /\ h.ua \in Listed /\ UNCHANGED ua
      BY <2>5, <2>8 DEF SendUnregister, At, h, kotlin
    <3>2. CASE UNCHANGED <<pending, wanted, outcome>>
      BY <2>1, <2>6, <3>1, <3>2 DEF ListInv
    <3>3. CASE /\ pending' = pending \union {[ua |-> h.ua, kind |-> "unregister"]}
               /\ wanted' = [wanted EXCEPT ![h.ua] = "unregister"]
               /\ outcome' = [outcome EXCEPT ![h.ua] = "none"]
      <4>1. \A u \in Uas \ Listed : wanted'[u] = wanted[u] /\ outcome'[u] = outcome[u]
        BY <3>1, <3>3, <1>1 DEF TypeOK
      <4>2. \A tr \in pending' : tr.ua \in Listed
        BY <3>1, <3>3 DEF ListInv
      <4> QED  BY <2>1, <2>6, <3>1, <4>1, <4>2 DEF ListInv
    <3> QED  BY <2>8, <3>2, <3>3 DEF SendUnregister, h
  <2>9. CASE ClearUa(t) \/ SetUa(t)
    <3>1. UNCHANGED <<pending, wanted, outcome>>
      BY <2>9 DEF ClearUa, SetUa, registrar
    <3>2. ua' \in Listed \union {NoUa}
      BY <2>5, <2>9 DEF ClearUa, SetUa, At, h
    <3> QED  BY <2>1, <2>6, <3>1, <3>2 DEF ListInv
  <2>10. CASE \/ UaEvent(t) \/ CacheState(t) \/ PostEvent(t) \/ UaAlloc(t)
              \/ UNCHANGED <<kotlin, registrar, app>>
    <3>1. UNCHANGED <<ua, pending, wanted, outcome>>
      BY <2>10 DEF UaEvent, CacheState, PostEvent, UaAlloc, kotlin, registrar
    <3> QED  BY <2>1, <2>6, <3>1 DEF ListInv
  <2> QED  BY <1>8, <2>7, <2>8, <2>9, <2>10, StepNames
<1>9. Next => Handlers \/ \E t \in Threads : Step(t)
  BY DEF Next, Handlers
<1> QED  BY <1>2, <1>7, <1>8, <1>9

(* The scripts of a step: what the thread had and what it has.             *)
LEMMA StepScripts ==
    ASSUME ScriptsInv, "register" \notin Faults, NEW t \in Threads, Step(t),
           NEW h, h = Head(todo[t]), NEW rest, rest = Tail(todo[t])
    PROVE  /\ todo[t] \in Seq(Ops) /\ todo[t] # <<>> /\ h \in Ops
           /\ \A v \in Threads : v # t => todo'[v] = todo[v]
           /\ \A S : /\ Has(todo[t], S) <=> h \in S \/ Has(rest, S)
                     /\ Has(rest, S) => Has(todo'[t], S)
           /\ Has(todo'[t], Named("setUa")) => h.op = "ua_alloc" \/ Has(rest, Named("setUa"))
           /\ h \in MainOps => t = "main"
           /\ t # "re" /\ h \in Telling => Has(rest, Sending)
           /\ t # "re" => h \notin Verdicts
<1>1. TypeOK /\ todo \in [Threads -> Seq(Ops)]
  BY DEF ScriptsInv, TypeOK
<1>2. /\ todo[t] \in Seq(Ops) /\ todo[t] # <<>> /\ h \in Ops
      /\ \E ops \in Seq(Ops) : Continue(t, ops) /\ Pushes(h, ops)
  BY <1>1, StepPushes
<1>3. PICK ops \in Seq(Ops) : Continue(t, ops) /\ Pushes(h, ops)
  BY <1>2
<1>4. todo'[t] = ops \o rest /\ \A v \in Threads : v # t => todo'[v] = todo[v]
  BY <1>1, <1>3 DEF Continue
<1>5. \A S : /\ Has(todo[t], S) <=> h \in S \/ Has(rest, S)
             /\ Has(todo'[t], S) <=> Has(ops, S) \/ Has(rest, S)
  BY <1>2, <1>4, HasContinue
<1>6. Has(todo'[t], Named("setUa")) => h.op = "ua_alloc" \/ Has(rest, Named("setUa"))
  BY <1>3, <1>5 DEF Pushes
<1>7. h \in MainOps => t = "main"
  BY <1>5 DEF ScriptsInv
<1>8. ASSUME t # "re"  PROVE (h \in Telling => Has(rest, Sending)) /\ h \notin Verdicts
  <2>1. Followed(todo[t], Telling, Sending) /\ ~ Has(todo[t], Verdicts)
    BY <1>8 DEF ScriptsInv
  <2> QED  BY <1>2, <1>5, <2>1, FollowedTail
<1> QED  BY <1>2, <1>4, <1>5, <1>6, <1>7, <1>8

(* An only account that is kept was kept before.                           *)
LEMMA KeptBefore ==
    ASSUME ScriptsInv, "register" \notin Faults, NEW t \in Threads, Step(t),
           NEW u \in Uas, uag = <<u>>, uag' = uag, Kept(u)'
    PROVE  Kept(u)
<1> DEFINE h == Head(todo[t])
           rest == Tail(todo[t])
<1>1. /\ todo[t] \in Seq(Ops) /\ todo[t] # <<>> /\ h \in Ops
      /\ \A v \in Threads : v # t => todo'[v] = todo[v]
      /\ \A S : /\ Has(todo[t], S) <=> h \in S \/ Has(rest, S)
                /\ Has(rest, S) => Has(todo'[t], S)
      /\ Has(todo'[t], Named("setUa")) => h.op = "ua_alloc" \/ Has(rest, Named("setUa"))
      /\ h \in MainOps => t = "main"
  BY StepScripts
<1>2. TypeOK /\ uag \in Seq(Uas) /\ todo \in [Threads -> Seq(Ops)]
  BY DEF ScriptsInv, TypeOK
<1>3. Kept(u)' <=> \/ ua' = u /\ ~ Has(todo'["main"], Named("clearUa"))
                   \/ Has(todo'["main"], Named("setUa"))
  BY DEF Kept, Named
<1>4. CASE Has(todo'["main"], Named("setUa"))
  <2>1. CASE t # "main"
    BY <1>1, <1>4, <2>1, ThreadNames DEF Kept
  <2>2. CASE t = "main" /\ Has(rest, Named("setUa"))
    BY <1>1, <2>2 DEF Kept
  <2>3. CASE t = "main" /\ h.op = "ua_alloc"
    <3>1. UaAlloc(t)
      BY <2>3, StepNames
    <3>2. \A w \in Uas : uag' # Append(uag, w)
      BY <1>2, AppendProperties
    <3>3. Continue(t, <<>>)
      BY <3>1, <3>2 DEF UaAlloc
    <3>4. todo'[t] = <<>> \o rest
      BY <1>2, <3>3 DEF Continue
    <3>5. rest \in Seq(Ops)
      BY <1>1, HeadTailProperties
    <3> HIDE DEF rest
    <3>6. todo'[t] = rest
      BY <3>4, <3>5
    <3> QED  BY <1>1, <1>4, <2>3, <3>6 DEF Kept
  <2> QED  BY <1>1, <1>4, <2>1, <2>2, <2>3
<1>5. CASE ua' = u /\ ~ Has(todo'["main"], Named("clearUa"))
  <2>1. CASE h.op = "setUa"
    <3>1. h \in MainOps /\ h \in Named("setUa")
      BY <1>1, <2>1 DEF MainOps, Named
    <3> QED  BY <1>1, <3>1 DEF Kept
  <2>2. CASE h.op # "setUa"
    <3>1. h.op # "clearUa"
      <4> SUFFICES ASSUME ClearUa(t)  PROVE FALSE
        BY StepNames
      <4>1. ua' = NoUa
        BY DEF ClearUa
      <4> QED  BY <1>5, <4>1, NoUaAssumption
    <3> HIDE DEF h
    <3>2. ua' = ua
      BY <2>2, <3>1, StepNames DEF UaEvent, CacheState, PostEvent, SendRegister, SendUnregister,
         UaAlloc, kotlin, h
    <3>3. h \notin Named("clearUa")
      BY <3>1 DEF Named
    <3>4. ~ Has(todo["main"], Named("clearUa"))
      BY <1>1, <1>5, <3>3, ThreadNames
    <3> QED  BY <1>5, <3>2, <3>4 DEF Kept
  <2> QED  BY <2>1, <2>2
<1> QED  BY <1>3, <1>4, <1>5

(* A step keeps what is known of an account that is kept.                  *)
LEMMA StepKeepsSound ==
    ASSUME HonestInv, "register" \notin Faults, NEW t \in Threads, Step(t),
           NEW u \in Uas, uag = <<u>>, uag' = uag, Kept(u)'
    PROVE  Sound(u)'
<1> DEFINE h == Head(todo[t])
           rest == Tail(todo[t])
           ok == cacheStateAccount = "Ok" \/ Has(todo["re"], ToOk)
           basis == \/ outcome[u] = "ok"
                    \/ pending # {}
                    \/ \E v \in Threads : Has(todo[v], Named("sendRegister"))
                    \/ Has(todo["re"], ToFailed)
<1>1. TypeOK /\ ScriptsInv /\ ListInv /\ Listed = {u}
  BY Listing DEF HonestInv, ScriptsInv
<1>2. /\ todo[t] \in Seq(Ops) /\ todo[t] # <<>> /\ h \in Ops
      /\ \A v \in Threads : v # t => todo'[v] = todo[v]
      /\ \A S : /\ Has(todo[t], S) <=> h \in S \/ Has(rest, S)
                /\ Has(rest, S) => Has(todo'[t], S)
      /\ h \in MainOps => t = "main"
      /\ t # "re" => h \notin Verdicts
  BY <1>1, StepScripts
<1>3. Kept(u)
  BY <1>1, KeptBefore
<1>4. Sound(u)
  BY <1>3 DEF HonestInv
<1>5. Sound(u)' <=>
         /\ \A tr \in pending' : tr.kind = "register"
         /\ wanted'[u] # "unregister"
         /\ pending' # {} \/ outcome'[u] # "none" => wanted'[u] = "register"
         /\ isRunning' /\ ok' => basis'
  BY DEF Sound
<1>6. isRunning /\ ok => basis
  BY <1>4 DEF Sound
<1>7. h.op \in {"sendRegister", "sendUnregister", "setUa"} => h.ua = u
  <2>1. h \notin Unlisted
    BY <1>1, <1>2 DEF ListInv
  <2> QED  BY <1>1, <1>2, <2>1 DEF Unlisted
<1>8. "re" \in Threads /\ "main" \in Threads /\ "main" # "re"
  BY ThreadNames
<1>9. h.op # "sendUnregister"
  <2> SUFFICES ASSUME h.op = "sendUnregister"  PROVE FALSE
    OBVIOUS
  <2>1. h \in Named("sendUnregister") /\ t = "main" /\ h \notin Named("setUa")
    BY <1>2 DEF Named, MainOps
  <2>2. Followed(todo["main"], Named("sendUnregister"), Named("clearUa"))
    BY <1>1 DEF ScriptsInv
  <2>3. Has(rest, Named("clearUa"))
    BY <1>2, <2>1, <2>2, FollowedTail
  <2>4. Has(todo["main"], Named("clearUa"))
    BY <1>2, <2>1, <2>3
  <2>5. Has(todo["main"], Named("setUa"))
    BY <1>3, <2>4 DEF Kept
  <2>6. rest = <<>>
    BY <1>1, <2>1, <2>5 DEF ScriptsInv
  <2> QED  BY <2>3, <2>6, HasSmall
<1>10. CASE h.op = "sendRegister"
  <2>1. SendRegister(t) /\ h.ua = u
    BY <1>7, <1>10, StepNames
  <2>2. /\ pending' = {tr \in pending : tr.ua # u} \union {[ua |-> u, kind |-> "register"]}
        /\ wanted' = [wanted EXCEPT ![u] = "register"]
    BY <2>1 DEF SendRegister
  <2>3. pending' # {} /\ wanted'[u] = "register"
    BY <1>1, <2>2 DEF TypeOK
  <2>4. \A tr \in pending' : tr.kind = "register"
    BY <1>4, <2>2 DEF Sound
  <2> QED  BY <1>5, <2>3, <2>4
<1>11. CASE h.op # "sendRegister"
  <2> HIDE DEF h, rest
  <2>1. UNCHANGED <<pending, wanted, outcome, isRunning>>
    BY <1>9, <1>11, StepNames DEF UaEvent, CacheState, PostEvent, ClearUa, UaAlloc, SetUa,
       kotlin, registrar, h
  <2>2. h \notin Named("sendRegister")
    BY <1>11 DEF Named
  <2>3. (\E v \in Threads : Has(todo[v], Named("sendRegister"))) =>
           \E v \in Threads : Has(todo'[v], Named("sendRegister"))
    BY <1>2, <2>2
  <2>4. ASSUME isRunning', ok'  PROVE basis'
    <3>0. /\ ok' <=> cacheStateAccount' = "Ok" \/ Has(todo'["re"], ToOk)
          /\ basis' <=> \/ outcome'[u] = "ok"
                        \/ pending' # {}
                        \/ \E v \in Threads : Has(todo'[v], Named("sendRegister"))
                        \/ Has(todo'["re"], ToFailed)
      BY DEF ToOk, ToFailed, Named
    <3>1. CASE t # "re"
      <4>1. todo'["re"] = todo["re"]
        BY <1>2, <1>8, <3>1
      <4>2. cacheStateAccount' = "Ok" => cacheStateAccount = "Ok"
        <5>1. CASE h.op = "cacheState"
          <6>1. h.state = "Progress"
            BY <1>2, <3>1, <5>1 DEF Verdicts
          <6>2. CacheState(t)
            BY <5>1, StepNames DEF h
          <6>3. cacheStateAccount' = h.state
            BY <6>2 DEF CacheState, h
          <6> QED  BY <6>1, <6>3
        <5>2. CASE h.op # "cacheState"
          BY <1>9, <1>11, <5>2, StepNames DEF UaEvent, PostEvent, ClearUa, UaAlloc, SetUa,
             kotlin, h
        <5> QED  BY <5>1, <5>2
      <4> QED  BY <1>6, <2>1, <2>3, <2>4, <3>0, <4>1, <4>2
    <3>2. CASE t = "re"
      <4>1. ReReports(todo[t]) /\ todo[t] # <<>>
        BY <1>1, <1>2, <3>2 DEF ScriptsInv
      <4>2. ASSUME NEW e \in Events, todo[t] = <<[op |-> "uaEvent", event |-> e]>>
            PROVE  basis'
        <5> DEFINE x == ReportedState(e)
        <5>1. h = [op |-> "uaEvent", event |-> e]
          BY <4>2 DEF h
        <5>2. UaEvent(t)
          BY <5>1, StepNames DEF h
        <5>3. /\ Continue(t, SendAccountEvent(x)) /\ x \in States
              /\ UNCHANGED cacheStateAccount
          <6>1. h.event = e
            BY <5>1
          <6>2. isRunning
            BY <2>1, <2>4
          <6>3. Continue(t, SendAccountEvent(ReportedState(h.event))) /\ UNCHANGED kotlin
            BY <5>2, <6>2 DEF UaEvent, h
          <6>4. ReportedState(e) \in States
            BY DEF ReportedState, Events, States
          <6> QED  BY <6>1, <6>3, <6>4 DEF kotlin
        <5>4. /\ x = "Ok" => e = "registered"
              /\ e = "registering failed" => x = "Failed"
          BY DEF ReportedState, Events
        <5> HIDE DEF x
        <5>5. todo'["re"] = SendAccountEvent(x)
          <6>1. todo'[t] = SendAccountEvent(x) \o rest
            BY <1>1, <5>3 DEF Continue, TypeOK, rest
          <6>2. rest = <<>>
            BY <4>2 DEF rest
          <6> QED  BY <3>2, <6>1, <6>2 DEF SendAccountEvent
        <5>6. /\ Has(todo'["re"], ToOk) => x = "Ok"
              /\ x = "Failed" => Has(todo'["re"], ToFailed)
          <6> DEFINE a == [op |-> "cacheState", state |-> x]
                     b == [op |-> "postEvent", state |-> x]
          <6>1. /\ a \in ToOk => x = "Ok"
                /\ b \notin ToOk
                /\ x = "Failed" => a \in ToFailed
            BY <5>3 DEF ToOk, ToFailed, Ops, States
          <6>2. \A S : Has(SendAccountEvent(x), S) <=> a \in S \/ b \in S
            BY <5>3, Contents
          <6> HIDE DEF a, b
          <6> QED  BY <5>5, <6>1, <6>2
        <5>7. /\ e = "registered" => Has(todo["re"], ToOk)
              /\ Has(todo["re"], ToFailed) => e = "registering failed"
          <6> DEFINE o == [op |-> "uaEvent", event |-> e]
          <6>1. /\ e = "registered" => o \in ToOk
                /\ o \in ToFailed => e = "registering failed"
            BY DEF ToOk, ToFailed, Ops, Events
          <6>2. todo["re"] = <<o>>
            BY <3>2, <4>2
          <6> HIDE DEF o
          <6>3. \A S : Has(<<o>>, S) <=> o \in S
            BY HasSmall
          <6> QED  BY <6>1, <6>2, <6>3
        <5>8. ok
          BY <2>4, <3>0, <5>3, <5>4, <5>6, <5>7
        <5> QED  BY <1>6, <2>1, <2>3, <2>4, <3>0, <5>4, <5>6, <5>7, <5>8
      <4>3. ASSUME NEW x \in States, todo[t] = SendAccountEvent(x)
            PROVE  basis'
        <5> DEFINE p == [op |-> "postEvent", state |-> x]
        <5>1. h = [op |-> "cacheState", state |-> x] /\ rest = <<p>>
          BY <4>3 DEF h, rest, SendAccountEvent
        <5>2. CacheState(t)
          BY <5>1, StepNames DEF h
        <5>3. cacheStateAccount' = h.state /\ Continue(t, <<>>)
          BY <5>2 DEF CacheState, h
        <5>4. h.state = x /\ h.op = "cacheState"
          BY <5>1
        <5>5. p \notin ToOk /\ p \notin ToFailed
          BY DEF ToOk, ToFailed
        <5> HIDE DEF p
        <5>6. todo'["re"] = <<p>>
          <6>1. todo'[t] = <<>> \o rest
            BY <1>1, <5>3 DEF Continue, TypeOK, rest
          <6> QED  BY <3>2, <5>1, <6>1
        <5>7. x = "Ok"
          <6>1. ~ Has(<<p>>, ToOk)
            BY <5>5, HasSmall
          <6> QED  BY <2>4, <3>0, <5>3, <5>4, <5>6, <6>1
        <5>8. h \in ToOk /\ h \notin ToFailed /\ ~ Has(rest, ToFailed)
          BY <1>2, <5>1, <5>4, <5>5, <5>7, HasSmall DEF ToOk, ToFailed
        <5>9. Has(todo["re"], ToOk) /\ ~ Has(todo["re"], ToFailed)
          BY <1>2, <3>2, <5>8
        <5> QED  BY <1>6, <2>1, <2>3, <2>4, <3>0, <5>9
      <4>4. ASSUME NEW x \in States, todo[t] = <<[op |-> "postEvent", state |-> x]>>
            PROVE  basis'
        <5>1. h = [op |-> "postEvent", state |-> x] /\ rest = <<>>
          BY <4>4 DEF h, rest
        <5>2. PostEvent(t)
          BY <5>1, StepNames DEF h
        <5>3. UNCHANGED cacheStateAccount /\ Continue(t, <<>>)
          BY <5>2 DEF PostEvent, kotlin
        <5>4. todo'["re"] = <<>>
          <6>1. todo'[t] = <<>> \o rest
            BY <1>1, <5>3 DEF Continue, TypeOK, rest
          <6> QED  BY <3>2, <5>1, <6>1
        <5>5. ~ Has(todo["re"], ToFailed)
          <6>1. h \notin ToFailed
            BY <5>1 DEF ToFailed
          <6> QED  BY <1>2, <3>2, <5>1, <6>1, HasSmall
        <5>6. cacheStateAccount = "Ok"
          BY <2>4, <3>0, <5>3, <5>4, HasSmall
        <5> QED  BY <1>6, <2>1, <2>3, <2>4, <3>0, <5>5, <5>6
      <4> QED  BY <4>1, <4>2, <4>3, <4>4 DEF ReReports
    <3> QED  BY <3>1, <3>2
  <2> QED  BY <1>4, <1>5, <2>1, <2>4 DEF Sound
<1> QED  BY <1>10, <1>11

(* A handler keeps what is known of an account that is kept.               *)
LEMMA HandlerKeepsSound ==
    ASSUME HonestInv, Handlers, NEW u \in Uas, uag = <<u>>, Kept(u)'
    PROVE  Sound(u)'
<1> DEFINE basis == \/ outcome[u] = "ok"
                    \/ pending # {}
                    \/ \E v \in Threads : Has(todo[v], Named("sendRegister"))
                    \/ Has(todo["re"], ToFailed)
<1>1. TypeOK /\ ScriptsInv /\ ListInv /\ Listed = {u} /\ "main" \in Threads /\ "re" \in Threads
  BY Listing, ThreadNames DEF HonestInv, ScriptsInv
<1>2. /\ Kept(u)' <=> \/ ua' = u /\ ~ Has(todo'["main"], Named("clearUa"))
                      \/ Has(todo'["main"], Named("setUa"))
      /\ Sound(u)' <=>
            /\ \A tr \in pending' : tr.kind = "register"
            /\ wanted'[u] # "unregister"
            /\ pending' # {} \/ outcome'[u] # "none" => wanted'[u] = "register"
            /\ isRunning' /\ (cacheStateAccount' = "Ok" \/ Has(todo'["re"], ToOk)) => basis'
      /\ basis' <=> \/ outcome'[u] = "ok"
                    \/ pending' # {}
                    \/ \E v \in Threads : Has(todo'[v], Named("sendRegister"))
                    \/ Has(todo'["re"], ToFailed)
  BY DEF Kept, Sound, Named, ToOk, ToFailed
<1>3. Kept(u)
  <2>1. ua' = ua
    BY DEF Handlers, InitSipModule, RefreshSipAccount, UnregisterSipAccount, HotSpotDisabled,
           Detach, Deliver, NetworkCallback, HotSpotTimer, Answer, PeriodicRefresh, kotlin
  <2>2. CASE UNCHANGED todo
    BY <1>2, <2>1, <2>2 DEF Kept
  <2>3. ASSUME NEW t \in Threads, NEW ops \in Seq(Ops), Start(t, ops), Starts(t, ops)
        PROVE  Kept(u)
    <3>1. /\ todo[t] = <<>> /\ todo'[t] = ops
          /\ \A v \in Threads : v # t => todo'[v] = todo[v]
      BY <1>1, <2>3 DEF Start, Idle, TypeOK
    <3>2. CASE t # "main"
      BY <1>1, <1>2, <2>1, <3>1, <3>2 DEF Kept
    <3>3. CASE t = "main"
      <4>1. ~ Has(todo["main"], Named("clearUa"))
        BY <3>1, <3>3, HasSmall
      <4>2. ~ Has(todo'["main"], Named("setUa"))
        BY <2>3, <3>1, <3>3 DEF Starts
      <4> QED  BY <1>2, <2>1, <4>1, <4>2 DEF Kept
    <3> QED  BY <3>2, <3>3
  <2> QED  BY <1>1, <2>2, <2>3, HandlerStarts
<1>4. Sound(u)
  BY <1>3 DEF HonestInv
<1>5. isRunning /\ (cacheStateAccount = "Ok" \/ Has(todo["re"], ToOk)) => basis
  BY <1>4 DEF Sound
<1>6. ASSUME UNCHANGED <<pending, wanted, outcome, cacheStateAccount>>, isRunning' => isRunning,
             \/ UNCHANGED todo
             \/ \E t \in Threads : t # "re" /\ \E ops : Start(t, ops)
      PROVE  Sound(u)'
  <2>1. /\ todo'["re"] = todo["re"]
        /\ \A v \in Threads : Has(todo[v], Named("sendRegister")) => Has(todo'[v], Named("sendRegister"))
    <3>1. CASE UNCHANGED todo
      BY <3>1
    <3>2. ASSUME NEW t \in Threads, t # "re", NEW ops, Start(t, ops)
          PROVE  /\ todo'["re"] = todo["re"]
                 /\ \A v \in Threads : Has(todo[v], Named("sendRegister")) =>
                                          Has(todo'[v], Named("sendRegister"))
      <4>1. todo[t] = <<>> /\ \A v \in Threads : v # t => todo'[v] = todo[v]
        BY <1>1, <3>2 DEF Start, Idle, TypeOK
      <4>2. ~ Has(todo[t], Named("sendRegister"))
        BY <4>1, HasSmall
      <4> QED  BY <1>1, <3>2, <4>1, <4>2
    <3> QED  BY <1>6, <3>1, <3>2
  <2> QED  BY <1>2, <1>4, <1>5, <1>6, <2>1 DEF Sound
<1>7. CASE InitSipModule \/ RefreshSipAccount \/ UnregisterSipAccount \/ HotSpotDisabled
  <2>1. UNCHANGED <<pending, wanted, outcome, cacheStateAccount, isRunning>>
    BY <1>7 DEF InitSipModule, RefreshSipAccount, UnregisterSipAccount, HotSpotDisabled,
       kotlin, registrar
  <2>2. \E ops : Start("main", ops)
    BY <1>7 DEF InitSipModule, RefreshSipAccount, UnregisterSipAccount, HotSpotDisabled
  <2> QED  BY <1>1, <1>6, <2>1, <2>2
<1>8. CASE Detach \/ Deliver
  <2>1. /\ UNCHANGED <<pending, wanted, outcome, cacheStateAccount, todo>>
        /\ isRunning' => isRunning
    BY <1>8 DEF Detach, Deliver, kotlin, registrar
  <2> QED  BY <1>6, <2>1
<1>9. ASSUME NEW t \in NetThreads, NetworkCallback(t) \/ HotSpotTimer(t)
      PROVE  Sound(u)'
  <2>1. UNCHANGED <<pending, wanted, outcome, cacheStateAccount, isRunning>>
    BY <1>9 DEF NetworkCallback, HotSpotTimer, kotlin, registrar
  <2>2. t \in Threads /\ t # "re" /\ \E ops : Start(t, ops)
    BY <1>9, ThreadNames, NetThreadsAssumption DEF NetworkCallback, HotSpotTimer
  <2> QED  BY <1>6, <2>1, <2>2
<1>10. ASSUME NEW tr \in Transactions, Answer(tr)
       PROVE  Sound(u)'
  <2>1. /\ tr \in pending /\ pending' = pending \ {tr}
        /\ UNCHANGED <<wanted, cacheStateAccount, isRunning>>
    BY <1>10 DEF Answer, kotlin
  <2>2. tr.ua = u /\ tr.kind = "register" /\ wanted[u] = "register"
    BY <1>1, <1>4, <2>1 DEF ListInv, Sound
  <2>3. PICK ok \in BOOLEAN :
           /\ outcome' = [outcome EXCEPT ![tr.ua] =
                             CASE tr.kind # wanted[tr.ua] -> @
                               [] ok -> "ok"
                               [] OTHER -> "failed"]
           /\ Start("re", <<[op |-> "uaEvent",
                             event |-> IF ok THEN "registered"
                                             ELSE "registering failed"]>>)
    BY <1>10 DEF Answer
  <2>4. wanted'[u] = "register" /\ wanted'[u] # "unregister"
    BY <2>1, <2>2
  <2>5. \A r \in pending' : r.kind = "register"
    BY <1>4, <2>1 DEF Sound
  <2>6. basis'
    <3>1. CASE ok
      <4>1. outcome'[u] = "ok"
        BY <1>1, <2>2, <2>3, <3>1 DEF TypeOK
      <4> QED  BY <1>2, <4>1
    <3>2. CASE ~ ok
      <4> DEFINE o == [op |-> "uaEvent", event |-> "registering failed"]
      <4>1. todo'["re"] = <<o>> /\ o \in ToFailed
        BY <1>1, <2>3, <3>2 DEF Start, TypeOK, ToFailed, Ops, Events
      <4> HIDE DEF o
      <4>2. Has(todo'["re"], ToFailed)
        BY <4>1, HasSmall
      <4> QED  BY <1>2, <4>2
    <3> QED  BY <3>1, <3>2
  <2> QED  BY <1>2, <2>4, <2>5, <2>6
<1>11. ASSUME NEW w \in Uas, PeriodicRefresh(w)
       PROVE  Sound(u)'
  <2>1. /\ pending' = pending \union {[ua |-> w, kind |-> "register"]}
        /\ UNCHANGED <<wanted, outcome, todo>> /\ wanted[w] = "register"
    BY <1>11 DEF PeriodicRefresh
  <2>2. w = u
    BY <1>1, <2>1 DEF ListInv
  <2>3. \A r \in pending' : r.kind = "register"
    BY <1>4, <2>1 DEF Sound
  <2>4. pending' # {}
    BY <2>1
  <2> QED  BY <1>2, <2>1, <2>2, <2>3, <2>4
<1> QED  BY <1>7, <1>8, <1>9, <1>10, <1>11 DEF Handlers

(* The first account is new: nothing is known of it, and nothing said Ok.  *)
LEMMA FirstIsSound ==
    ASSUME HonestInv, NEW t \in Threads, Step(t), NEW u \in Uas, uag = <<>>, uag' = <<u>>
    PROVE  Sound(u)'
<1>1. TypeOK /\ ListInv /\ Listed = {} /\ "re" \in Threads
  BY Listing, ThreadNames DEF HonestInv, ScriptsInv
<1>2. pending = {} /\ wanted[u] = "none" /\ outcome[u] = "none"
  BY <1>1 DEF ListInv
<1>3. cacheStateAccount # "Ok" /\ todo["re"] = <<>>
  BY DEF HonestInv
<1>4. UaAlloc(t)
  <2>1. uag' # uag
    OBVIOUS
  <2> QED  BY <2>1, StepNames DEF UaEvent, CacheState, PostEvent, SendRegister, SendUnregister,
           ClearUa, SetUa, registrar
<1>5. UNCHANGED <<cacheStateAccount, pending, wanted, outcome>>
  BY <1>4 DEF UaAlloc, kotlin
<1>6. todo'["re"] = <<>>
  <2>1. t # "re"
    BY <1>3, <1>4 DEF UaAlloc, At
  <2>2. \A v \in Threads : v # t => todo'[v] = todo[v]
    BY <1>1, <1>4 DEF UaAlloc, Continue, TypeOK
  <2> QED  BY <1>1, <1>3, <2>1, <2>2
<1>7. ~ Has(todo'["re"], ToOk)
  BY <1>6, HasSmall
<1>8. ToOk' = ToOk
  BY DEF ToOk
<1> QED  BY <1>2, <1>3, <1>5, <1>7, <1>8 DEF Sound

(* Before there is an account, nobody reports anything.                    *)
LEMMA SilentBefore ==
    ASSUME HonestInv, "register" \notin Faults, [Next]_vars, uag' = <<>>
    PROVE  cacheStateAccount' # "Ok" /\ todo'["re"] = <<>>
<1>1. TypeOK /\ ScriptsInv /\ ListInv /\ "re" \in Threads /\ "main" # "re"
  BY ThreadNames DEF HonestInv, ScriptsInv
<1>2. CASE UNCHANGED vars
  BY <1>2 DEF HonestInv, vars, kotlin, registrar
<1>3. CASE Handlers
  <2>1. uag = <<>>
    BY <1>3 DEF Handlers, InitSipModule, RefreshSipAccount, UnregisterSipAccount, HotSpotDisabled,
           Detach, Deliver, NetworkCallback, HotSpotTimer, Answer, PeriodicRefresh, registrar
  <2>2. Listed = {} /\ cacheStateAccount # "Ok" /\ todo["re"] = <<>>
    BY <1>1, <2>1, Listing DEF HonestInv
  <2>3. \A tr \in Transactions : ~ Answer(tr)
    BY <1>1, <2>2 DEF ListInv, Answer
  <2>4. UNCHANGED cacheStateAccount
    BY <1>3, <2>3 DEF Handlers, InitSipModule, RefreshSipAccount, UnregisterSipAccount, HotSpotDisabled,
           Detach, Deliver, NetworkCallback, HotSpotTimer, PeriodicRefresh, kotlin
  <2>5. \/ UNCHANGED todo
        \/ \E t \in Threads : t # "re" /\ \E ops : Start(t, ops)
    BY <1>1, <1>3, <2>3, ThreadNames, NetThreadsAssumption
       DEF Handlers, InitSipModule, RefreshSipAccount, UnregisterSipAccount, HotSpotDisabled,
           Detach, Deliver, NetworkCallback, HotSpotTimer, PeriodicRefresh, kotlin, registrar
  <2>6. todo'["re"] = todo["re"]
    BY <1>1, <2>5 DEF Start, TypeOK
  <2> QED  BY <2>2, <2>4, <2>6
<1>4. ASSUME NEW t \in Threads, Step(t)
      PROVE  cacheStateAccount' # "Ok" /\ todo'["re"] = <<>>
  <2> DEFINE h == Head(todo[t])
             rest == Tail(todo[t])
  <2>1. uag = <<>>
    BY <1>1, <1>4, StepLists, Listing
  <2>2. Listed = {} /\ cacheStateAccount # "Ok" /\ todo["re"] = <<>>
    BY <1>1, <2>1, Listing DEF HonestInv
  <2>3. /\ todo[t] # <<>> /\ h \in Ops
        /\ \A v \in Threads : v # t => todo'[v] = todo[v]
        /\ \A S : Has(todo[t], S) <=> h \in S \/ Has(rest, S)
        /\ t # "re" /\ h \in Telling => Has(rest, Sending)
    BY <1>1, <1>4, StepScripts
  <2>4. t # "re"
    BY <2>2, <2>3
  <2>5. ~ Has(rest, Sending)
    <3>1. Sending \subseteq Unlisted
      BY <2>2, OpFields DEF Sending, Unlisted
    <3>2. ~ Has(todo[t], Unlisted)
      BY <1>1 DEF ListInv
    <3> QED  BY <2>3, <3>1, <3>2 DEF Has
  <2>6. h.op # "cacheState"
    BY <2>3, <2>4, <2>5 DEF Telling
  <2>7. UNCHANGED cacheStateAccount
    BY <1>4, <2>6, StepNames DEF UaEvent, PostEvent, SendRegister, SendUnregister,
           ClearUa, UaAlloc, SetUa, kotlin
  <2> QED  BY <1>1, <2>2, <2>3, <2>4, <2>7
<1>5. Next => Handlers \/ \E t \in Threads : Step(t)
  BY DEF Next, Handlers
<1> QED  BY <1>2, <1>3, <1>4, <1>5

(* Ok is honest as long as there is one account: if nothing is under way,  *)
(* isRunning, and baresip's only UA is the one in use, then Ok means that  *)
(* its last REGISTER was answered with success.  Any number of network     *)
(* threads that have it registered again, any timers of baresip's own, any *)
(* calls of the application.  A REGISTER that can fail on the spot reports *)
(* so on the thread that sends it, and an earlier answer may overtake it.  *)
THEOREM OnlyAccountIsHonest ==
    ASSUME "register" \notin Faults
    PROVE  Spec => []OnlyOkIsHonest
<1>1. Init => HonestInv
  <2> SUFFICES ASSUME Init  PROVE HonestInv
    OBVIOUS
  <2>1. TypeOK /\ uag = <<>> /\ "re" \in Threads
    BY ScriptsInit, ThreadNames DEF Init, ScriptsInv
  <2>2. Listed = {} /\ \A u \in Uas : uag # <<u>>
    BY <2>1, Listing
  <2>3. \A t \in Threads : todo[t] = <<>>
    BY DEF Init
  <2>4. ListInv
    BY <2>2, <2>3, HasSmall DEF Init, ListInv
  <2> QED  BY <2>1, <2>2, <2>3, <2>4, ScriptsInit DEF Init, HonestInv
<1>2. HonestInv /\ [Next]_vars => HonestInv'
  <2> SUFFICES ASSUME HonestInv, [Next]_vars  PROVE HonestInv'
    OBVIOUS
  <2>1. TypeOK /\ uag \in Seq(Uas)
    BY DEF HonestInv, ScriptsInv, TypeOK
  <2>2. ScriptsInv' /\ ListInv'
    BY <2>1, ScriptsKept, ListKept DEF HonestInv
  <2>3. uag' = <<>> => cacheStateAccount' # "Ok" /\ todo'["re"] = <<>>
    BY SilentBefore
  <2>4. ASSUME NEW u \in Uas, uag' = <<u>>, Kept(u)'
        PROVE  Sound(u)'
    <3>1. CASE UNCHANGED vars
      <4>1. uag = <<u>> /\ Kept(u)
        BY <2>4, <3>1 DEF vars, kotlin, registrar, Kept
      <4>2. Sound(u)
        BY <4>1 DEF HonestInv
      <4> QED  BY <3>1, <4>2 DEF vars, kotlin, registrar, Sound
    <3>2. CASE Handlers
      <4>1. uag = <<u>>
        BY <2>4, <3>2 DEF Handlers, InitSipModule, RefreshSipAccount, UnregisterSipAccount,
           HotSpotDisabled, Detach, Deliver, NetworkCallback, HotSpotTimer, Answer,
           PeriodicRefresh, registrar
      <4> QED  BY <2>4, <3>2, <4>1, HandlerKeepsSound
    <3>3. ASSUME NEW t \in Threads, Step(t)
          PROVE  Sound(u)'
      <4>1. CASE uag' = uag
        BY <2>4, <3>3, <4>1, StepKeepsSound
      <4>2. CASE \E w \in Uas : uag' = Append(uag, w)
        <5>1. uag = <<>>
          BY <2>1, <2>4, <4>2, Listing
        <5> QED  BY <2>4, <3>3, <5>1, FirstIsSound
      <4> QED  BY <2>1, <3>3, <4>1, <4>2, StepLists DEF HonestInv
    <3>4. Next => Handlers \/ \E t \in Threads : Step(t)
      BY DEF Next, Handlers
    <3> QED  BY <3>1, <3>2, <3>3, <3>4
  <2> QED  BY <2>2, <2>3, <2>4 DEF HonestInv
<1>3. HonestInv => OnlyOkIsHonest
  <2> SUFFICES ASSUME HonestInv, Quiet, isRunning, cacheStateAccount = "Ok", uag = <<ua>>
               PROVE  Registered(ua)
    BY DEF OnlyOkIsHonest
  <2>1. pending = {} /\ (\A t \in Threads : todo[t] = <<>>)
    BY DEF Quiet, Idle
  <2>2. TypeOK /\ Listed = {ua} /\ ua \in Uas /\ ua # NoUa
    BY Listing, NoUaAssumption DEF HonestInv, ScriptsInv
  <2>3. Kept(ua)
    BY <2>1, HasSmall, ThreadNames DEF Kept
  <2>4. Sound(ua)
    BY <2>2, <2>3 DEF HonestInv
  <2>5. outcome[ua] = "ok"
    BY <2>1, <2>4, HasSmall, ThreadNames DEF Sound
  <2>6. wanted[ua] = "register"
    BY <2>4, <2>5 DEF Sound
  <2> QED  BY <2>2, <2>5, <2>6 DEF Registered
<1> QED  BY <1>1, <1>2, <1>3, PTL DEF Spec
=============================================================================
