---------------------------- MODULE BridgeProofs ----------------------------
(***************************************************************************)
(* Theorems about Bridge, for any callers, any events and any number of    *)
(* upcalls: the lock does what it is for, and Kotlin does what is meant by *)
(* an event.                                                               *)
(***************************************************************************)
EXTENDS Bridge, SequenceTheorems, TLAPS

(* What may come after what in a script whose calls all take the lock.     *)
Follows ==
    {<<"enter", "api">>, <<"api", "leave">>, <<"leave", "kotlin">>, <<"kotlin", "enter">>}

Paired(s) ==
    /\ \A i \in 1 .. Len(s) - 1 : <<s[i].op, s[i + 1].op>> \in Follows
    /\ s # <<>> => s[Len(s)].op = "leave"

(* A thread has the lock when it is inside baresip, and only then.  This   *)
(* is inductive because scripts are paired: what follows an operation that *)
(* takes the lock is inside, and what follows one that releases it is not. *)
LockInv ==
    /\ TypeOK
    /\ \A t \in Threads : Paired(todo[t])
    /\ \A t \in Threads : holder = t <=> t \in Inside

(* The script of a thread after its first operation is done.               *)
LEMMA PairedTail ==
    ASSUME NEW s \in Seq(Ops), s # <<>>, Paired(s)
    PROVE  /\ Tail(s) \in Seq(Ops) /\ Head(s) \in Ops
           /\ Paired(Tail(s))
           /\ Tail(s) = <<>> => Head(s).op = "leave"
           /\ Tail(s) # <<>> => <<Head(s).op, Head(Tail(s)).op>> \in Follows
<1>1. /\ Tail(s) \in Seq(Ops) /\ Head(s) \in Ops /\ Head(s) = s[1]
      /\ Len(Tail(s)) = Len(s) - 1 /\ Len(s) \in Nat \ {0}
      /\ \A i \in 1 .. Len(Tail(s)) : Tail(s)[i] = s[i + 1]
  BY HeadTailProperties, LenProperties, EmptySeq
<1>2. Paired(Tail(s))
  <2>1. ASSUME NEW i \in 1 .. Len(Tail(s)) - 1
        PROVE  <<Tail(s)[i].op, Tail(s)[i + 1].op>> \in Follows
    <3>1. /\ i \in 1 .. Len(Tail(s)) /\ i + 1 \in 1 .. Len(Tail(s))
          /\ i + 1 \in 1 .. Len(s) - 1
      BY <1>1
    <3> QED  BY <1>1, <3>1 DEF Paired
  <2>2. ASSUME Tail(s) # <<>> PROVE Tail(s)[Len(Tail(s))].op = "leave"
    <3>1. Len(Tail(s)) \in 1 .. Len(Tail(s)) /\ Len(Tail(s)) + 1 = Len(s)
      BY <1>1, <2>2, LenProperties, EmptySeq
    <3> QED  BY <1>1, <3>1 DEF Paired
  <2> QED  BY <2>1, <2>2 DEF Paired
<1>3. ASSUME Tail(s) = <<>> PROVE Head(s).op = "leave"
  <2>1. Len(s) = 1
    BY <1>1, <1>3
  <2> QED  BY <1>1, <2>1 DEF Paired
<1>4. ASSUME Tail(s) # <<>> PROVE <<Head(s).op, Head(Tail(s)).op>> \in Follows
  <2>1. 1 \in 1 .. Len(s) - 1 /\ 1 \in 1 .. Len(Tail(s)) /\ Head(Tail(s)) = Tail(s)[1]
    BY <1>1, <1>4, LenProperties, EmptySeq, HeadTailProperties
  <2> QED  BY <1>1, <2>1 DEF Paired
<1> QED  BY <1>1, <1>2, <1>3, <1>4

(* An operation put in front of a script.                                  *)
LEMMA PairedCons ==
    ASSUME NEW s \in Seq(Ops), s # <<>>, Paired(s), NEW o \in Ops,
           <<o.op, Head(s).op>> \in Follows
    PROVE  <<o>> \o s \in Seq(Ops) /\ <<o>> \o s # <<>> /\ Head(<<o>> \o s) = o
           /\ Paired(<<o>> \o s)
<1> DEFINE r == <<o>> \o s
<1>1. /\ r \in Seq(Ops) /\ Len(r) = Len(s) + 1 /\ Len(s) \in Nat \ {0}
      /\ r[1] = o /\ \A i \in 1 .. Len(s) : r[i + 1] = s[i]
  BY LenProperties, EmptySeq, ConcatProperties
<1>2. r # <<>> /\ Head(r) = o /\ Head(s) = s[1]
  BY <1>1, EmptySeq
<1>3. ASSUME NEW i \in 1 .. Len(r) - 1 PROVE <<r[i].op, r[i + 1].op>> \in Follows
  <2>1. CASE i = 1  BY <1>1, <1>2, <2>1
  <2>2. CASE i # 1
    <3>1. i - 1 \in 1 .. Len(s) - 1 /\ i - 1 \in 1 .. Len(s) /\ i \in 1 .. Len(s)
      BY <1>1, <1>3, <2>2
    <3>2. r[i] = s[i - 1] /\ r[i + 1] = s[(i - 1) + 1]
      BY <1>1, <3>1
    <3> QED  BY <3>1, <3>2 DEF Paired
  <2> QED  BY <2>1, <2>2
<1>4. r[Len(r)].op = "leave"
  <2>1. Len(s) \in 1 .. Len(s) /\ Len(r) = Len(s) + 1  BY <1>1
  <2> QED  BY <1>1, <2>1 DEF Paired
<1> QED  BY <1>1, <1>2, <1>3, <1>4 DEF Paired

(* Four operations in front of a script are put there one by one.          *)
LEMMA FourInFront ==
    ASSUME NEW q \in Seq(Ops), Len(q) = 4, NEW s \in Seq(Ops)
    PROVE  q \o s = <<q[1]>> \o (<<q[2]>> \o (<<q[3]>> \o (<<q[4]>> \o s)))
<1>1. q[1] \in Ops /\ q[2] \in Ops /\ q[3] \in Ops /\ q[4] \in Ops /\ Len(s) \in Nat
  <2>1. 1 \in 1 .. Len(q) /\ 2 \in 1 .. Len(q) /\ 3 \in 1 .. Len(q) /\ 4 \in 1 .. Len(q)
    OBVIOUS
  <2>2. Len(s) \in Nat  BY LenProperties
  <2> QED  BY <2>1, <2>2, ElementOfSeq
<1>2. PICK a, b, c, d : a = q[1] /\ b = q[2] /\ c = q[3] /\ d = q[4]
  OBVIOUS
<1>3. PICK v : v = q \o s  OBVIOUS
<1>4. /\ v \in Seq(Ops) /\ Len(v) = Len(s) + 4
      /\ v[1] = a /\ v[2] = b /\ v[3] = c /\ v[4] = d
      /\ \A i \in 1 .. Len(s) : v[4 + i] = s[i]
  <2>1. /\ v \in Seq(Ops) /\ Len(v) = Len(q) + Len(s)
        /\ \A i \in 1 .. Len(q) + Len(s) : v[i] = IF i <= Len(q) THEN q[i] ELSE s[i - Len(q)]
    BY <1>3, ConcatProperties, Zenon
  <2>2. \A i \in 1 .. Len(s) : v[4 + i] = s[i]
    <3> SUFFICES ASSUME NEW i \in 1 .. Len(s) PROVE v[4 + i] = s[i]  OBVIOUS
    <3>1. 4 + i \in 1 .. Len(q) + Len(s) /\ ~ (4 + i <= Len(q)) /\ (4 + i) - Len(q) = i
      BY <1>1
    <3> QED  BY <2>1, <3>1
  <2> QED  BY <1>1, <1>2, <2>1, <2>2
<1>5. PICK x : x = <<d>> \o s  OBVIOUS
<1>6. x \in Seq(Ops) /\ Len(x) = Len(s) + 1
      /\ x[1] = d /\ \A i \in 1 .. Len(s) : x[i + 1] = s[i]
  BY <1>1, <1>2, <1>5, ConcatProperties
<1>7. PICK y : y = <<c>> \o x  OBVIOUS
<1>8. y \in Seq(Ops) /\ Len(y) = Len(x) + 1
      /\ y[1] = c /\ \A i \in 1 .. Len(x) : y[i + 1] = x[i]
  BY <1>1, <1>2, <1>6, <1>7, ConcatProperties
<1>9. PICK z : z = <<b>> \o y  OBVIOUS
<1>10. z \in Seq(Ops) /\ Len(z) = Len(y) + 1
       /\ z[1] = b /\ \A i \in 1 .. Len(y) : z[i + 1] = y[i]
  BY <1>1, <1>2, <1>8, <1>9, ConcatProperties
<1>11. PICK w : w = <<a>> \o z  OBVIOUS
<1>12. w \in Seq(Ops) /\ Len(w) = Len(z) + 1
       /\ w[1] = a /\ \A i \in 1 .. Len(z) : w[i + 1] = z[i]
  BY <1>1, <1>2, <1>10, <1>11, ConcatProperties
<1>13. w[2] = b /\ w[3] = c /\ w[4] = d
  <2>1. 1 \in 1 .. Len(z) /\ 2 \in 1 .. Len(z) /\ 3 \in 1 .. Len(z)
        /\ 1 \in 1 .. Len(y) /\ 2 \in 1 .. Len(y) /\ 1 \in 1 .. Len(x)
    BY <1>1, <1>6, <1>8, <1>10
  <2>2. w[1 + 1] = z[1] /\ w[2 + 1] = z[2] /\ w[3 + 1] = z[3]
        /\ z[1 + 1] = y[1] /\ z[2 + 1] = y[2] /\ y[1 + 1] = x[1]
    BY <1>8, <1>10, <1>12, <2>1
  <2> QED  BY <1>6, <1>8, <1>10, <2>2
<1>14. ASSUME NEW i \in 1 .. Len(s) PROVE w[4 + i] = s[i]
  <2>1. i + 1 \in 1 .. Len(x) /\ (i + 1) + 1 \in 1 .. Len(y) /\ ((i + 1) + 1) + 1 \in 1 .. Len(z)
    BY <1>1, <1>6, <1>8, <1>10
  <2>2. w[(((i + 1) + 1) + 1) + 1] = s[i]
    <3>1. x[i + 1] = s[i]  BY <1>6
    <3>2. y[(i + 1) + 1] = x[i + 1]  BY <1>8, <2>1
    <3>3. z[((i + 1) + 1) + 1] = y[(i + 1) + 1]  BY <1>10, <2>1
    <3>4. w[(((i + 1) + 1) + 1) + 1] = z[((i + 1) + 1) + 1]  BY <1>12, <2>1
    <3> QED  BY <3>1, <3>2, <3>3, <3>4
  <2>3. (((i + 1) + 1) + 1) + 1 = 4 + i  BY <1>1
  <2> QED  BY <2>2, <2>3
<1>15. Len(w) = Len(v)
  BY <1>1, <1>4, <1>6, <1>8, <1>10, <1>12
<1>16. ASSUME NEW i \in 1 .. Len(v) PROVE v[i] = w[i]
  <2>1. i = 1 \/ i = 2 \/ i = 3 \/ i = 4 \/ (i - 4 \in 1 .. Len(s) /\ i = 4 + (i - 4))
    BY <1>1, <1>4
  <2> QED  BY <1>4, <1>12, <1>13, <1>14, <2>1
<1>17. v = w
  BY <1>4, <1>12, <1>15, <1>16, SeqEqual
<1> QED  BY <1>2, <1>3, <1>5, <1>7, <1>9, <1>11, <1>17

(* What an event adds to a script, when environments are found.            *)
LEMMA UpcallScripts ==
    ASSUME ~ GetEnvFails, NEW e \in Raised, NEW script \in Upcall(e)
    PROVE  \/ script = <<ApiOp>>
           \/ e \in Told /\ script = <<LeaveOp, KotlinOp(e, TextOf(e)), EnterOp, ApiOp>>
BY DEF Upcall, Told

LEMMA OpNames ==
    /\ EnterOp.op = "enter" /\ ApiOp.op = "api" /\ LeaveOp.op = "leave"
    /\ EnterOp \in Ops /\ ApiOp \in Ops /\ LeaveOp \in Ops
    /\ \A e \in Told : /\ KotlinOp(e, TextOf(e)).op = "kotlin"
                       /\ KotlinOp(e, TextOf(e)) \in Ops
BY DEF EnterOp, ApiOp, LeaveOp, KotlinOp, Ops

LEMMA LockedIsPaired ==
    /\ Locked \in Seq(Ops) /\ Locked # <<>> /\ Head(Locked).op = "enter" /\ Paired(Locked)
    /\ <<>> \in Seq(Ops) /\ Paired(<<>>)
<1>1. Locked \in Seq(Ops) /\ Len(Locked) = 3 /\ Locked # <<>> /\ Head(Locked) = EnterOp
      /\ Locked[1] = EnterOp /\ Locked[2] = ApiOp /\ Locked[3] = LeaveOp
  BY OpNames DEF Locked
<1>2. ASSUME NEW i \in 1 .. Len(Locked) - 1
      PROVE  <<Locked[i].op, Locked[i + 1].op>> \in Follows
  <2>1. i = 1 \/ i = 2  BY <1>1
  <2> QED  BY <1>1, <2>1, OpNames DEF Follows
<1>3. Paired(Locked)
  BY <1>1, <1>2, OpNames DEF Paired
<1>4. <<>> \in Seq(Ops) /\ Paired(<<>>)
  BY DEF Paired
<1> QED  BY <1>1, <1>3, <1>4, OpNames

(* A thread starts: it does not have the lock yet.                         *)
LEMMA StartKeepsLock ==
    ASSUME LockInv, NEW t \in Threads, NEW script \in {Locked, <<>>},
           Start(t, script), upcalls' = [upcalls EXCEPT ![t] = 0], UNCHANGED holder
    PROVE  LockInv'
<1> USE UpcallBoundAssumption
<1>1. script \in Seq(Ops) /\ Paired(script)
      /\ ~ (script # <<>> /\ Head(script).op = "api")
      /\ ~ (script # <<>> /\ Head(script).op = "leave")
  BY LockedIsPaired
<1>2. todo' \in [Threads -> Seq(Ops)] /\ todo'[t] = script
      /\ \A u \in Threads : u # t => todo'[u] = todo[u]
  BY <1>1 DEF LockInv, TypeOK, Start
<1>3. TypeOK'
  <2>1. 0 \in 0 .. UpcallBound  OBVIOUS
  <2>2. upcalls' \in [Threads -> 0 .. UpcallBound]
    BY <2>1 DEF LockInv, TypeOK
  <2> QED  BY <1>2, <2>2 DEF LockInv, TypeOK
<1>4. t \notin Inside /\ t \notin Inside'
  BY <1>1, <1>2 DEF Inside, At, Start, Idle
<1>5. \A u \in Threads : u # t => (u \in Inside' <=> u \in Inside)
  BY <1>2 DEF Inside, At
<1>6. \A u \in Threads : Paired(todo'[u])
  BY <1>1, <1>2 DEF LockInv
<1> QED  BY <1>3, <1>4, <1>5, <1>6 DEF LockInv

(* A thread does its first operation, and script is what is left.  It is   *)
(* inside afterwards if and only if it has the lock.                       *)
LEMMA StepKeepsLock ==
    ASSUME LockInv, NEW t \in Threads, NEW script \in Seq(Ops), Paired(script),
           todo' = [todo EXCEPT ![t] = script],
           upcalls' \in [Threads -> 0 .. UpcallBound],
           holder' \in {holder, t, Nobody},
           holder' # holder => holder \in {t, Nobody},
           holder' = t <=> (script # <<>> /\ Head(script).op \in {"api", "leave"})
    PROVE  LockInv'
<1>1. todo' \in [Threads -> Seq(Ops)] /\ todo'[t] = script
      /\ \A u \in Threads : u # t => todo'[u] = todo[u]
  BY DEF LockInv, TypeOK
<1>2. TypeOK'
  BY <1>1 DEF LockInv, TypeOK
<1>3. t \in Inside' <=> holder' = t
  BY <1>1 DEF Inside, At
<1>4. \A u \in Threads : u # t => (u \in Inside' <=> u \in Inside)
  BY <1>1 DEF Inside, At
<1>5. \A u \in Threads : u # t => (holder' = u <=> holder = u)
  BY NobodyAssumption
<1>6. \A u \in Threads : Paired(todo'[u])
  BY <1>1 DEF LockInv
<1> QED  BY <1>2, <1>3, <1>4, <1>5, <1>6 DEF LockInv

LEMMA LockNext ==
    ASSUME LockInv, [Next]_vars, "bare" \notin Wrappers, ~ GetEnvFails
    PROVE  LockInv'
<1> USE UpcallBoundAssumption
<1>1. ASSUME NEW t \in Callers, CallWrapper(t) PROVE LockInv'
  <2>1. PICK shape \in Wrappers : \E script \in Script(shape) : Start(t, script)
    BY <1>1 DEF CallWrapper
  <2>2. Script(shape) \subseteq {Locked, <<>>}
    BY <2>1, WrappersAssumption DEF Script
  <2>3. PICK script \in {Locked, <<>>} : Start(t, script)
    BY <2>1, <2>2
  <2> QED  BY <1>1, <2>3, StartKeepsLock DEF CallWrapper, Threads
<1>2. ASSUME MainLoop PROVE LockInv'
  BY <1>2, StartKeepsLock DEF MainLoop, Threads
<1>3. ASSUME NEW t \in Threads, Enter(t) \/ Step(t) PROVE LockInv'
  <2>0. PICK s : s = todo[t]  OBVIOUS
  <2>1. s \in Seq(Ops) /\ s # <<>> /\ Paired(s)
    BY <1>3, <2>0 DEF LockInv, TypeOK, Enter, Step, Leave, Raise, ApiReturns, KotlinReturns, At
  <2>2. /\ Tail(s) \in Seq(Ops) /\ Head(s) \in Ops /\ Paired(Tail(s))
        /\ Tail(s) = <<>> => Head(s).op = "leave"
        /\ Tail(s) # <<>> => <<Head(s).op, Head(Tail(s)).op>> \in Follows
        /\ <<>> \o Tail(s) = Tail(s)
    BY <2>1, PairedTail, ConcatEmptySeq
  <2>3. holder \in Threads \union {Nobody} /\ upcalls \in [Threads -> 0 .. UpcallBound]
        /\ (holder = t <=> Head(s).op \in {"api", "leave"})
    BY <2>0, <2>1 DEF LockInv, TypeOK, Inside, At
  <2>4. CASE Enter(t)
    <3>1. todo' = [todo EXCEPT ![t] = Tail(s)] /\ holder' = t /\ holder = Nobody
          /\ UNCHANGED upcalls /\ Head(s).op = "enter"
      BY <2>2, <2>0, <2>4 DEF Enter, Continue, At
    <3>2. Tail(s) # <<>> /\ Head(Tail(s)).op = "api"
      BY <2>2, <3>1 DEF Follows
    <3> QED  BY <2>2, <2>3, <3>1, <3>2, StepKeepsLock
  <2>5. CASE Leave(t)
    <3>1. todo' = [todo EXCEPT ![t] = Tail(s)] /\ holder = t /\ holder' = Nobody
          /\ UNCHANGED upcalls /\ Head(s).op = "leave"
      BY <2>2, <2>3, <2>0, <2>5 DEF Leave, Continue, At
    <3>2. Tail(s) # <<>> => Head(Tail(s)).op = "kotlin"
      BY <2>2, <3>1 DEF Follows
    <3> QED  BY <2>2, <2>3, <3>1, <3>2, StepKeepsLock, NobodyAssumption
  <2>6. CASE Raise(t)
    <3>1. PICK e \in Raised : \E script \in Upcall(e) : Continue(t, script)
      BY <2>6 DEF Raise
    <3>2. PICK script \in Upcall(e) : todo' = [todo EXCEPT ![t] = script \o Tail(s)]
      BY <2>0, <3>1 DEF Continue
    <3>3. /\ Head(s).op = "api" /\ holder = t /\ UNCHANGED holder
          /\ upcalls' \in [Threads -> 0 .. UpcallBound]
      BY <2>3, <2>0, <2>6 DEF Raise, At
    <3>4. Tail(s) # <<>> /\ Head(Tail(s)).op = "leave"
      BY <2>2, <3>3 DEF Follows
    <3> DEFINE a == <<ApiOp>> \o Tail(s)
               b == <<EnterOp>> \o a
               k == <<KotlinOp(e, TextOf(e))>> \o b
               l == <<LeaveOp>> \o k
    <3>5. a \in Seq(Ops) /\ a # <<>> /\ Head(a) = ApiOp /\ Paired(a)
      BY <2>2, <3>4, OpNames, PairedCons DEF Follows
    <3>6. CASE script = <<ApiOp>>
      BY <2>3, <3>2, <3>3, <3>5, <3>6, OpNames, StepKeepsLock
    <3>7. CASE e \in Told /\ script = <<LeaveOp, KotlinOp(e, TextOf(e)), EnterOp, ApiOp>>
      <4>1. b \in Seq(Ops) /\ b # <<>> /\ Head(b) = EnterOp /\ Paired(b)
        <5> HIDE DEF a
        <5> QED  BY <3>5, OpNames, PairedCons DEF Follows
      <4>2. k \in Seq(Ops) /\ k # <<>> /\ Head(k).op = "kotlin" /\ Paired(k)
        <5> HIDE DEF b
        <5> QED  BY <3>7, <4>1, OpNames, PairedCons DEF Follows
      <4>3. l \in Seq(Ops) /\ l # <<>> /\ Head(l) = LeaveOp /\ Paired(l)
        <5> HIDE DEF k
        <5> QED  BY <4>2, OpNames, PairedCons DEF Follows
      <4>4. script \o Tail(s) = l
        <5>1. PICK o : o = KotlinOp(e, TextOf(e))  OBVIOUS
        <5>2. PICK q : q = <<LeaveOp, o, EnterOp, ApiOp>>  OBVIOUS
        <5>3. PICK r : r = Tail(s)  OBVIOUS
        <5>4. o \in Ops /\ LeaveOp \in Ops /\ EnterOp \in Ops /\ ApiOp \in Ops /\ r \in Seq(Ops)
          BY <2>2, <3>7, <5>1, <5>3, OpNames
        <5>5. q \o r = <<LeaveOp>> \o (<<o>> \o (<<EnterOp>> \o (<<ApiOp>> \o r)))
          <6>1. q \in Seq(Ops) /\ Len(q) = 4
                /\ q[1] = LeaveOp /\ q[2] = o /\ q[3] = EnterOp /\ q[4] = ApiOp
            BY <5>2, <5>4
          <6> QED  BY <5>4, <6>1, FourInFront
        <5> QED  BY <3>7, <5>1, <5>2, <5>3, <5>5
      <4> HIDE DEF l
      <4> QED  BY <2>3, <3>2, <3>3, <4>3, <4>4, OpNames, StepKeepsLock
    <3> QED  BY <3>2, <3>6, <3>7, UpcallScripts
  <2>7. CASE ApiReturns(t)
    <3>1. todo' = [todo EXCEPT ![t] = Tail(s)] /\ holder = t /\ UNCHANGED <<holder, upcalls>>
          /\ Head(s).op = "api"
      BY <2>2, <2>3, <2>0, <2>7 DEF ApiReturns, Continue, At
    <3>2. Tail(s) # <<>> /\ Head(Tail(s)).op = "leave"
      BY <2>2, <3>1 DEF Follows
    <3> QED  BY <2>2, <2>3, <3>1, <3>2, StepKeepsLock
  <2>8. CASE KotlinReturns(t)
    <3>1. todo' = [todo EXCEPT ![t] = Tail(s)] /\ holder # t /\ UNCHANGED <<holder, upcalls>>
          /\ Head(s).op = "kotlin"
      BY <2>2, <2>3, <2>0, <2>8 DEF KotlinReturns, Continue, At
    <3>2. Tail(s) # <<>> /\ Head(Tail(s)).op = "enter"
      BY <2>2, <3>1 DEF Follows
    <3> QED  BY <2>2, <2>3, <3>1, <3>2, StepKeepsLock
  <2> QED  BY <1>3, <2>4, <2>5, <2>6, <2>7, <2>8 DEF Step
<1>4. ASSUME UNCHANGED vars PROVE LockInv'
  BY <1>4 DEF vars, LockInv, TypeOK, Inside, At
<1> QED  BY <1>1, <1>2, <1>3, <1>4 DEF Next

LEMMA LockInit == Init => LockInv
BY NobodyAssumption, UpcallBoundAssumption DEF Init, LockInv, TypeOK, Paired, Inside, At

(* The variables keep their types, for any callers, functions, events and  *)
(* number of upcalls, environments that are not found included.            *)
THEOREM TypeCorrect == Spec => []TypeOK
<1>1. Init => TypeOK
  BY UpcallBoundAssumption DEF Init, TypeOK
<1>2. TypeOK /\ [Next]_vars => TypeOK'
  <2> SUFFICES ASSUME TypeOK, [Next]_vars PROVE TypeOK'  OBVIOUS
  <2> USE UpcallBoundAssumption
  <2>1. ASSUME NEW t \in Threads, NEW script \in Seq(Ops), Start(t, script),
               upcalls' = [upcalls EXCEPT ![t] = 0], UNCHANGED holder
        PROVE  TypeOK'
    <3>1. 0 \in 0 .. UpcallBound  OBVIOUS
    <3> QED  BY <2>1, <3>1 DEF TypeOK, Start
  <2>2. ASSUME NEW t \in Callers, CallWrapper(t) PROVE TypeOK'
    <3>1. PICK shape \in Wrappers : \E script \in Script(shape) : Start(t, script)
      BY <2>2 DEF CallWrapper
    <3>2. PICK script \in Script(shape) : Start(t, script)
      BY <3>1
    <3>3. Bare \in Seq(Ops)  BY OpNames DEF Bare
    <3>4. script \in Seq(Ops)  BY <3>2, <3>3, LockedIsPaired, WrappersAssumption DEF Script
    <3> QED  BY <2>1, <2>2, <3>2, <3>4 DEF CallWrapper, Threads
  <2>3. ASSUME MainLoop PROVE TypeOK'
    BY <2>1, <2>3, LockedIsPaired DEF MainLoop, Threads
  <2>4. ASSUME NEW t \in Threads, Enter(t) \/ Step(t) PROVE TypeOK'
    <3>0. PICK s : s = todo[t]  OBVIOUS
    <3>1. s \in Seq(Ops) /\ s # <<>> /\ Tail(s) \in Seq(Ops) /\ <<>> \o Tail(s) = Tail(s)
      BY <2>4, <3>0, HeadTailProperties, ConcatEmptySeq
      DEF TypeOK, Enter, Step, Leave, Raise, ApiReturns, KotlinReturns, At
    <3>2. CASE Raise(t)
      <4>0. PICK e \in Raised : \E script \in Upcall(e) : Continue(t, script)
        BY <3>2 DEF Raise
      <4>1. PICK script \in Upcall(e) : Continue(t, script)
        BY <4>0
      <4>2. script \in Seq(Ops)
        <5>1. EnterOp \in Ops /\ ApiOp \in Ops /\ LeaveOp \in Ops
          BY OpNames
        <5>2. \/ script = <<ApiOp>> \/ script = <<LeaveOp, ApiOp>>
              \/ e \in Told /\ script = <<LeaveOp, KotlinOp(e, TextOf(e)), EnterOp, ApiOp>>
          BY <4>1 DEF Upcall, Told
        <5>3. CASE script = <<ApiOp>>  BY <5>1, <5>3
        <5>4. CASE script = <<LeaveOp, ApiOp>>  BY <5>1, <5>4
        <5>5. CASE e \in Told /\ script = <<LeaveOp, KotlinOp(e, TextOf(e)), EnterOp, ApiOp>>
          <6>1. PICK o \in Ops : o = KotlinOp(e, TextOf(e))  BY <5>5, OpNames
          <6> QED  BY <5>1, <5>5, <6>1
        <5> QED  BY <5>2, <5>3, <5>4, <5>5
      <4>3. script \o Tail(s) \in Seq(Ops)
        BY <3>1, <4>2, ConcatProperties
      <4>4. upcalls' \in [Threads -> 0 .. UpcallBound] /\ UNCHANGED holder
        BY <3>2 DEF Raise, TypeOK
      <4>5. todo' = [todo EXCEPT ![t] = script \o Tail(s)]
        BY <3>0, <4>1 DEF Continue
      <4> QED  BY <4>3, <4>4, <4>5 DEF TypeOK
    <3>3. CASE Enter(t) \/ Leave(t) \/ ApiReturns(t) \/ KotlinReturns(t)
      <4>1. todo' = [todo EXCEPT ![t] = Tail(s)] /\ UNCHANGED upcalls
            /\ holder' \in {holder, t, Nobody}
        BY <3>0, <3>1, <3>3 DEF Enter, Leave, ApiReturns, KotlinReturns, Continue
      <4> QED  BY <3>1, <4>1 DEF TypeOK
    <3> QED  BY <2>4, <3>2, <3>3 DEF Step
  <2>5. ASSUME UNCHANGED vars PROVE TypeOK'
    BY <2>5 DEF vars, TypeOK
  <2> QED  BY <2>2, <2>3, <2>4, <2>5 DEF Next
<1> QED  BY <1>1, <1>2, PTL DEF Spec

(* The lock as Mutex promises it: a thread enters when nobody is inside,   *)
(* and leaves before another one enters.                                   *)
THEOREM LockWorks ==
    ASSUME ~ GetEnvFails, "bare" \notin Wrappers
    PROVE  Spec => OneAtATime
<1>1. Init => M!Init
  BY DEF Init, M!Init, Inside, At
<1>2. LockInv /\ LockInv' /\ [Next]_vars => [M!Next]_Inside
  <2> SUFFICES ASSUME LockInv, LockInv', [Next]_vars PROVE Inside' = Inside \/ M!Next
    OBVIOUS
  <2>1. /\ Inside = {t \in Threads : holder = t}
        /\ Inside' = {t \in Threads : holder' = t}
    BY DEF LockInv, Inside
  <2>2. CASE UNCHANGED holder  BY <2>1, <2>2
  <2>3. ASSUME NEW t \in Threads, Enter(t) PROVE M!Next
    <3>1. holder = Nobody /\ holder' = t  BY <2>3 DEF Enter
    <3>2. Inside = {} /\ Inside' = {t}  BY <2>1, <3>1, NobodyAssumption
    <3> QED  BY <3>2 DEF M!Next, M!Enter
  <2>4. ASSUME NEW t \in Threads, Leave(t), ~ UNCHANGED holder PROVE M!Next
    <3>1. holder = t /\ holder' = Nobody  BY <2>4 DEF Leave
    <3>2. Inside = {t} /\ Inside' = {}  BY <2>1, <3>1, NobodyAssumption
    <3> QED  BY <3>2 DEF M!Next, M!Leave
  <2> QED
    BY <2>2, <2>3, <2>4
    DEF Next, vars, CallWrapper, MainLoop, Step, Raise, ApiReturns, KotlinReturns
<1>3. LockInv /\ [Next]_vars => LockInv'
  BY LockNext
<1> QED  BY <1>1, <1>2, <1>3, LockInit, PTL DEF Spec, OneAtATime, M!Spec

-----------------------------------------------------------------------------
(* That Kotlin runs without the lock needs less: whatever a thread calls,  *)
(* Kotlin only comes right after the lock was released.                    *)

Released(s) == \A i \in 1 .. Len(s) - 1 : s[i + 1].op = "kotlin" => s[i].op = "leave"

UnlockInv ==
    /\ TypeOK
    /\ \A t \in Threads : Released(todo[t])
    /\ KotlinIsUnlocked

LEMMA ReleasedTail ==
    ASSUME NEW s \in Seq(Ops), s # <<>>, Released(s)
    PROVE  /\ Tail(s) \in Seq(Ops) /\ Released(Tail(s))
           /\ Tail(s) # <<>> /\ Head(Tail(s)).op = "kotlin" => Head(s).op = "leave"
<1>1. /\ Tail(s) \in Seq(Ops) /\ Head(s) = s[1]
      /\ Len(Tail(s)) = Len(s) - 1 /\ Len(s) \in Nat \ {0}
      /\ \A i \in 1 .. Len(Tail(s)) : Tail(s)[i] = s[i + 1]
  BY HeadTailProperties, LenProperties, EmptySeq
<1>2. ASSUME NEW i \in 1 .. Len(Tail(s)) - 1, Tail(s)[i + 1].op = "kotlin"
      PROVE  Tail(s)[i].op = "leave"
  <2>1. /\ i \in 1 .. Len(Tail(s)) /\ i + 1 \in 1 .. Len(Tail(s))
        /\ i + 1 \in 1 .. Len(s) - 1
    BY <1>1
  <2> QED  BY <1>1, <1>2, <2>1 DEF Released
<1>3. ASSUME Tail(s) # <<>>, Head(Tail(s)).op = "kotlin" PROVE Head(s).op = "leave"
  <2>1. 1 \in 1 .. Len(s) - 1 /\ 1 \in 1 .. Len(Tail(s)) /\ Head(Tail(s)) = Tail(s)[1]
    BY <1>1, <1>3, LenProperties, EmptySeq, HeadTailProperties
  <2> QED  BY <1>1, <1>3, <2>1 DEF Released
<1> QED  BY <1>1, <1>2, <1>3 DEF Released

LEMMA ReleasedConcat ==
    ASSUME NEW q \in Seq(Ops), NEW s \in Seq(Ops), Released(q), Released(s),
           s # <<>> => Head(s).op # "kotlin"
    PROVE  Released(q \o s)
<1> DEFINE r == q \o s
<1>1. /\ Len(r) = Len(q) + Len(s) /\ Len(q) \in Nat /\ Len(s) \in Nat
      /\ \A i \in 1 .. Len(q) + Len(s) : r[i] = IF i <= Len(q) THEN q[i] ELSE s[i - Len(q)]
  BY LenProperties, ConcatProperties
<1>2. SUFFICES ASSUME NEW i \in 1 .. Len(r) - 1, r[i + 1].op = "kotlin"
               PROVE  r[i].op = "leave"
  BY DEF Released
<1>3. i \in 1 .. Len(q) + Len(s) /\ i + 1 \in 1 .. Len(q) + Len(s)
  BY <1>1
<1>4. CASE i < Len(q)
  <2>1. i \in 1 .. Len(q) - 1 /\ i <= Len(q) /\ i + 1 <= Len(q)
    BY <1>1, <1>3, <1>4
  <2>2. r[i] = q[i] /\ r[i + 1] = q[i + 1]
    BY <1>1, <1>3, <2>1
  <2> QED  BY <1>2, <2>1, <2>2 DEF Released
<1>5. CASE i = Len(q)
  <2>1. ~ (i + 1 <= Len(q)) /\ (i + 1) - Len(q) = 1 /\ Len(s) >= 1
    BY <1>1, <1>3, <1>5
  <2>2. r[i + 1] = s[1] /\ s # <<>> /\ Head(s) = s[1]
    BY <1>1, <1>3, <2>1, EmptySeq
  <2> QED  BY <1>2, <2>2
<1>6. CASE i > Len(q)
  <2>1. PICK k : k = i - Len(q)  OBVIOUS
  <2>2. k \in 1 .. Len(s) - 1 /\ ~ (i <= Len(q)) /\ ~ (i + 1 <= Len(q))
        /\ (i + 1) - Len(q) = k + 1
    BY <1>1, <1>3, <1>6, <2>1
  <2>3. r[i] = s[k] /\ r[i + 1] = s[k + 1]
    BY <1>1, <1>3, <2>1, <2>2
  <2> QED  BY <1>2, <2>2, <2>3 DEF Released
<1> QED  BY <1>1, <1>3, <1>4, <1>5, <1>6

LEMMA ReleasedScripts ==
    /\ Locked \in Seq(Ops) /\ Released(Locked) /\ Head(Locked).op # "kotlin"
    /\ Bare \in Seq(Ops) /\ Released(Bare) /\ Head(Bare).op # "kotlin"
    /\ <<>> \in Seq(Ops) /\ Released(<<>>)
    /\ \A e \in Raised : \A script \in Upcall(e) :
          /\ script \in Seq(Ops) /\ Released(script)
          /\ script # <<>> /\ Head(script).op # "kotlin"
<1>1. /\ Locked \in Seq(Ops) /\ Len(Locked) = 3 /\ Locked[1] = EnterOp
      /\ Locked[2] = ApiOp /\ Locked[3] = LeaveOp /\ Head(Locked) = EnterOp
  BY OpNames DEF Locked
<1>2. Released(Locked)
  <2> SUFFICES ASSUME NEW i \in 1 .. 2 PROVE Locked[i + 1].op # "kotlin"
    BY <1>1 DEF Released
  <2>1. i = 1 \/ i = 2  OBVIOUS
  <2> QED  BY <1>1, <2>1, OpNames
<1>3. Bare \in Seq(Ops) /\ Len(Bare) = 1 /\ Head(Bare) = ApiOp
  BY OpNames DEF Bare
<1>4. Released(Bare) /\ Released(<<>>) /\ <<>> \in Seq(Ops)
  BY <1>3 DEF Released
<1>5. ASSUME NEW e \in Raised, NEW script \in Upcall(e)
      PROVE  /\ script \in Seq(Ops) /\ Released(script)
             /\ script # <<>> /\ Head(script).op # "kotlin"
  <2>1. \/ script = <<ApiOp>> \/ script = <<LeaveOp, ApiOp>>
        \/ e \in Told /\ script = <<LeaveOp, KotlinOp(e, TextOf(e)), EnterOp, ApiOp>>
    BY DEF Upcall, Told
  <2>2. CASE script = <<ApiOp>>
    BY <2>2, <1>3, <1>4, OpNames DEF Bare
  <2>3. CASE script = <<LeaveOp, ApiOp>>
    <3>1. script \in Seq(Ops) /\ Len(script) = 2 /\ script[1] = LeaveOp /\ script[2] = ApiOp
          /\ Head(script) = LeaveOp /\ script # <<>>
      BY <2>3, OpNames
    <3>2. Released(script)
      <4> SUFFICES ASSUME NEW i \in 1 .. 1 PROVE script[i + 1].op # "kotlin"
        BY <3>1 DEF Released
      <4> QED  BY <3>1, OpNames
    <3> QED  BY <3>1, <3>2, OpNames
  <2>4. CASE e \in Told /\ script = <<LeaveOp, KotlinOp(e, TextOf(e)), EnterOp, ApiOp>>
    <3>0. PICK o \in Ops : o = KotlinOp(e, TextOf(e))  BY <2>4, OpNames
    <3>1. /\ script \in Seq(Ops) /\ Len(script) = 4 /\ script[1] = LeaveOp /\ script[2] = o
          /\ script[3] = EnterOp /\ script[4] = ApiOp
          /\ Head(script) = LeaveOp /\ script # <<>>
      BY <2>4, <3>0, OpNames
    <3>2. Released(script)
      <4> SUFFICES ASSUME NEW i \in 1 .. 3, script[i + 1].op = "kotlin"
                   PROVE  script[i].op = "leave"
        BY <3>1 DEF Released
      <4>1. i = 1 \/ i = 2 \/ i = 3  OBVIOUS
      <4> QED  BY <3>1, <4>1, OpNames
    <3> QED  BY <3>1, <3>2, OpNames
  <2> QED  BY <2>1, <2>2, <2>3, <2>4
<1> QED  BY <1>1, <1>2, <1>3, <1>4, <1>5, OpNames

(* A thread has done something, and script is left: unless that is what    *)
(* Kotlin does next, nobody need have released anything.                   *)
LEMMA StepKeepsUnlocked ==
    ASSUME UnlockInv, TypeOK', NEW t \in Threads, NEW script \in Seq(Ops), Released(script),
           todo' = [todo EXCEPT ![t] = script],
           holder' \in {holder, t, Nobody},
           script # <<>> /\ Head(script).op = "kotlin" => holder' # t
    PROVE  UnlockInv'
<1>1. todo'[t] = script /\ \A u \in Threads : u # t => todo'[u] = todo[u]
  BY DEF UnlockInv, TypeOK
<1>2. \A u \in Threads : u # t => (holder' = u => holder = u)
  BY NobodyAssumption
<1>3. \A u \in Threads : Released(todo'[u])
  BY <1>1 DEF UnlockInv
<1>4. KotlinIsUnlocked'
  BY <1>1, <1>2 DEF UnlockInv, KotlinIsUnlocked, At
<1> QED  BY <1>3, <1>4 DEF UnlockInv

LEMMA UnlockNext ==
    ASSUME UnlockInv, TypeOK', [Next]_vars
    PROVE  UnlockInv'
<1>1. ASSUME NEW t \in Threads, NEW script \in {Locked, Bare, <<>>}, Start(t, script),
             UNCHANGED holder
      PROVE  UnlockInv'
  <2>1. script \in Seq(Ops) /\ Released(script)
        /\ ~ (script # <<>> /\ Head(script).op = "kotlin")
    BY ReleasedScripts
  <2>2. todo' = [todo EXCEPT ![t] = script]
    BY <1>1 DEF Start
  <2> QED  BY <1>1, <2>1, <2>2, StepKeepsUnlocked
<1>2. ASSUME NEW t \in Callers, CallWrapper(t) PROVE UnlockInv'
  <2>1. PICK shape \in Wrappers : \E script \in Script(shape) : Start(t, script)
    BY <1>2 DEF CallWrapper
  <2>2. Script(shape) \subseteq {Locked, Bare, <<>>}
    BY <2>1, WrappersAssumption DEF Script
  <2> QED  BY <1>1, <1>2, <2>1, <2>2 DEF CallWrapper, Threads
<1>3. ASSUME MainLoop PROVE UnlockInv'
  BY <1>1, <1>3 DEF MainLoop, Threads
<1>4. ASSUME NEW t \in Threads, Enter(t) \/ Step(t) PROVE UnlockInv'
  <2>0. PICK s : s = todo[t]  OBVIOUS
  <2>1. s \in Seq(Ops) /\ s # <<>> /\ Released(s)
    BY <1>4, <2>0
    DEF UnlockInv, TypeOK, Enter, Step, Leave, Raise, ApiReturns, KotlinReturns, At
  <2>2. /\ Tail(s) \in Seq(Ops) /\ Released(Tail(s)) /\ <<>> \o Tail(s) = Tail(s)
        /\ Tail(s) # <<>> /\ Head(Tail(s)).op = "kotlin" => Head(s).op = "leave"
    BY <2>1, ReleasedTail, ConcatEmptySeq
  <2>3. CASE Leave(t)
    <3>1. todo' = [todo EXCEPT ![t] = Tail(s)] /\ holder' \in {holder, Nobody} /\ holder' # t
      BY <2>0, <2>2, <2>3, NobodyAssumption DEF Leave, Continue
    <3> QED  BY <1>4, <2>2, <3>1, StepKeepsUnlocked
  <2>4. CASE Enter(t) \/ ApiReturns(t) \/ KotlinReturns(t)
    <3>1. todo' = [todo EXCEPT ![t] = Tail(s)] /\ holder' \in {holder, t}
          /\ Head(s).op # "leave"
      BY <2>0, <2>2, <2>4 DEF Enter, ApiReturns, KotlinReturns, Continue, At
    <3> QED  BY <1>4, <2>2, <3>1, StepKeepsUnlocked
  <2>5. CASE Raise(t)
    <3>1. PICK e \in Raised : \E script \in Upcall(e) : Continue(t, script)
      BY <2>5 DEF Raise
    <3>2. PICK script \in Upcall(e) : todo' = [todo EXCEPT ![t] = script \o Tail(s)]
      BY <2>0, <3>1 DEF Continue
    <3>3. /\ script \in Seq(Ops) /\ Released(script)
          /\ script # <<>> /\ Head(script).op # "kotlin"
      BY <3>2, ReleasedScripts
    <3>4. Head(s).op = "api" /\ UNCHANGED holder
      BY <2>0, <2>5 DEF Raise, At
    <3>5. PICK r : r = script \o Tail(s)  OBVIOUS
    <3>6. r \in Seq(Ops) /\ Released(r)
      BY <2>2, <3>3, <3>4, <3>5, ReleasedConcat, ConcatProperties
    <3>7. ~ (r # <<>> /\ Head(r).op = "kotlin")
      <4>1. Len(script) \in Nat \ {0} /\ Head(script) = script[1] /\ Len(Tail(s)) \in Nat
        BY <2>2, <3>3, EmptySeq, LenProperties
      <4>2. Len(r) >= 1 /\ r[1] = script[1]
        BY <2>2, <3>3, <3>5, <4>1, ConcatProperties
      <4> QED  BY <3>3, <3>6, <4>1, <4>2
    <3> QED  BY <1>4, <3>2, <3>4, <3>5, <3>6, <3>7, StepKeepsUnlocked
  <2> QED  BY <1>4, <2>3, <2>4, <2>5 DEF Step
<1>5. ASSUME UNCHANGED vars PROVE UnlockInv'
  BY <1>5 DEF vars, UnlockInv, TypeOK, KotlinIsUnlocked, At
<1> QED  BY <1>2, <1>3, <1>4, <1>5 DEF Next

(* Kotlin never runs with the lock, whatever functions the threads call,   *)
(* those without the lock among them, and whether or not GetEnv finds the  *)
(* environment (ua_event_handler leaves before it calls).                  *)
THEOREM KotlinRunsUnlocked == Spec => []KotlinIsUnlocked
<1>1. Init => UnlockInv
  BY UpcallBoundAssumption DEF Init, UnlockInv, TypeOK, Released, KotlinIsUnlocked, At
<1>2. UnlockInv /\ TypeOK' /\ [Next]_vars => UnlockInv'
  BY UnlockNext
<1>3. UnlockInv => KotlinIsUnlocked
  BY DEF UnlockInv
<1> QED  BY <1>1, <1>2, <1>3, TypeCorrect, PTL DEF Spec

-----------------------------------------------------------------------------
(* What Kotlin reads out of a text.                                        *)

LEMMA TextOfTwo ==
    ASSUME NEW a, NEW b
    PROVE  <<a>> \o <<b>> = <<a, b>>
<1> DEFINE T == {a, b}
           r == <<a>> \o <<b>>
           l == <<a, b>>
<1>1. <<a>> \in Seq(T) /\ <<b>> \in Seq(T) /\ Len(<<a>>) = 1 /\ Len(<<b>>) = 1
      /\ <<a>>[1] = a /\ <<b>>[1] = b
      /\ l \in Seq(T) /\ Len(l) = 2 /\ l[1] = a /\ l[2] = b
  OBVIOUS
<1>2. r \in Seq(T) /\ Len(r) = 2 /\ r[1] = a /\ r[2] = b
  BY <1>1, ConcatProperties
<1> HIDE DEF l, r, T
<1>3. \A i \in 1 .. Len(l) : l[i] = r[i]
  <2>1. \A i \in 1 .. 2 : i = 1 \/ i = 2
    OBVIOUS
  <2> QED BY <1>1, <1>2, <2>1
<1>4. l = r
  BY <1>1, <1>2, <1>3, SeqEqual
<1> QED BY <1>4 DEF l, r

LEMMA TextOfThree ==
    ASSUME NEW a, NEW b, NEW c
    PROVE  <<a, b>> \o <<c>> = <<a, b, c>>
<1> DEFINE T == {a, b, c}
           r == <<a, b>> \o <<c>>
           l == <<a, b, c>>
<1>1. <<a, b>> \in Seq(T) /\ <<c>> \in Seq(T) /\ Len(<<a, b>>) = 2 /\ Len(<<c>>) = 1
      /\ <<a, b>>[1] = a /\ <<a, b>>[2] = b /\ <<c>>[1] = c
      /\ l \in Seq(T) /\ Len(l) = 3 /\ l[1] = a /\ l[2] = b /\ l[3] = c
  OBVIOUS
<1>2. r \in Seq(T) /\ Len(r) = 3 /\ r[1] = a /\ r[2] = b /\ r[3] = c
  BY <1>1, ConcatProperties
<1> HIDE DEF l, r, T
<1>3. \A i \in 1 .. Len(l) : l[i] = r[i]
  <2>1. \A i \in 1 .. 3 : i = 1 \/ i = 2 \/ i = 3
    OBVIOUS
  <2> QED BY <1>1, <1>2, <2>1
<1>4. l = r
  BY <1>1, <1>2, <1>3, SeqEqual
<1> QED BY <1>4 DEF l, r

\* The texts of events whose parameter has one part.
LEMMA PartsOfText ==
    ASSUME NEW prm \in Seq(STRING), Len(prm) = 1, NEW first, NEW last
    PROVE  /\ prm = <<prm[1]>> /\ Tail(prm) = <<>>
           /\ <<first>> \o prm = <<first, prm[1]>>
           /\ (<<first>> \o prm) \o <<last>> = <<first, prm[1], last>>
           /\ <<first>> \o Tail(prm) = <<first>>
<1>1. prm = <<prm[1]>>
  OBVIOUS
<1>2. PICK p \in STRING : prm = <<p>>
  BY <1>1
<1>3. <<p>>[1] = p /\ Tail(<<p>>) = <<>> /\ <<first>> \o <<>> = <<first>>
  OBVIOUS
<1> QED BY <1>2, <1>3, TextOfTwo, TextOfThree

\* Kotlin takes other texts of calls for a sign of life.
IgnoredTexts ==
    {"call answered", "call redirect", "call transfer", "transfer failed",
     "call secure", "call verify", "call verified", "unknown menc event"}

LEMMA OthersIgnored ==
    ASSUME NEW text, text[1] \in IgnoredTexts
    PROVE  CallReaction(text) = <<"ignore">>
BY DEF CallReaction, IgnoredTexts

\* The events of accounts, and those that the handler does not know.
LEMMA AccountTextMeans ==
    ASSUME NEW e, e.prm \in Seq(STRING), Len(e.prm) = 1, Format(e) # NoText, ~ AboutCall(e),
           e.kind \notin {"MESSAGE", "RESPONSE"}
    PROVE  Reaction(e, Format(e)) = Meant(e)
<1>0. PICK x : x = Format(e)
  OBVIOUS
<1>1. Reaction(e, Format(e)) = AccountReaction(x)
  BY <1>0 DEF Reaction
<1>2. CASE e.kind = "CREATE"
  <2>1. x = <<"create">> /\ x[1] = "create"
    BY <1>0, <1>2 DEF Format
  <2>2. Meant(e) = <<"ignore">>
    BY <1>2 DEF Meant
  <2> QED BY <1>1, <2>1, <2>2 DEF AccountReaction
<1>3. CASE e.kind \in {"REGISTERING", "UNREGISTERING"}
  <2>1. x = <<UaEventRegStr(e.kind)>> /\ x[1] = UaEventRegStr(e.kind)
    BY <1>0, <1>3 DEF Format
  <2>2. UaEventRegStr(e.kind) \in {"registering", "unregistering"}
    BY <1>3 DEF UaEventRegStr
  <2>3. Meant(e) = <<"progress">>
    BY <1>3 DEF Meant
  <2> QED BY <1>1, <2>1, <2>2, <2>3 DEF AccountReaction
<1>4. CASE e.kind \in {"REGISTER_OK", "FALLBACK_OK"}
  <2>1. x = <<UaEventRegStr(e.kind)>> /\ x[1] = UaEventRegStr(e.kind)
    BY <1>0, <1>4 DEF Format
  <2>2. UaEventRegStr(e.kind) = "registered"
    BY <1>4 DEF UaEventRegStr
  <2>3. Meant(e) = <<"ok or none">>
    BY <1>4 DEF Meant
  <2> QED BY <1>1, <2>1, <2>2, <2>3 DEF AccountReaction
<1>5. CASE e.kind \in {"REGISTER_FAIL", "FALLBACK_FAIL"}
  <2>1. x = <<UaEventRegStr(e.kind)>> \o e.prm
    BY <1>0, <1>5 DEF Format
  <2>2. UaEventRegStr(e.kind) = "registering failed"
    BY <1>5 DEF UaEventRegStr
  <2>3. x[1] = "registering failed"
    <3>1. x = <<"registering failed", e.prm[1]>>
      BY <2>1, <2>2, PartsOfText
    <3> QED BY <3>1
  <2>4. Meant(e) = <<"failed">>
    BY <1>5 DEF Meant
  <2> QED BY <1>1, <2>3, <2>4 DEF AccountReaction
<1>6. CASE e.kind = "MWI_NOTIFY"
  <2>1. x = <<"mwi notify">> \o e.prm
    BY <1>0, <1>6 DEF Format
  <2>2. x[1] = "mwi notify"
    <3>1. x = <<"mwi notify", e.prm[1]>>
      BY <2>1, PartsOfText
    <3> QED BY <3>1
  <2>3. Meant(e) = <<"ignore">>
    BY <1>6 DEF Meant
  <2> QED BY <1>1, <2>2, <2>3 DEF AccountReaction
<1>7. CASE e.kind \notin {"CREATE", "REGISTERING", "UNREGISTERING", "REGISTER_OK",
                         "FALLBACK_OK", "REGISTER_FAIL", "FALLBACK_FAIL", "MWI_NOTIFY"}
  <2>1. ~ (Len(e.prm) > 2)
    OBVIOUS
  <2>2. x = NoText
    BY <1>0, <1>7, <2>1, Zenon DEF Format, AboutCall
  <2> QED BY <1>0, <2>2
<1> QED BY <1>2, <1>3, <1>4, <1>5, <1>6, <1>7

\* The events of calls.
LEMMA CallTextMeans ==
    ASSUME NEW e, e.prm \in Seq(STRING), Len(e.prm) = 1, Format(e) # NoText, AboutCall(e)
    PROVE  Reaction(e, Format(e)) = Meant(e)
<1> DEFINE p == e.prm[1]
<1>0. PICK x : x = Format(e)
  OBVIOUS
<1>1. Reaction(e, Format(e)) = CallReaction(x)
  BY <1>0 DEF Reaction
<1>2. ASSUME NEW first, NEW last
      PROVE  /\ e.prm = <<p>> /\ Tail(e.prm) = <<>>
             /\ <<first>> \o e.prm = <<first, p>>
             /\ (<<first>> \o e.prm) \o <<last>> = <<first, p, last>>
             /\ <<first>> \o Tail(e.prm) = <<first>>
  BY PartsOfText
<1>3. CASE e.kind = "CALL_INCOMING"
  <2>1. x[1] = "call incoming" /\ x[Len(x)] = p
    <3>1. x = <<"call incoming">> \o e.prm
      BY <1>0, <1>3 DEF Format
    <3>2. x = <<"call incoming", p>>
      BY <1>2, <3>1
    <3> QED BY <3>2
  <2>2. CallReaction(x) = <<"ring in", p>>
    BY <2>1 DEF CallReaction
  <2>3. Meant(e) = <<"ring in", p>>
    BY <1>3 DEF Meant
  <2> QED BY <1>1, <2>2, <2>3
<1>4. CASE e.kind \in {"CALL_OUTGOING", "CALL_RINGING", "CALL_ESTABLISHED"}
  <2>1. CASE e.kind = "CALL_OUTGOING"
    <3>1. x = <<"call outgoing">> /\ x[1] = "call outgoing"
      BY <1>0, <2>1 DEF Format
    <3> QED BY <1>1, <2>1, <3>1 DEF CallReaction, Meant
  <2>2. CASE e.kind = "CALL_RINGING"
    <3>1. x = <<"call ringing">> /\ x[1] = "call ringing"
      BY <1>0, <2>2 DEF Format
    <3> QED BY <1>1, <2>2, <3>1 DEF CallReaction, Meant
  <2>3. CASE e.kind = "CALL_ESTABLISHED"
    <3>1. x = <<"call established">> /\ x[1] = "call established"
      BY <1>0, <2>3 DEF Format
    <3> QED BY <1>1, <2>3, <3>1 DEF CallReaction, Meant
  <2> QED BY <1>4, <2>1, <2>2, <2>3
<1>5. CASE e.kind = "CALL_PROGRESS"
  <2>1. x = <<"call progress", e.dir>> /\ x[1] = "call progress" /\ x[2] = e.dir
    BY <1>0, <1>5 DEF Format
  <2>2. CallReaction(x) = IF e.dir \in {1, 3} THEN <<"silence">> ELSE <<"ring back">>
    BY <2>1 DEF CallReaction
  <2> QED BY <1>1, <1>5, <2>2 DEF Meant
<1>6. CASE e.kind = "CALL_REMOTE_SDP"
  <2>1. CASE e.prm # <<"offer">>
    <3>1. x = NoText
      BY <1>0, <1>6, <2>1, Zenon DEF Format
    <3> QED BY <1>0, <3>1
  <2>2. CASE e.prm = <<"offer">>
    <3>1. x = <<"call update", e.dir>>
      BY <1>0, <1>6, <2>2 DEF Format
    <3>2. x[1] = "call update" /\ x[2] = e.dir
      BY <3>1
    <3>3. CASE e.dir = 1
      <4>0. x[2] = 1
        BY <3>2, <3>3
      <4>3. 1 # 3
        OBVIOUS
      <4>1. CallReaction(x) = <<"paused">>
        BY <3>2, <4>0, <4>3, Zenon DEF CallReaction
      <4>2. Meant(e) = <<"paused">>
        BY <1>6, <3>3 DEF Meant
      <4> QED BY <1>1, <4>1, <4>2
    <3>4. CASE e.dir = 3
      <4>0. x[2] = 3
        BY <3>2, <3>4
      <4>3. 3 # 1
        OBVIOUS
      <4>1. CallReaction(x) = <<"resuming">>
        BY <3>2, <4>0, <4>3, Zenon DEF CallReaction
      <4>2. Meant(e) = <<"resuming">>
        BY <1>6, <3>4 DEF Meant
      <4> QED BY <1>1, <4>1, <4>2
    <3>5. CASE e.dir \notin {1, 3}
      BY <1>1, <1>6, <3>2, <3>5 DEF CallReaction, Meant
    <3> QED BY <3>3, <3>4, <3>5
  <2> QED BY <2>1, <2>2
<1>7. CASE e.kind = "CALL_CLOSED"
  <2> DEFINE tone == TranslateErrorcode(e.code)
  <2>1. x[1] = "call closed" /\ x[3] = tone
    <3>1. x = <<"call closed">> \o e.prm \o <<tone>>
      BY <1>0, <1>7 DEF Format
    <3> HIDE DEF tone
    <3>2. x = <<"call closed", p, tone>>
      BY <1>2, <3>1
    <3> QED BY <3>2
  <2>2. tone = "busy" <=> e.code \in {486, 603}
    BY DEF TranslateErrorcode
  <2> HIDE DEF tone
  <2>3. CallReaction(x) = IF tone = "busy" THEN <<"hangup", "busy">> ELSE <<"hangup">>
    BY <2>1 DEF CallReaction
  <2> QED BY <1>1, <1>7, <2>2, <2>3 DEF Meant
<1>8. CASE e.kind \in {"CALL_ANSWERED", "CALL_REDIRECT", "CALL_LOCAL_SDP", "CALL_MENC",
                      "CALL_TRANSFER", "CALL_TRANSFER_FAILED"}
  <2>1. Meant(e) = <<"ignore">>
    BY <1>8 DEF Meant
  <2>2. x[1] \in IgnoredTexts
    <3>1. CASE e.kind = "CALL_ANSWERED"
      <4>1. x = <<"call answered">>
        BY <1>0, <3>1 DEF Format
      <4> QED BY <4>1 DEF IgnoredTexts
    <3>2. CASE e.kind = "CALL_REDIRECT"
      <4>1. x = <<"call redirect">> \o Tail(e.prm)
        BY <1>0, <3>2 DEF Format
      <4>2. x = <<"call redirect">>
        BY <1>2, <4>1
      <4> QED BY <4>2 DEF IgnoredTexts
    <3>3. CASE e.kind = "CALL_TRANSFER"
      <4>1. x = <<"call transfer">> \o e.prm
        BY <1>0, <3>3 DEF Format
      <4>2. x = <<"call transfer", p>>
        BY <1>2, <4>1
      <4> QED BY <4>2 DEF IgnoredTexts
    <3>4. CASE e.kind = "CALL_TRANSFER_FAILED"
      <4>1. x = <<"transfer failed">> \o e.prm
        BY <1>0, <3>4 DEF Format
      <4>2. x = <<"transfer failed", p>>
        BY <1>2, <4>1
      <4> QED BY <4>2 DEF IgnoredTexts
    <3>5. CASE e.kind = "CALL_LOCAL_SDP"
      <4>1. CASE e.prm # <<"offer">>
        <5>1. x = <<"call answered">>
          BY <1>0, <3>5, <4>1 DEF Format
        <5> QED BY <5>1 DEF IgnoredTexts
      <4>2. CASE e.prm = <<"offer">>
        <5>1. x = NoText
          BY <1>0, <3>5, <4>2, Zenon DEF Format
        <5> QED BY <1>0, <5>1
      <4> QED BY <4>1, <4>2
    <3>6. CASE e.kind = "CALL_MENC"
      <4>1. x = MencText(e.prm)
        BY <1>0, <3>6 DEF Format
      <4>2. /\ <<"call verify">> \o Tail(e.prm) = <<"call verify">>
            /\ <<"call verified">> \o Tail(e.prm) = <<"call verified">>
        BY <1>2
      <4>3. x \in {<<"call secure">>, <<"call verify">>, <<"call verified">>,
                   <<"unknown menc event">>}
        BY <4>1, <4>2 DEF MencText
      <4>4. /\ <<"call secure">>[1] = "call secure" /\ <<"call verify">>[1] = "call verify"
            /\ <<"call verified">>[1] = "call verified"
            /\ <<"unknown menc event">>[1] = "unknown menc event"
        OBVIOUS
      <4> QED BY <4>3, <4>4, Zenon DEF IgnoredTexts
    <3> QED BY <1>8, <3>1, <3>2, <3>3, <3>4, <3>5, <3>6
  <2>3. CallReaction(x) = <<"ignore">>
    BY <2>2, OthersIgnored, Zenon
  <2> QED BY <1>1, <2>1, <2>3
<1>9. \/ e.kind \in {"CALL_OUTGOING", "CALL_RINGING", "CALL_ESTABLISHED"}
      \/ e.kind \in {"CALL_ANSWERED", "CALL_REDIRECT", "CALL_LOCAL_SDP", "CALL_MENC",
                     "CALL_TRANSFER", "CALL_TRANSFER_FAILED"}
      \/ e.kind \in {"CALL_INCOMING", "CALL_PROGRESS", "CALL_REMOTE_SDP", "CALL_CLOSED"}
  BY DEF AboutCall
<1>10. CASE e.kind \in {"CALL_INCOMING", "CALL_PROGRESS", "CALL_REMOTE_SDP", "CALL_CLOSED"}
  BY <1>3, <1>5, <1>6, <1>7, <1>10, Zenon
<1> QED BY <1>4, <1>8, <1>9, <1>10

LEMMA TextMeans ==
    ASSUME NEW e, e.prm \in Seq(STRING), Len(e.prm) = 1, TextOf(e) # NoText
    PROVE  Reaction(e, TextOf(e)) = Meant(e)
<1> DEFINE p == e.prm[1]
<1>1. ASSUME NEW first, NEW last
      PROVE  /\ e.prm = <<p>> /\ Tail(e.prm) = <<>>
             /\ <<first>> \o e.prm = <<first, p>>
             /\ (<<first>> \o e.prm) \o <<last>> = <<first, p, last>>
             /\ <<first>> \o Tail(e.prm) = <<first>>
  BY PartsOfText
<1>2. CASE e.kind = "MESSAGE"
  <2>1. TextOf(e) = <<"message", p>>
    BY <1>1, <1>2 DEF TextOf, MessageText
  <2> QED BY <1>2, <2>1 DEF Reaction, AboutCall, AccountReaction, Meant
<1>3. CASE e.kind = "RESPONSE"
  <2>1. TextOf(e) = <<"response", e.code>>
    BY <1>3 DEF TextOf, ResponseText
  <2> QED BY <1>3, <2>1 DEF Reaction, AboutCall, AccountReaction, Meant
<1>4. CASE e.kind \notin {"MESSAGE", "RESPONSE"}
  <2>1. TextOf(e) = Format(e) /\ Format(e) # NoText
    BY <1>4 DEF TextOf, EventText
  <2> QED BY <1>4, <2>1, AccountTextMeans, CallTextMeans
<1> QED BY <1>2, <1>3, <1>4

(* Kotlin takes out of every text what baresip said, for any events whose  *)
(* parameter has one part, whichever upcalls and calls of the bridge come  *)
(* between (ua_event_handler, uaEvent).                                    *)
THEOREM KotlinHearsWhatIsMeant == Spec => []HeardAsMeant
<1>1. TypeOK => HeardAsMeant
  <2> SUFFICES ASSUME TypeOK, NEW t \in Threads, At(t, "kotlin"),
                      Len(Head(todo[t]).event.prm) = 1
               PROVE  Reaction(Head(todo[t]).event, Head(todo[t]).text)
                         = Meant(Head(todo[t]).event)
    BY DEF HeardAsMeant
  <2> DEFINE k == Head(todo[t])
  <2>1. k \in Ops /\ k.op = "kotlin"
    BY HeadTailProperties DEF TypeOK, At
  <2> HIDE DEF k
  <2>2. PICK e \in Told : k = KotlinOp(e, TextOf(e))
    BY <2>1, OpNames DEF Ops
  <2>3. k.event = e /\ k.text = TextOf(e)
    BY <2>2 DEF KotlinOp
  <2>4. e.prm \in Seq(STRING) /\ TextOf(e) # NoText
    BY RaisedAssumption DEF Told
  <2>5. Len(e.prm) = 1 => Reaction(e, TextOf(e)) = Meant(e)
    BY <2>4, TextMeans
  <2> QED BY <2>3, <2>5 DEF k
<1> QED BY <1>1, TypeCorrect, PTL
=============================================================================
